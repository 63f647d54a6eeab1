------------------------------- MODULE RestoreProofs -------------------------------
(* What a restore owes the user, for every set of displays, backoff profile, window and   *)
(* number of incidents: THEOREMS RestoreIsTyped (with what the operators of RestoreTiming *)
(* and SnapshotStore return), FallbacksAreBounded, HeartbeatIsFair, AttemptsAreSpaced,    *)
(* BaselineIsKept and, for the refinement, EngineKeepsPromise.  RestoreInv is the         *)
(* inductive invariant: what the worker, the queue and the three observers (of the wasted *)
(* restores, of the silence, of the pauses) have to do with each other.                   *)
EXTENDS RestoreProperties, TLAPS

(* A record of these members; of the helper and its worker, the type of each member.      *)
IsRecord(r, members) == r = [m \in members |-> r[m]]
HelperMembers == {"mode", "armed", "kept", "scheduler", "cancel", "queued", "attempted", "fallbacks",
                  "golden_first", "prefer", "guard", "connected", "heartbeat"}
WorkerMembers == {"pc", "grace", "golden_first", "tier", "golden_tried", "current_tried", "loaded",
                  "attempt", "success"}
HostMembers == {"pc", "expected", "since", "tried", "golden_first"}

Modes == {"Waiting", "Applying", "Session", "Recovery", "Validation", "EventLoop", "Exited"}
HelperTyped(h) ==
    /\ h.mode \in Modes /\ h.armed \in BOOLEAN /\ h.kept \in BOOLEAN /\ h.scheduler \in Scheduler
    /\ h.cancel \in BOOLEAN /\ h.queued \in Commands /\ h.attempted \in BOOLEAN
    /\ h.fallbacks \in 0..(kGoldenFallbackCompletionThreshold - 1)
    /\ h.golden_first \in BOOLEAN /\ h.prefer \in BOOLEAN /\ h.guard \in 0..GuardWindow
    /\ h.connected \in BOOLEAN /\ h.heartbeat \in Heartbeat
IsHelper(h) == IsRecord(h, HelperMembers) /\ HelperTyped(h)

(* A tier that is tried has been loaded.                                                  *)
Trying == {"attempt", "verify", "confirmed"}
WorkerTyped(w) ==
    /\ w.pc \in PCs /\ w.grace \in 0..RevertGrace /\ w.golden_first \in BOOLEAN /\ w.tier \in Tiers
    /\ w.golden_tried \in BOOLEAN /\ w.current_tried \in BOOLEAN /\ w.loaded \in Snapshots
    /\ w.attempt \in {1, 2} /\ w.success \in BOOLEAN
    /\ w.pc \in Trying => w.loaded # NoSnapshot
IsWorker(w) == IsRecord(w, WorkerMembers) /\ WorkerTyped(w)

HostTyped ==
    /\ IsRecord(host, HostMembers)
    /\ host.pc \in {"idle", "disarm", "snapshot", "apply", "streaming", "down"}
    /\ host.expected \in BOOLEAN /\ host.since \in 0..TerminateWindow /\ host.tried \in BOOLEAN
    /\ host.golden_first \in BOOLEAN

RestoreShape ==
    /\ files \in Files /\ desk \in Layouts /\ present \in SUBSET Displays /\ present # {}
    /\ IsHelper(helper) /\ IsWorker(worker) /\ HostTyped

LEMMA UpdateIsRecord ==
    ASSUME NEW members, NEW r, IsRecord(r, members), NEW m \in members, NEW v
    PROVE  IsRecord([r EXCEPT ![m] = v], members)
  BY DEF IsRecord

--------------------------------------------------------------------------------
(* The clocks.                                                                            *)

LEMMA Durations ==
    /\ PrimaryWindow \in Nat /\ EventWindow \in Nat /\ OptionalWindow \in Nat /\ MissWindow \in Nat
    /\ RecoveryWindow \in Nat /\ EventWindow <= PrimaryWindow
  BY TimingAssumption DEF TimingAssumption

LEMMA SchedulerTypes ==
    /\ Disarmed \in Scheduler
    /\ \A grace \in Nat : \A s : ArmPrimary(s, grace) \in Scheduler
    /\ \A s \in Scheduler : /\ OnDisplayEvent(s) \in Scheduler /\ OnAttemptFailed(s) \in Scheduler
                            /\ ReportExpired(s) \in Scheduler /\ ElapseScheduler(s) \in Scheduler
<1> DEFINE L == Len(BackoffProfile)
<1>0. L \in Nat /\ L >= 1 /\ \A i \in 1..L : BackoffProfile[i] \in Nat
  BY TimingAssumption
<1>1. Disarmed \in Scheduler
  BY <1>0 DEF Disarmed, Scheduler, Windows
<1>2. \A grace \in Nat : \A s : ArmPrimary(s, grace) \in Scheduler
  BY <1>0, Durations DEF ArmPrimary, Scheduler, Windows
<1>3. ASSUME NEW s \in Scheduler PROVE OnDisplayEvent(s) \in Scheduler
  <2> DEFINE w == IF s.window = Expired \/ s.window < EventWindow THEN EventWindow ELSE s.window
  <2>0. s.window \in Windows 
    BY DEF Scheduler
  <2>1. w \in Windows
    BY <2>0, Durations DEF Windows
  <2>2. OnDisplayEvent(s) = IF ~s.armed THEN s
                            ELSE [s EXCEPT !.index = 1, !.wait = 0, !.reported = FALSE, !.window = w]
    BY DEF OnDisplayEvent, Scheduler
  <2> HIDE DEF w
  <2>3. 1 \in 1..L /\ 0 \in Nat
    BY <1>0
  <2> HIDE DEF L
  <2>4. [s EXCEPT !.index = 1, !.wait = 0, !.reported = FALSE, !.window = w] \in Scheduler
    BY <2>1, <2>3 DEF Scheduler, L
  <2> QED BY <2>2, <2>4
<1>4. ASSUME NEW s \in Scheduler PROVE OnAttemptFailed(s) \in Scheduler
  <2> DEFINE i == IF s.index < L THEN s.index + 1 ELSE s.index
  <2>1. i \in 1..L /\ BackoffProfile[i] \in Nat
    BY <1>0 DEF Scheduler
  <2>2. OnAttemptFailed(s) = [s EXCEPT !.index = i, !.wait = BackoffProfile[i]]
    BY DEF OnAttemptFailed
  <2> HIDE DEF i
  <2> QED BY <2>1, <2>2 DEF Scheduler
<1>5. ASSUME NEW s \in Scheduler PROVE ReportExpired(s) \in Scheduler
  BY DEF Scheduler, ReportExpired
<1>6. ASSUME NEW s \in Scheduler PROVE ElapseScheduler(s) \in Scheduler
  <2> DEFINE w == IF s.window = Expired THEN Expired ELSE s.window - 1
             t == IF s.wait = 0 THEN 0 ELSE s.wait - 1
  <2>1. w \in Windows /\ t \in Nat
    BY DEF Scheduler, Windows, Expired
  <2>2. ElapseScheduler(s) = IF ~s.armed THEN s ELSE [s EXCEPT !.wait = t, !.window = w]
    BY DEF ElapseScheduler
  <2> HIDE DEF w, t
  <2> QED BY <2>1, <2>2 DEF Scheduler
<1> QED BY <1>1, <1>2, <1>3, <1>4, <1>5, <1>6

LEMMA HeartbeatTypes ==
    /\ HeartbeatOff \in Heartbeat /\ ArmHeartbeat \in Heartbeat
    /\ \A hb \in Heartbeat : /\ RecordPing(hb) \in Heartbeat /\ CheckTimeout(hb) \in Heartbeat
                             /\ ElapseHeartbeat(hb) \in Heartbeat
<1> USE Durations
<1>1. HeartbeatOff \in Heartbeat /\ ArmHeartbeat \in Heartbeat
  BY DEF HeartbeatOff, ArmHeartbeat, Heartbeat
<1>2. ASSUME NEW hb \in Heartbeat PROVE RecordPing(hb) \in Heartbeat
  <2>1. [hb EXCEPT !.silent = 0, !.deadline = Unset] \in Heartbeat
    <3>1. 0 \in 0..MissWindow
      OBVIOUS
    <3> QED BY <3>1 DEF Heartbeat
  <2> QED BY <2>1 DEF RecordPing
<1>3. ASSUME NEW hb \in Heartbeat PROVE CheckTimeout(hb) \in Heartbeat
  <2>1. [hb EXCEPT !.deadline = RecoveryWindow] \in Heartbeat
    BY DEF Heartbeat
  <2> QED BY <1>1, <2>1 DEF CheckTimeout
<1>4. ASSUME NEW hb \in Heartbeat PROVE ElapseHeartbeat(hb) \in Heartbeat
  <2> DEFINE s == IF hb.silent = MissWindow THEN hb.silent ELSE hb.silent + 1
             o == IF hb.optional = 0 THEN 0 ELSE hb.optional - 1
             d == IF hb.deadline \in {0, Unset} THEN hb.deadline ELSE hb.deadline - 1
  <2>a. hb.silent \in 0..MissWindow /\ hb.optional \in 0..OptionalWindow
        /\ hb.deadline \in 0..RecoveryWindow \cup {Unset}
    BY DEF Heartbeat
  <2>1. s \in 0..MissWindow /\ o \in 0..OptionalWindow
    BY <2>a
  <2>2. d \in 0..RecoveryWindow \cup {Unset}
    BY <2>a
  <2>3. ElapseHeartbeat(hb) = IF ~hb.armed THEN hb
                              ELSE [hb EXCEPT !.silent = s, !.optional = o, !.deadline = d]
    BY DEF ElapseHeartbeat
  <2> HIDE DEF s, o, d
  <2> QED BY <2>1, <2>2, <2>3 DEF Heartbeat
<1> QED BY <1>1, <1>2, <1>3, <1>4

--------------------------------------------------------------------------------
(* The snapshot files.                                                                    *)

LEMMA SaveTypes ==
    ASSUME NEW f \in Files, NEW tier \in Tiers, NEW s \in Snapshots, NEW ok \in BOOLEAN
    PROVE  Save(f, tier, s, ok) \in Files /\ RemoveSnapshot(f, tier, ok) \in Files
  BY DEF Save, RemoveSnapshot, Files, Snapshots, NoSnapshot

LEMMA SnapshotIsLayout == \A l \in Snapshots : l # {} => l \in Layouts
  BY DEF Snapshots, Layouts

LEMMA FilterForSaveType ==
    ASSUME NEW shown, NEW there \in SUBSET Displays PROVE FilterForSave(shown, there) \in Snapshots
  BY DEF FilterForSave, Snapshots

LEMMA CaptureTypes ==
    ASSUME NEW f \in Files, NEW tier \in Tiers, NEW shown, NEW there \in SUBSET Displays,
           NEW ok \in BOOLEAN, NEW copied \in BOOLEAN
    PROVE  /\ CaptureAndSave(f, tier, shown, there, ok) \in Files
           /\ RefreshCurrent(f, shown, there, copied, ok) \in Files
<1> DEFINE s == FilterForSave(shown, there)
           good == ok /\ s # {}
           copy == copied /\ Exists(f, "current")
<1>1. s \in Snapshots /\ good \in BOOLEAN /\ copy \in BOOLEAN
  BY FilterForSaveType DEF Exists
<1>2. CaptureAndSave(f, tier, shown, there, ok) = Save(f, tier, s, good)
  BY DEF CaptureAndSave
<1>3. f["current"] \in Snapshots /\ "current" \in Tiers /\ "previous" \in Tiers
  BY DEF Files, Tiers
<1>4. RefreshCurrent(f, shown, there, copied, ok)
        = IF s = {} THEN f ELSE Save(Save(f, "previous", f["current"], copy), "current", s, ok)
  BY DEF RefreshCurrent
<1> HIDE DEF s, good, copy
<1>5. Save(f, "previous", f["current"], copy) \in Files
  BY <1>1, <1>3, SaveTypes
<1> QED BY <1>1, <1>2, <1>3, <1>4, <1>5, SaveTypes

LEMMA FilesAfterType ==
    ASSUME files \in Files, IsWorker(worker), NEW copied \in BOOLEAN, NEW removed \in BOOLEAN,
           NEW removed_previous \in BOOLEAN
    PROVE  FilesAfter(worker.tier, copied, removed, removed_previous) \in Files
<1>1. worker.tier \in Tiers /\ worker.current_tried \in BOOLEAN
  BY DEF IsWorker, WorkerTyped
<1>2. files["current"] \in Snapshots /\ "current" \in Tiers /\ "previous" \in Tiers /\ NoSnapshot \in Snapshots
  BY DEF Files, Tiers, Snapshots, NoSnapshot
<1>3. PromoteCurrent(files, copied, removed) \in Files
  <2>1. Save(files, "previous", files["current"], TRUE) \in Files
    BY <1>2, SaveTypes
  <2> QED BY <1>2, <2>1, SaveTypes DEF PromoteCurrent
<1>4. ClearSessionSnapshots(files, removed, removed_previous) \in Files
  <2>1. RemoveSnapshot(files, "current", removed) \in Files
    BY <1>2, SaveTypes
  <2> QED BY <1>2, <2>1, SaveTypes DEF ClearSessionSnapshots
<1>5. RemoveSnapshot(files, "current", removed /\ worker.current_tried) \in Files
  <2> DEFINE ok == removed /\ worker.current_tried
  <2>1. ok \in BOOLEAN
    OBVIOUS
  <2> HIDE DEF ok
  <2>2. RemoveSnapshot(files, "current", ok) \in Files
    BY <1>2, <2>1, SaveTypes
  <2> QED BY <2>2 DEF ok
<1> QED BY <1>1, <1>3, <1>4, <1>5 DEF FilesAfter, Tiers

--------------------------------------------------------------------------------
(* The helper and its worker, operator by operator.                                       *)

LEMMA CommandTypes ==
    /\ NoCommand \in Commands /\ Orphan \in Commands /\ Disarmament \in Commands
    /\ \A g \in BOOLEAN : Apply(g) \in Commands
    /\ \A p, g, d \in BOOLEAN : Revert(p, g, d) \in Commands
  BY DEF Commands, Apply, Revert

(* What a queued command carries.                                                         *)
LEMMA CommandMembers ==
    ASSUME NEW command \in Commands
    PROVE  /\ command.kind = "apply" => command.golden_first \in BOOLEAN
           /\ command.kind = "revert" => /\ command.golden_first \in BOOLEAN /\ command.prefer \in BOOLEAN
                                         /\ command.from_disconnect \in BOOLEAN
           /\ command.kind \in {"none", "orphan", "apply", "revert", "disarm"}
  BY DEF Commands, NoCommand, Orphan, Disarmament

LEMMA IdleType == IsWorker(Idle) /\ \A pc \in {"apply"} : IsWorker([Idle EXCEPT !.pc = pc])
<1>1. RevertGrace \in Nat
  BY EngineAssumption DEF EngineAssumption
<1> QED BY <1>1 DEF IsWorker, IsRecord, WorkerTyped, WorkerMembers, Idle, PCs, Tiers, Snapshots,
                    NoSnapshot, Trying

LEMMA GraceType ==
    ASSUME NEW delay \in 0..RevertGrace PROVE IsWorker([Idle EXCEPT !.pc = "grace", !.grace = delay])
  BY DEF IsWorker, IsRecord, WorkerTyped, WorkerMembers, Idle, PCs, Tiers, Snapshots, NoSnapshot, Trying

LEMMA ConnectedType == ASSUME NEW h, IsHelper(h) PROVE IsHelper(Connected(h))
  BY HeartbeatTypes DEF IsHelper, IsRecord, HelperTyped, HelperMembers, Connected

LEMMA PingedType == ASSUME NEW h, IsHelper(h) PROVE IsHelper(Pinged(h))
  BY HeartbeatTypes DEF IsHelper, IsRecord, HelperTyped, HelperMembers, Pinged

LEMMA FreshTypes == IsHelper(Fresh) /\ IsHelper(NotRunning) /\ IsHelper(Restarted)
<1>1. GuardWindow \in Nat /\ HeartbeatOff \in Heartbeat /\ Disarmed \in Scheduler /\ NoCommand \in Commands
  BY EngineAssumption, HeartbeatTypes, SchedulerTypes, CommandTypes DEF EngineAssumption
<1>2. IsHelper(Fresh)
  BY <1>1 DEF IsHelper, IsRecord, HelperTyped, HelperMembers, Fresh, Modes,
              kGoldenFallbackCompletionThreshold
<1>3. ASSUME NEW h, IsHelper(h) PROVE IsHelper([h EXCEPT !.mode = "Exited"])
  BY <1>3 DEF IsHelper, IsRecord, HelperTyped, HelperMembers, Modes
<1>4. IsHelper(NotRunning)
  BY <1>2, <1>3 DEF NotRunning
<1>5. IsHelper(Restarted)
  BY <1>2, ConnectedType DEF Restarted
<1> QED BY <1>2, <1>4, <1>5

LEMMA StartedType == ASSUME IsHelper(helper) PROVE IsHelper(Started)
<1>1. IsHelper(Connected(helper)) /\ IsHelper(Restarted)
  BY FreshTypes, ConnectedType
<1> QED BY <1>1, PingedType DEF Started

LEMMA ClearTypes ==
    ASSUME NEW h, IsHelper(h)
    PROVE  /\ IsHelper(ResetRequestProgress(h)) /\ IsHelper(ClearRecoveryState(h))
           /\ IsHelper(MistakeDisarms(h)) /\ IsHelper(AfterDisarm(h)) /\ IsHelper(Retain(h))
<1> USE DEF IsHelper, IsRecord, HelperTyped, HelperMembers
<1>0. 0 \in 0..(kGoldenFallbackCompletionThreshold - 1)
  BY DEF kGoldenFallbackCompletionThreshold
<1>1. IsHelper(ResetRequestProgress(h))
  BY <1>0 DEF ResetRequestProgress
<1>2. IsHelper(ClearRecoveryState(h))
  BY <1>0, SchedulerTypes, HeartbeatTypes DEF ClearRecoveryState, ResetRequestProgress, Disarm
<1>3. ASSUME NEW g, IsHelper(g) PROVE IsHelper([g EXCEPT !.mode = "Waiting"])
  BY <1>3 DEF Modes
<1>4. IsHelper(Retain(h))
  BY HeartbeatTypes DEF Retain
<1>5. IsHelper(MistakeDisarms(h))
  <2> DEFINE g == IF h.kept THEN h ELSE ClearRecoveryState(h)
  <2>1. IsHelper(g)
    BY <1>2
  <2>2. MistakeDisarms(h) = [g EXCEPT !.mode = "Waiting"]
    BY DEF MistakeDisarms
  <2> HIDE DEF g, IsHelper
  <2> QED BY <1>3, <2>1, <2>2
<1> HIDE DEF IsHelper
<1>6. IsHelper(AfterDisarm(h))
  BY <1>5 DEF AfterDisarm
<1> QED BY <1>1, <1>2, <1>4, <1>5, <1>6

(* What a command handler leaves is well-typed.                                           *)
HandledType == files' \in Files /\ IsHelper(helper') /\ IsWorker(worker')

LEMMA QueueTypes ==
    ASSUME RestoreShape, NEW h, IsHelper(h), NEW command \in Commands, QueueBehindWorker(h, command)
    PROVE  HandledType
  BY DEF QueueBehindWorker, HandledType, RestoreShape, IsHelper, IsRecord, HelperTyped, HelperMembers

LEMMA BeginApplyTypes ==
    ASSUME RestoreShape, NEW h, IsHelper(h), NEW command, command.golden_first \in BOOLEAN,
           BeginApply(h, command)
    PROVE  HandledType
<1> DEFINE g == ResetRequestProgress(h)
<1>1. IsHelper(g)
  BY ClearTypes
<1>2. helper' = [g EXCEPT !.mode = "Applying", !.cancel = FALSE, !.scheduler = Disarmed,
                          !.heartbeat = ArmHeartbeat, !.golden_first = command.golden_first]
  BY DEF BeginApply, Disarm
<1> HIDE DEF g
<1>3. IsHelper(helper')
  BY <1>1, <1>2, SchedulerTypes, HeartbeatTypes
     DEF IsHelper, IsRecord, HelperTyped, HelperMembers, Modes
<1>4. IsWorker(worker')
  BY IdleType DEF BeginApply
<1>5. files' \in Files
  <2>1. files \in Files /\ present \in SUBSET Displays /\ "current" \in Tiers
    BY DEF RestoreShape, Tiers
  <2>2. CASE Exists(files, "current")
    BY <2>1, <2>2 DEF BeginApply
  <2>3. CASE ~Exists(files, "current")
    <3>1. PICK ok \in BOOLEAN : files' = CaptureAndSave(files, "current", desk', present, ok)
      BY <2>3 DEF BeginApply
    <3> QED BY <2>1, <3>1, CaptureTypes
  <2> QED BY <2>2, <2>3
<1> QED BY <1>3, <1>4, <1>5 DEF HandledType

LEMMA StartRecoveryTypes ==
    ASSUME NEW h, IsHelper(h), NEW delay \in 0..RevertGrace, StartRecovery(h, delay)
    PROVE  IsHelper(helper') /\ IsWorker(worker')
<1>1. IsWorker(worker')
  BY GraceType DEF StartRecovery
<1>2. helper' = [h EXCEPT !.mode = "Recovery", !.cancel = FALSE]
  BY DEF StartRecovery
<1> QED BY <1>1, <1>2 DEF IsHelper, IsRecord, HelperTyped, HelperMembers, Modes

LEMMA BeginRevertTypes ==
    ASSUME RestoreShape, NEW h, IsHelper(h), NEW command \in Commands, command.kind = "revert",
           BeginRevert(h, command)
    PROVE  HandledType
<1>1. files' \in Files
  BY DEF BeginRevert, RestoreShape
<1>2. CASE ~SomeTierExists(files)
  BY <1>1, <1>2, FreshTypes, IdleType DEF BeginRevert, HandledType
<1>3. CASE SomeTierExists(files)
  <2> DEFINE first == IF command.from_disconnect THEN h.golden_first ELSE command.golden_first
             g == [h EXCEPT !.prefer = command.prefer, !.golden_first = first, !.armed = TRUE,
                            !.heartbeat = HeartbeatOff, !.scheduler = ArmPrimary(@, RevertGrace)]
  <2>1. first \in BOOLEAN /\ command.prefer \in BOOLEAN
    BY CommandMembers DEF IsHelper, HelperTyped
  <2>2. RevertGrace \in Nat /\ RevertGrace \in 0..RevertGrace
    BY EngineAssumption DEF EngineAssumption
  <2>3. StartRecovery(g, RevertGrace)
    BY <1>3 DEF BeginRevert
  <2> HIDE DEF first
  <2>4. IsHelper(g)
    BY <2>1, <2>2, SchedulerTypes, HeartbeatTypes DEF IsHelper, IsRecord, HelperTyped, HelperMembers
  <2> HIDE DEF g
  <2> QED BY <1>1, <2>2, <2>3, <2>4, StartRecoveryTypes DEF HandledType
<1> QED BY <1>2, <1>3

LEMMA HandleDisarmTypes ==
    ASSUME RestoreShape, NEW h, IsHelper(h), HandleDisarm(h) PROVE HandledType
<1>1. CASE WorkerActive /\ ~Unconfirmed(h)
  <2>1. IsHelper([h EXCEPT !.scheduler = Disarmed])
    BY SchedulerTypes DEF IsHelper, IsRecord, HelperTyped, HelperMembers
  <2> QED BY <1>1, <2>1, QueueTypes, CommandTypes DEF HandleDisarm, Disarm
<1>2. CASE ~(WorkerActive /\ ~Unconfirmed(h))
  BY <1>2, ClearTypes DEF HandleDisarm, HandledType, RestoreShape
<1> QED BY <1>1, <1>2

LEMMA HandleApplyTypes ==
    ASSUME RestoreShape, NEW h, IsHelper(h), NEW command \in Commands, command.kind = "apply",
           HandleApply(h, command)
    PROVE  HandledType
  BY QueueTypes, BeginApplyTypes, CommandMembers DEF HandleApply

LEMMA HandleRevertTypes ==
    ASSUME RestoreShape, NEW h, IsHelper(h), NEW command \in Commands, command.kind = "revert",
           HandleRevert(h, command)
    PROVE  HandledType
<1>1. CASE helper' = h /\ UNCHANGED <<files, worker>>
  BY <1>1 DEF HandledType, RestoreShape
<1> QED BY <1>1, QueueTypes, BeginRevertTypes DEF HandleRevert

LEMMA SnapshotTypes ==
    ASSUME RestoreShape, NEW h, IsHelper(h), HandleSnapshotCurrent(h) \/ HandleExportGolden(h)
    PROVE  HandledType
<1>1. files \in Files /\ present \in SUBSET Displays /\ "golden" \in Tiers /\ "current" \in Tiers
  BY DEF RestoreShape, Tiers
<1>2. helper' = h /\ worker' = worker
  BY DEF HandleSnapshotCurrent, MistakeSnapshotAlways, HandleExportGolden
<1>3. files' \in Files
  BY <1>1, CaptureTypes DEF HandleSnapshotCurrent, MistakeSnapshotAlways, HandleExportGolden
<1> QED BY <1>2, <1>3 DEF HandledType, RestoreShape

LEMMA DrainTypes ==
    ASSUME RestoreShape, NEW h, IsHelper(h), Drain(h) PROVE HandledType
<1> DEFINE freed == [h EXCEPT !.queued = NoCommand]
<1>1. IsHelper(freed)
  BY CommandTypes DEF IsHelper, IsRecord, HelperTyped, HelperMembers
<1>2. h.queued \in Commands /\ files \in Files
  BY DEF IsHelper, HelperTyped, RestoreShape
<1>3. CASE h.queued.kind \in {"none", "orphan"}
  <2>1. helper' = freed /\ worker' = Idle /\ UNCHANGED files
    BY <1>3 DEF Drain
  <2> QED BY <1>1, <1>2, <2>1, IdleType DEF HandledType
<1>4. CASE h.queued.kind = "apply"
  <2>1. BeginApply(freed, h.queued)
    BY <1>4 DEF Drain
  <2> HIDE DEF freed
  <2> QED BY <1>1, <1>2, <1>4, <2>1, BeginApplyTypes, CommandMembers
<1>5. CASE h.queued.kind = "revert"
  <2>1. BeginRevert(freed, h.queued)
    BY <1>5 DEF Drain
  <2> HIDE DEF freed
  <2> QED BY <1>1, <1>2, <1>5, <2>1, BeginRevertTypes
<1>6. CASE h.queued.kind = "disarm"
  <2>1. helper' = AfterDisarm(freed) /\ worker' = Idle /\ UNCHANGED files
    BY <1>6 DEF Drain
  <2> HIDE DEF freed
  <2> QED BY <1>1, <1>2, <2>1, IdleType, ClearTypes DEF HandledType
<1> QED BY <1>2, <1>3, <1>4, <1>5, <1>6, CommandMembers

--------------------------------------------------------------------------------
(* The completions, the timers and the worker's steps.                                    *)

(* What such a step leaves: files, helper, worker and the desktop.                        *)
EngineType == HandledType /\ desk' \in Layouts /\ UNCHANGED present

LEMMA HelperUpdates ==
    ASSUME NEW h, IsHelper(h)
    PROVE  /\ \A mode \in Modes : IsHelper([h EXCEPT !.mode = mode])
           /\ \A b \in BOOLEAN : /\ IsHelper([h EXCEPT !.armed = b]) /\ IsHelper([h EXCEPT !.kept = b])
                                 /\ IsHelper([h EXCEPT !.cancel = b])
           /\ \A s \in Scheduler : IsHelper([h EXCEPT !.scheduler = s])
           /\ \A hb \in Heartbeat : IsHelper([h EXCEPT !.heartbeat = hb])
           /\ IsHelper([h EXCEPT !.fallbacks = 0])
           /\ [h EXCEPT !.scheduler = OnAttemptFailed(@), !.mode = "EventLoop"]
                = [[h EXCEPT !.scheduler = OnAttemptFailed(@)] EXCEPT !.mode = "EventLoop"]
<1>0. 0 \in 0..(kGoldenFallbackCompletionThreshold - 1)
  BY DEF kGoldenFallbackCompletionThreshold
<1> QED BY <1>0 DEF IsHelper, IsRecord, HelperTyped, HelperMembers

LEMMA FailedAttemptTypes ==
    ASSUME RestoreShape, NEW h, IsHelper(h), FailedAttempt(h) PROVE HandledType
<1>1. OnAttemptFailed(h.scheduler) \in Scheduler /\ "EventLoop" \in Modes
  BY SchedulerTypes DEF IsHelper, HelperTyped, Modes
<1> DEFINE s == OnAttemptFailed(h.scheduler)
           g == [h EXCEPT !.scheduler = s, !.mode = "EventLoop"]
<1>2. FailedAttempt(h) = Drain(g)
  BY DEF FailedAttempt
<1> HIDE DEF s
<1>3. IsHelper(g)
  BY <1>1 DEF s, IsHelper, IsRecord, HelperTyped, HelperMembers
<1> HIDE DEF g
<1> QED BY <1>2, <1>3, DrainTypes

LEMMA ApplyCompletedTypes == ASSUME RestoreShape, ApplyCompleted PROVE EngineType
<1>1. desk' \in Layouts /\ UNCHANGED present
  BY EngineAssumption DEF ApplyCompleted, RestoreShape, EngineAssumption
<1>2. CASE helper.cancel
  <2> DEFINE g == [helper EXCEPT !.armed = TRUE, !.kept = TRUE, !.cancel = FALSE]
  <2>1. IsHelper(g)
    BY DEF RestoreShape, IsHelper, IsRecord, HelperTyped, HelperMembers
  <2>2. Drain(g)
    BY <1>2 DEF ApplyCompleted
  <2> HIDE DEF g
  <2> QED BY <1>1, <2>1, <2>2, DrainTypes DEF EngineType
<1>3. CASE ~helper.cancel
  <2>1. helper' = [helper EXCEPT !.mode = "Session", !.armed = TRUE, !.kept = FALSE,
                                 !.heartbeat = ArmHeartbeat]
    BY <1>3 DEF ApplyCompleted
  <2>2. IsHelper(helper')
    BY <2>1, HeartbeatTypes DEF RestoreShape, IsHelper, IsRecord, HelperTyped, HelperMembers, Modes
  <2>3. worker' = Idle /\ files' \in Files
    BY <1>3 DEF ApplyCompleted, RestoreShape
  <2> QED BY <1>1, <2>2, <2>3, IdleType DEF EngineType, HandledType
<1> QED BY <1>2, <1>3

LEMMA RecoveryCompletedTypes == ASSUME RestoreShape, RecoveryCompleted PROVE EngineType
<1>1. desk' \in Layouts /\ UNCHANGED present /\ IsHelper(helper) /\ IsWorker(worker) /\ files \in Files
  BY DEF RecoveryCompleted, RestoreShape
<1>2. CASE helper.cancel
  <2> DEFINE g == [helper EXCEPT !.cancel = FALSE]
             k == IF worker.pc = "done" THEN Retain(g) ELSE ResetRequestProgress(g)
  <2>1. IsHelper(g)
    BY <1>1, HelperUpdates
  <2>2. Drain(k)
    BY <1>2 DEF RecoveryCompleted
  <2> HIDE DEF g
  <2>3. IsHelper(k)
    BY <2>1, ClearTypes
  <2> HIDE DEF k
  <2> QED BY <1>1, <2>2, <2>3, DrainTypes DEF EngineType
<1>3. CASE ~helper.cancel /\ worker.success
  <2>1. helper' = [helper EXCEPT !.mode = "Validation"] /\ worker' = [worker EXCEPT !.pc = "validate"]
        /\ files' \in Files
    BY <1>3, <1>1 DEF RecoveryCompleted
  <2>2. IsHelper(helper')
    BY <1>1, <2>1, HelperUpdates DEF Modes
  <2>3. IsWorker(worker')
    BY <1>1, <2>1 DEF IsWorker, IsRecord, WorkerTyped, WorkerMembers, PCs, Trying
  <2> QED BY <1>1, <2>1, <2>2, <2>3 DEF EngineType, HandledType
<1>4. CASE ~helper.cancel /\ ~worker.success
  <2>1. FailedAttempt(helper)
    BY <1>4 DEF RecoveryCompleted
  <2> QED BY <1>1, <2>1, FailedAttemptTypes DEF EngineType
<1> QED BY <1>2, <1>3, <1>4

LEMMA RecoveryValidationCompletedTypes ==
    ASSUME RestoreShape, RecoveryValidationCompleted PROVE EngineType
<1>1. desk' \in Layouts /\ UNCHANGED present /\ IsHelper(helper) /\ files \in Files
  BY DEF RecoveryValidationCompleted, RestoreShape
<1>2. CASE helper.cancel
  <2> DEFINE g == [helper EXCEPT !.cancel = FALSE]
  <2>1. IsHelper(g)
    BY <1>1, HelperUpdates
  <2>2. Drain(Retain(g))
    BY <1>2 DEF RecoveryValidationCompleted
  <2> HIDE DEF g
  <2> QED BY <1>1, <2>1, <2>2, ClearTypes, DrainTypes DEF EngineType
<1>3. CASE ~helper.cancel /\ ~worker.success
  <2>1. FailedAttempt(helper)
    BY <1>3 DEF RecoveryValidationCompleted
  <2> QED BY <1>1, <2>1, FailedAttemptTypes DEF EngineType
<1>4. CASE ~helper.cancel /\ worker.success
  <2> DEFINE g == ClearRecoveryState(helper)
  <2>1. worker' = Idle /\ files' \in Files
        /\ (helper' = NotRunning \/ helper' = [g EXCEPT !.mode = "Waiting", !.kept = FALSE])
    BY <1>4, <1>1 DEF RecoveryValidationCompleted
  <2>2. IsHelper(g)
    BY <1>1, ClearTypes
  <2> HIDE DEF g
  <2>3. IsHelper([g EXCEPT !.mode = "Waiting", !.kept = FALSE])
    BY <2>2 DEF IsHelper, IsRecord, HelperTyped, HelperMembers, Modes
  <2> QED BY <1>1, <2>1, <2>3, FreshTypes, IdleType DEF EngineType, HandledType
<1> QED BY <1>2, <1>3, <1>4

LEMMA TimerTypes ==
    ASSUME RestoreShape, HandleTick \/ HandleDisplayEvent \/ CheckHeartbeat PROVE EngineType
<1>1. /\ desk' \in Layouts /\ UNCHANGED present /\ files' \in Files
      /\ IsHelper(helper) /\ IsWorker(worker) /\ helper.scheduler \in Scheduler
      /\ helper.heartbeat \in Heartbeat /\ 0 \in 0..RevertGrace
  BY EngineAssumption DEF HandleTick, HandleDisplayEvent, CheckHeartbeat, RestoreShape, IsHelper,
     HelperTyped, EngineAssumption
<1>2. CASE HandleTick
  <2>1. CASE helper' = [helper EXCEPT !.scheduler = ReportExpired(@)] /\ UNCHANGED worker
    <3> DEFINE s == ReportExpired(helper.scheduler)
    <3>1. s \in Scheduler /\ helper' = [helper EXCEPT !.scheduler = s]
      BY <1>1, <2>1, SchedulerTypes
    <3> HIDE DEF s
    <3>2. IsHelper(helper')
      BY <1>1, <3>1, HelperUpdates
    <3>3. worker' = worker
      BY <2>1
    <3> QED BY <1>1, <3>2, <3>3 DEF EngineType, HandledType
  <2>2. CASE StartRecovery(helper, 0)
    BY <1>1, <2>2, StartRecoveryTypes DEF EngineType, HandledType
  <2> QED BY <1>2, <2>1, <2>2 DEF HandleTick
<1>3. CASE HandleDisplayEvent
  <2> DEFINE s == OnDisplayEvent(helper.scheduler)
             g == [helper EXCEPT !.scheduler = s]
  <2>1. s \in Scheduler /\ StartRecovery(g, 0)
    BY <1>1, <1>3, SchedulerTypes DEF HandleDisplayEvent
  <2> HIDE DEF s
  <2>2. IsHelper(g)
    BY <1>1, <2>1, HelperUpdates
  <2> HIDE DEF g
  <2> QED BY <1>1, <2>1, <2>2, StartRecoveryTypes DEF EngineType, HandledType
<1>4. CASE CheckHeartbeat
  <2> DEFINE hb == CheckTimeout(helper.heartbeat)
  <2>1. hb \in Heartbeat /\ helper' = [helper EXCEPT !.heartbeat = hb] /\ UNCHANGED worker
    BY <1>1, <1>4, HeartbeatTypes DEF CheckHeartbeat
  <2> HIDE DEF hb
  <2> QED BY <1>1, <2>1, HelperUpdates DEF EngineType, HandledType
<1> QED BY <1>2, <1>3, <1>4

LEMMA LoseConnectionTypes == ASSUME RestoreShape, LoseConnection PROVE EngineType
<1> DEFINE q == IF FromClient(helper.queued) THEN Orphan ELSE helper.queued
           g == [helper EXCEPT !.connected = FALSE, !.heartbeat = HeartbeatOff, !.queued = q]
<1>1. /\ desk' \in Layouts /\ UNCHANGED present
      /\ (helper' = g /\ UNCHANGED <<files, worker>>) \/ HandleRevert(g, Revert(TRUE, FALSE, TRUE))
  BY DEF LoseConnection, RestoreShape
<1>2. q \in Commands
  BY CommandTypes DEF RestoreShape, IsHelper, HelperTyped
<1> HIDE DEF q
<1>3. IsHelper(g)
  BY <1>2, HeartbeatTypes DEF RestoreShape, IsHelper, IsRecord, HelperTyped, HelperMembers
<1> HIDE DEF g
<1>4. Revert(TRUE, FALSE, TRUE) \in Commands /\ Revert(TRUE, FALSE, TRUE).kind = "revert"
  BY CommandTypes DEF Revert
<1>5. CASE helper' = g /\ UNCHANGED <<files, worker>>
  BY <1>1, <1>3, <1>5 DEF EngineType, HandledType, RestoreShape
<1> QED BY <1>1, <1>3, <1>4, <1>5, HandleRevertTypes DEF EngineType

(* The worker's own steps.                                                                *)
LEMMA WorkerUpdates ==
    ASSUME NEW w, IsWorker(w)
    PROVE  /\ \A success \in BOOLEAN : IsWorker([w EXCEPT !.pc = "done", !.success = success])
           /\ \A success \in BOOLEAN : IsWorker([w EXCEPT !.pc = "validated", !.success = success])
           /\ \A tier \in Tiers : IsWorker([w EXCEPT !.pc = "load", !.tier = tier, !.attempt = 1,
                                                     !.loaded = NoSnapshot])
           /\ IsWorker([w EXCEPT !.golden_tried = TRUE])
           /\ w.pc \in Trying => /\ IsWorker([w EXCEPT !.pc = "confirmed"])
                                 /\ IsWorker([w EXCEPT !.pc = "verify"])
                                 /\ IsWorker([w EXCEPT !.pc = "attempt", !.attempt = 2])
           /\ \A grace \in 0..RevertGrace : IsWorker([w EXCEPT !.grace = grace])
           /\ IsWorker([w EXCEPT !.pc = "unstarted", !.grace = 0])
<1>1. 0 \in 0..RevertGrace /\ NoSnapshot \in Snapshots
  BY EngineAssumption DEF EngineAssumption, NoSnapshot, Snapshots
<1> QED BY ZenonT(60), <1>1 DEF IsWorker, IsRecord, WorkerTyped, WorkerMembers, PCs, Trying

LEMMA NextTierType == ASSUME IsWorker(worker) PROVE IsWorker(NextTier)
<1>1. "golden" \in Tiers /\ "previous" \in Tiers /\ "current" \in Tiers
  BY DEF Tiers
<1>2. \A tier \in Tiers : IsWorker(Try(tier))
  BY WorkerUpdates DEF Try
<1>3. IsWorker([Try("golden") EXCEPT !.golden_tried = TRUE])
  BY <1>1, <1>2, WorkerUpdates
<1>4. IsWorker(Finish(FALSE))
  BY WorkerUpdates DEF Finish
<1> QED BY <1>1, <1>2, <1>3, <1>4 DEF NextTier

LEMMA AbandonTypes == ASSUME RestoreShape, Abandon PROVE HandledType /\ UNCHANGED <<desk, present>>
  BY WorkerUpdates, HelperUpdates DEF Abandon, RecoveryStep, Finish, HandledType, RestoreShape

LEMMA GiveUpTierTypes == ASSUME RestoreShape, GiveUpTier PROVE HandledType /\ UNCHANGED <<desk, present>>
<1>1. worker' = NextTier /\ files' = files /\ UNCHANGED <<desk, present>>
  BY DEF GiveUpTier, RecoveryStep
<1>2. helper' = [helper EXCEPT !.fallbacks = 0] \/ helper' = [helper EXCEPT !.fallbacks = @]
  BY DEF GiveUpTier
<1>3. IsHelper(helper')
  <2>1. [helper EXCEPT !.fallbacks = @] = helper
    BY DEF RestoreShape, IsHelper, IsRecord, HelperMembers
  <2> QED BY <1>2, <2>1, HelperUpdates DEF RestoreShape
<1> QED BY <1>1, <1>3, NextTierType DEF HandledType, RestoreShape

LEMMA WorkerStepTypes == ASSUME RestoreShape, WorkerStep PROVE EngineType
<1>1. /\ desk \in Layouts /\ IsHelper(helper) /\ IsWorker(worker) /\ files \in Files
      /\ worker.tier \in Tiers /\ helper.golden_first \in BOOLEAN /\ worker.loaded \in Snapshots
  BY DEF RestoreShape, IsHelper, HelperTyped, IsWorker, WorkerTyped
<1>2. CASE GraceEnds
  <2>1. CASE helper.cancel
    <3>1. worker' = [worker EXCEPT !.pc = "unstarted", !.grace = 0] /\ UNCHANGED <<desk, present, files, helper>>
      BY <1>2, <2>1 DEF GraceEnds, RecoveryStep
    <3> QED BY <1>1, <3>1, WorkerUpdates DEF EngineType, HandledType
  <2>2. CASE ~helper.cancel
    <3> DEFINE tier == IF helper.golden_first THEN "golden" ELSE "current"
               count == IF helper.golden_first THEN helper.fallbacks ELSE 0
    <3>1. /\ worker' = [worker EXCEPT !.pc = "load", !.golden_first = helper.golden_first, !.tier = tier]
          /\ helper' = [helper EXCEPT !.attempted = TRUE, !.fallbacks = count]
          /\ UNCHANGED <<desk, present, files>>
      BY <1>2, <2>2 DEF GraceEnds, RecoveryStep
    <3>2. tier \in Tiers
      BY DEF Tiers
    <3>3. count \in 0..(kGoldenFallbackCompletionThreshold - 1)
      BY <1>1 DEF IsHelper, HelperTyped, kGoldenFallbackCompletionThreshold
    <3> HIDE DEF tier, count
    <3>4. IsWorker(worker')
      BY <1>1, <3>1, <3>2 DEF IsWorker, IsRecord, WorkerTyped, WorkerMembers, PCs, Trying
    <3>5. IsHelper(helper')
      BY <1>1, <3>1, <3>3 DEF IsHelper, IsRecord, HelperTyped, HelperMembers
    <3> QED BY <1>1, <3>1, <3>4, <3>5 DEF EngineType, HandledType
  <2> QED BY <2>1, <2>2
<1>3. CASE LoadTier
  <2>1. CASE Abandon
    BY <1>1, <2>1, AbandonTypes DEF EngineType
  <2>2. CASE GiveUpTier
    BY <1>1, <2>2, GiveUpTierTypes DEF EngineType
  <2>3. CASE ~Abandon /\ ~GiveUpTier
    <3> DEFINE tried == worker.current_tried \/ worker.tier = "current"
    <3>1. /\ worker' = [worker EXCEPT !.pc = "attempt", !.loaded = files[worker.tier],
                                      !.current_tried = tried]
          /\ UNCHANGED <<desk, present, files, helper>> /\ Loadable(worker.tier)
      BY <1>3, <2>3 DEF LoadTier, RecoveryStep
    <3>2. files[worker.tier] \in Snapshots /\ files[worker.tier] # NoSnapshot
      BY <1>1, <3>1 DEF Files, Loadable, LoadFiltered, FilterLoaded
    <3>3. tried \in BOOLEAN
      BY DEF IsWorker, WorkerTyped
    <3> HIDE DEF tried
    <3>4. IsWorker(worker')
      BY <1>1, <3>1, <3>2, <3>3 DEF IsWorker, IsRecord, WorkerTyped, WorkerMembers, PCs, Trying
    <3> QED BY <1>1, <3>1, <3>4 DEF EngineType, HandledType
  <2> QED BY <2>1, <2>2, <2>3
<1>4. CASE AttemptTier
  <2>1. CASE Abandon /\ UNCHANGED desk
    BY <1>1, <2>1, AbandonTypes DEF EngineType
  <2>2. CASE desk = worker.loaded /\ ~(Abandon /\ UNCHANGED desk)
    <3>1. worker' = [worker EXCEPT !.pc = "confirmed"] /\ UNCHANGED <<desk, present, files, helper>>
          /\ worker.pc \in Trying
      BY <1>4, <2>2 DEF AttemptTier, RecoveryStep, Trying
    <3> QED BY <1>1, <3>1, WorkerUpdates DEF EngineType, HandledType
  <2>3. CASE desk # worker.loaded /\ ~(Abandon /\ UNCHANGED desk)
    <3>1. worker' = [worker EXCEPT !.pc = "verify"] /\ UNCHANGED <<present, files, helper>>
          /\ worker.pc \in Trying /\ desk' \in {desk, worker.loaded}
      BY <1>4, <2>3 DEF AttemptTier, Trying
    <3>2. worker.loaded # {}
      BY <1>1, <3>1 DEF IsWorker, WorkerTyped, NoSnapshot
    <3>3. desk' \in Layouts
      BY <1>1, <3>1, <3>2, SnapshotIsLayout
    <3> QED BY <1>1, <3>1, <3>3, WorkerUpdates DEF EngineType, HandledType
  <2> QED BY <2>1, <2>2, <2>3
<1>5. CASE VerifyTier
  <2>1. CASE Abandon
    BY <1>1, <2>1, AbandonTypes DEF EngineType
  <2>2. CASE GiveUpTier
    BY <1>1, <2>2, GiveUpTierTypes DEF EngineType
  <2>3. CASE ~Abandon /\ ~GiveUpTier
    <3>1. /\ worker.pc \in Trying /\ UNCHANGED <<desk, present, files, helper>>
          /\ \/ worker' = [worker EXCEPT !.pc = "confirmed"]
             \/ worker' = [worker EXCEPT !.pc = "attempt", !.attempt = 2]
      BY <1>5, <2>3 DEF VerifyTier, RecoveryStep, Trying
    <3> QED BY <1>1, <3>1, WorkerUpdates DEF EngineType, HandledType
  <2> QED BY <2>1, <2>2, <2>3
<1>6. CASE SettleConfirmed
  <2>1. CASE Abandon
    BY <1>1, <2>1, AbandonTypes DEF EngineType
  <2>2. CASE ~Abandon
    <3>1. PICK copied, removed, removed_previous \in BOOLEAN :
             /\ files' = FilesAfter(worker.tier, copied, removed, removed_previous)
             /\ Conclude(files')
      BY <1>6, <2>2 DEF SettleConfirmed
    <3>2. files' \in Files
      BY <1>1, <3>1, FilesAfterType
    <3> DEFINE pending == GoldenStillPending(files')
                          /\ helper.fallbacks + 1 < kGoldenFallbackCompletionThreshold
               count == IF pending THEN helper.fallbacks + 1 ELSE 0
               guard == IF worker.tier = "golden" THEN helper.guard ELSE GuardWindow
    <3>3. /\ helper' = [helper EXCEPT !.fallbacks = count, !.guard = guard]
          /\ worker' = Finish(~pending) /\ UNCHANGED <<desk, present>>
      BY <3>1 DEF Conclude, RecoveryStep
    <3>4. count \in 0..(kGoldenFallbackCompletionThreshold - 1)
      BY <1>1 DEF IsHelper, HelperTyped, kGoldenFallbackCompletionThreshold
    <3>5. GuardWindow \in Nat
      BY EngineAssumption DEF EngineAssumption
    <3>5a. guard \in 0..GuardWindow
      BY <1>1, <3>5 DEF IsHelper, HelperTyped
    <3>6. worker' = Finish(TRUE) \/ worker' = Finish(FALSE)
      <4>1. CASE pending
        BY <3>3, <4>1
      <4>2. CASE ~pending
        BY <3>3, <4>2
      <4> QED BY <4>1, <4>2
    <3> HIDE DEF pending, count, guard
    <3>7. IsHelper(helper')
      BY <1>1, <3>3, <3>4, <3>5a DEF IsHelper, IsRecord, HelperTyped, HelperMembers
    <3>8. IsWorker(worker')
      BY <1>1, <3>3, <3>6, WorkerUpdates DEF Finish
    <3> QED BY <1>1, <3>2, <3>3, <3>7, <3>8 DEF EngineType, HandledType
  <2> QED BY <2>1, <2>2
<1>7. CASE ValidateRecovery
  <2> DEFINE success == ~helper.cancel /\ desk = worker.loaded
  <2>1. worker' = [worker EXCEPT !.pc = "validated", !.success = success]
        /\ UNCHANGED <<desk, present, files, helper>>
    BY <1>7 DEF ValidateRecovery, RecoveryStep
  <2>2. success \in BOOLEAN
    OBVIOUS
  <2> HIDE DEF success
  <2> QED BY <1>1, <2>1, <2>2, WorkerUpdates DEF EngineType, HandledType
<1> QED BY <1>2, <1>3, <1>4, <1>5, <1>6, <1>7 DEF WorkerStep

--------------------------------------------------------------------------------
(* The host and the machine.                                                              *)

LEMMA HostUpdates ==
    ASSUME HostTyped
    PROVE  \A pc \in {"idle", "snapshot", "apply", "streaming", "down"}, expected \in BOOLEAN,
              since \in 0..TerminateWindow :
              /\ host' = [host EXCEPT !.pc = pc] => HostTyped'
              /\ host' = [host EXCEPT !.pc = pc, !.expected = expected] => HostTyped'
              /\ host' = [host EXCEPT !.pc = pc, !.expected = expected, !.tried = TRUE] => HostTyped'
              /\ host' = [host EXCEPT !.pc = pc, !.expected = expected, !.since = since] => HostTyped'
              /\ host' = [host EXCEPT !.since = since] => HostTyped'
  BY DEF HostTyped, IsRecord, HostMembers

LEMMA DisarmingTypes ==
    ASSUME RestoreShape, NEW next \in {"snapshot", "streaming"}, Disarming(next)
    PROVE  HandledType /\ HostTyped'
<1>1. IsHelper(helper) /\ IsWorker(worker) /\ files \in Files /\ HostTyped /\ host.expected \in BOOLEAN
  BY DEF RestoreShape, HostTyped
<1>2. CASE HandleDisarm(helper) /\ host' = [host EXCEPT !.pc = next, !.expected = FALSE, !.tried = TRUE]
  BY <1>1, <1>2, HandleDisarmTypes, HostUpdates,
     HostAssumption DEF HostAssumption, HostTyped, IsRecord, HostMembers
<1>3. CASE /\ helper' = (IF host.since < TerminateWindow THEN NotRunning ELSE helper)
           /\ worker' = (IF host.since < TerminateWindow THEN Idle ELSE worker)
           /\ host' = [host EXCEPT !.pc = next, !.expected = @ /\ host.since >= TerminateWindow,
                                   !.tried = TRUE]
           /\ UNCHANGED files
  <2>1. HandledType
    BY <1>1, <1>3, FreshTypes, IdleType DEF HandledType
  <2> DEFINE expected == host.expected /\ host.since >= TerminateWindow
  <2>2. expected \in BOOLEAN /\ host' = [host EXCEPT !.pc = next, !.expected = expected, !.tried = TRUE]
    BY <1>1, <1>3
  <2> HIDE DEF expected
  <2> QED BY <1>1, <2>1, <2>2 DEF HostTyped, IsRecord, HostMembers
<1>4. CASE /\ host' \in {[host EXCEPT !.pc = next], [host EXCEPT !.pc = next, !.expected = FALSE]}
           /\ UNCHANGED <<files, helper, worker>>
  BY <1>1, <1>4 DEF HandledType, HostTyped, IsRecord, HostMembers
<1> QED BY <1>2, <1>3, <1>4 DEF Disarming

LEMMA SnapshotCurrentTypes ==
    ASSUME RestoreShape, SnapshotCurrentDisplayState PROVE HandledType /\ HostTyped'
<1>1. IsHelper(helper) /\ IsWorker(worker) /\ files \in Files /\ HostTyped
  BY DEF RestoreShape
<1>2. HandledType
  <2>1. CASE HandleSnapshotCurrent(Started)
    BY <1>1, <2>1, StartedType, SnapshotTypes
  <2>2. CASE helper' \in {Started, helper} /\ UNCHANGED <<files, worker>>
    BY <1>1, <2>2, StartedType DEF HandledType
  <2> QED BY <2>1, <2>2 DEF SnapshotCurrentDisplayState
<1> DEFINE expected == RestoreExpected
<1>3. expected \in BOOLEAN /\ host' = [host EXCEPT !.pc = "apply", !.expected = expected]
  BY <1>1 DEF RestoreExpected, HostTyped, SnapshotCurrentDisplayState
<1> HIDE DEF expected
<1> QED BY <1>1, <1>2, <1>3 DEF HostTyped, IsRecord, HostMembers

LEMMA ApplyInternalTypes == ASSUME RestoreShape, ApplyInternal PROVE HandledType /\ HostTyped'
<1>1. IsHelper(helper) /\ IsWorker(worker) /\ files \in Files /\ HostTyped
      /\ ApplyCommand \in Commands /\ ApplyCommand.kind = "apply" /\ ApplyCommand.golden_first \in BOOLEAN
  BY CommandTypes DEF RestoreShape, HostTyped, ApplyCommand, Apply
<1>2. HandledType
  <2> DEFINE command == ApplyCommand
  <2>0. command \in Commands /\ command.kind = "apply" /\ command.golden_first \in BOOLEAN
        /\ IsHelper(Started) /\ IsHelper(Restarted)
    BY <1>1, StartedType, FreshTypes
  <2>1. CASE HandleApply(Started, ApplyCommand)
    <3>1. HandleApply(Started, command)
      BY <2>1
    <3> HIDE DEF command
    <3> QED BY <2>0, <3>1, HandleApplyTypes
  <2>2. CASE BeginApply(Restarted, ApplyCommand)
    <3>1. BeginApply(Restarted, command)
      BY <2>2
    <3> HIDE DEF command
    <3> QED BY <2>0, <3>1, BeginApplyTypes
  <2>3. CASE ((helper' = Started /\ UNCHANGED worker) \/ (helper' = Restarted /\ worker' = Idle)) /\ UNCHANGED files
    BY <1>1, <2>3, StartedType, FreshTypes, IdleType DEF HandledType
  <2> HIDE DEF command
  <2>4. \/ HandleApply(Started, ApplyCommand) \/ BeginApply(Restarted, ApplyCommand)
        \/ ((helper' = Started /\ UNCHANGED worker) \/ (helper' = Restarted /\ worker' = Idle)) /\ UNCHANGED files
    BY DEF ApplyInternal
  <2> QED BY <2>1, <2>2, <2>3, <2>4
<1> DEFINE expected == RestoreExpected
<1>3. expected \in BOOLEAN /\ \/ host' = [host EXCEPT !.pc = "streaming", !.expected = expected]
                              \/ host' = [host EXCEPT !.pc = "streaming", !.expected = FALSE]
  BY <1>1 DEF RestoreExpected, HostTyped, ApplyInternal
<1> HIDE DEF expected
<1> QED BY <1>1, <1>2, <1>3 DEF HostTyped, IsRecord, HostMembers

LEMMA HostStepTypes ==
    ASSUME RestoreShape,
           \/ BeginLaunch \/ Join \/ SnapshotCurrentDisplayState \/ HostRequest \/ Ping \/ Reconnect
    PROVE  HandledType /\ HostTyped' /\ UNCHANGED <<desk, present>>
<1>1. IsHelper(helper) /\ IsWorker(worker) /\ files \in Files /\ HostTyped
  BY DEF RestoreShape
<1>2. CASE BeginLaunch \/ Join
  BY <1>2, DisarmingTypes DEF BeginLaunch, Join
<1>3. CASE SnapshotCurrentDisplayState
  BY <1>3, SnapshotCurrentTypes DEF SnapshotCurrentDisplayState
<1>4. CASE ApplyInternal
  BY <1>4, ApplyInternalTypes DEF ApplyInternal
<1>5. CASE RevertRequest
  <2> DEFINE command == Revert(TRUE, host.golden_first, FALSE)
  <2>1. command \in Commands /\ command.kind = "revert"
    BY <1>1, CommandTypes DEF HostTyped, Revert
  <2>2. /\ HandleRevert(Started, command) /\ UNCHANGED <<desk, present>>
        /\ host' = [host EXCEPT !.pc = "idle", !.expected = TRUE, !.since = 0]
    BY <1>5 DEF RevertRequest
  <2> HIDE DEF command
  <2>3. HandledType
    BY <1>1, <2>1, <2>2, StartedType, HandleRevertTypes
  <2>4. 0 \in 0..TerminateWindow
    BY HostAssumption DEF HostAssumption
  <2> QED BY <1>1, <2>2, <2>3, <2>4 DEF HostTyped, IsRecord, HostMembers
<1>6. CASE ExportGolden
  BY <1>1, <1>6, StartedType, SnapshotTypes DEF ExportGolden, HostTyped
<1>7. CASE Ping
  <2> DEFINE hb == RecordPing(helper.heartbeat)
  <2>1. hb \in Heartbeat /\ helper' = [helper EXCEPT !.heartbeat = hb]
        /\ UNCHANGED <<files, desk, present, worker, host>>
    BY <1>1, <1>7, HeartbeatTypes DEF Ping, Pinged, IsHelper, HelperTyped
  <2> HIDE DEF hb
  <2>2. IsHelper(helper')
    BY <1>1, <2>1, HelperUpdates
  <2> QED BY <1>1, <2>1, <2>2 DEF HandledType, HostTyped
<1>8. CASE Reconnect
  BY <1>1, <1>8, StartedType DEF Reconnect, HandledType, HostTyped
<1> QED BY <1>2, <1>3, <1>4, <1>5, <1>6, <1>7, <1>8 DEF HostRequest

LEMMA MachineTypes ==
    ASSUME RestoreShape, MachineStep \/ Fault PROVE RestoreShape'
<1>1. IsHelper(helper) /\ IsWorker(worker) /\ files \in Files /\ HostTyped /\ desk \in Layouts
      /\ present \in SUBSET Displays /\ present # {} /\ present \in Snapshots
  BY DEF RestoreShape, Snapshots
<1>2. CASE HostDies \/ HostStarts
  <2>1. UNCHANGED engineVars /\ \/ host' = [host EXCEPT !.pc = "idle"]
                                \/ host' = [host EXCEPT !.pc = "down", !.expected = FALSE,
                                                        !.since = TerminateWindow, !.tried = FALSE]
    BY <1>2 DEF HostDies, HostStarts
  <2>2. TerminateWindow \in 0..TerminateWindow
    BY HostAssumption DEF HostAssumption
  <2>3. HostTyped'
    BY <1>1, <2>1, <2>2 DEF HostTyped, IsRecord, HostMembers
  <2> QED BY <1>1, <2>1, <2>3 DEF RestoreShape, engineVars
<1>3. CASE HelperDies
  BY <1>1, <1>3, FreshTypes, IdleType DEF HelperDies, RestoreShape, HostTyped
<1>4. CASE Unplug
  <2>1. PICK d \in Removable \cap present :
            /\ present' = present \ {d}
            /\ desk' = IF desk \ {d} = {} THEN present' ELSE desk \ {d}
    BY <1>4 DEF Unplug
  <2>2. present' \in SUBSET Displays /\ present' # {} /\ present' \in Snapshots
    BY <1>1, <1>4, <2>1 DEF Unplug, Snapshots
  <2>3. desk' \in Layouts
    <3>1. present' \in Layouts
      BY <2>2, SnapshotIsLayout
    <3>2. desk \ {d} # {} => desk \ {d} \in Layouts
      BY <1>1 DEF Layouts
    <3> QED BY <2>1, <3>1, <3>2
  <2> QED BY <1>1, <1>4, <2>2, <2>3 DEF Unplug, RestoreShape, HostTyped
<1>5. CASE Plug
  BY <1>1, <1>5 DEF Plug, RestoreShape, HostTyped
<1>6. CASE Arrange
  <2>1. desk' \in Snapshots /\ desk' # {}
    BY <1>6, HostAssumption DEF Arrange, HostAssumption, Snapshots
  <2> QED BY <1>1, <1>6, <2>1, SnapshotIsLayout DEF Arrange, RestoreShape, HostTyped
<1> QED BY <1>2, <1>3, <1>4, <1>5, <1>6 DEF MachineStep, Fault

LEMMA TickTypes == ASSUME RestoreShape, Tick PROVE RestoreShape'
<1>1. IsHelper(helper) /\ IsWorker(worker) /\ HostTyped
  BY DEF RestoreShape
<1> DEFINE s == ElapseScheduler(helper.scheduler)
           hb == ElapseHeartbeat(helper.heartbeat)
           guard == IF helper.guard = 0 THEN 0 ELSE helper.guard - 1
           grace == IF worker.grace = 0 THEN 0 ELSE worker.grace - 1
           since == IF host.since = TerminateWindow THEN host.since ELSE host.since + 1
<1>2. s \in Scheduler /\ hb \in Heartbeat
  BY <1>1, SchedulerTypes, HeartbeatTypes DEF IsHelper, HelperTyped
<1>3. guard \in 0..GuardWindow /\ grace \in 0..RevertGrace
  BY <1>1, EngineAssumption DEF IsHelper, HelperTyped, IsWorker, WorkerTyped, EngineAssumption
<1>4. since \in 0..TerminateWindow
  BY <1>1, HostAssumption DEF HostTyped, HostAssumption
<1>5. /\ helper' = [helper EXCEPT !.scheduler = s, !.heartbeat = hb, !.guard = guard]
      /\ worker' = [worker EXCEPT !.grace = grace] /\ host' = [host EXCEPT !.since = since, !.tried = FALSE]
      /\ UNCHANGED <<files, desk, present>>
  BY DEF Tick
<1> HIDE DEF s, hb, guard, grace, since
<1>6. IsHelper(helper')
  BY <1>1, <1>2, <1>3, <1>5 DEF IsHelper, IsRecord, HelperTyped, HelperMembers
<1>7. IsWorker(worker')
  BY <1>1, <1>3, <1>5, WorkerUpdates
<1>8. HostTyped'
  BY <1>1, <1>4, <1>5 DEF HostTyped, IsRecord, HostMembers
<1> QED BY <1>5, <1>6, <1>7, <1>8 DEF RestoreShape

--------------------------------------------------------------------------------
LEMMA ShapeInit == ASSUME Init PROVE RestoreShape
<1>1. files \in Files
  BY HostAssumption DEF Init, Files, Snapshots, NoSnapshot, HostAssumption
<1>2. desk \in Snapshots /\ desk # {} /\ present = Displays
  BY HostAssumption DEF Init, Snapshots, HostAssumption
<1>3. desk \in Layouts /\ present \in SUBSET Displays /\ present # {}
  BY <1>2, SnapshotIsLayout DEF Snapshots
<1>4. IsHelper(helper) /\ IsWorker(worker)
  BY FreshTypes, IdleType DEF Init
<1>5. HostTyped
  <2>1. TerminateWindow \in 0..TerminateWindow
    BY HostAssumption DEF HostAssumption
  <2>2. host = [m \in HostMembers |-> host[m]]
    BY DEF Init, HostMembers
  <2>3. /\ host.pc = "idle" /\ host.expected = FALSE /\ host.tried = FALSE
        /\ host.since = TerminateWindow /\ host.golden_first \in BOOLEAN
    BY DEF Init
  <2> QED BY <2>1, <2>2, <2>3 DEF HostTyped, IsRecord
<1> QED BY <1>1, <1>3, <1>4, <1>5 DEF RestoreShape

LEMMA ShapeStep == ASSUME RestoreShape, [Next]_vars PROVE RestoreShape'
<1>1. CASE UNCHANGED vars
  BY <1>1 DEF vars, RestoreShape, HostTyped
<1>2. CASE BeginLaunch \/ Join \/ SnapshotCurrentDisplayState \/ HostRequest \/ Ping \/ Reconnect
  BY <1>2, HostStepTypes DEF HandledType, RestoreShape
<1>3. ASSUME EngineType, UNCHANGED host PROVE RestoreShape'
  BY <1>3 DEF EngineType, HandledType, RestoreShape, HostTyped
<1>4. CASE SeeDisplayEvent \/ Supervise \/ Poll
  BY <1>3, <1>4, TimerTypes DEF SeeDisplayEvent, Supervise, Poll
<1>5. CASE ConnectionBreaks
  BY <1>3, <1>5, LoseConnectionTypes DEF ConnectionBreaks
<1>6. CASE HelperActs
  BY <1>3, <1>6, ApplyCompletedTypes, RecoveryCompletedTypes, RecoveryValidationCompletedTypes
     DEF HelperActs, HelperStep
<1>7. CASE WorkerActs
  BY <1>3, <1>7, WorkerStepTypes DEF WorkerActs
<1> QED BY <1>1, <1>2, <1>4, <1>5, <1>6, <1>7, MachineTypes, TickTypes DEF Next

LEMMA ShapeHolds == Spec => []RestoreShape
<1>1. Init => RestoreShape
  BY ShapeInit
<1>2. RestoreShape /\ [Next]_vars => RestoreShape'
  BY ShapeStep
<1> QED BY <1>1, <1>2, PTL DEF Spec

(* Files, desktop, helper, worker and host keep their types whatever commands, failures,  *)
(* crashes and unplugged monitors come: a counted fallback never reaches the threshold, no *)
(* backoff index leaves the profile, and no step lights an empty desktop.                 *)
THEOREM RestoreIsTyped == Spec => []TypeOK
<1>1. ASSUME RestoreShape PROVE TypeOK
  <2>1. host \in HostStates
    BY <1>1 DEF RestoreShape, HostTyped, HostStates, IsRecord, HostMembers
  <2> QED BY <1>1, <2>1 DEF RestoreShape, TypeOK, IsHelper, HelperTyped, IsWorker, WorkerTyped, Modes
<1> QED BY <1>1, ShapeHolds, PTL

--------------------------------------------------------------------------------
(* A worker belongs to the mode its command was started in.                               *)
WorkerInMode ==
    /\ worker.pc = "apply" => helper.mode = "Applying"
    /\ worker.pc \notin {"none", "apply"} => helper.mode \in {"Recovery", "Validation"}

(* What is tried is still in its file.                                                    *)
LoadedIsKept == worker.pc \in Trying => files[worker.tier] = worker.loaded

(* A command waits exactly while the worker it has cancelled is still there.              *)
QueueCancels ==
    /\ helper.cancel => helper.queued # NoCommand /\ worker.pc # "none"
    /\ helper.queued # NoCommand => helper.cancel

(* An APPLY waits only for the connection it came over and while the host streams, or is  *)
(* dead without the helper knowing.                                                       *)
ApplyIsCurrent ==
    helper.queued.kind = "apply" => helper.connected /\ host.pc \in {"streaming", "down"}

(* The restores thrown away are the ones the helper counts, unless the attempt that is     *)
(* under way cannot be thrown away.                                                       *)
WastedCounted ==
    /\ history.wasted \in Nat /\ history.wasted < kGoldenFallbackCompletionThreshold
    /\ ~RestorePending(helper) => history.wasted = 0
    /\ \/ history.wasted <= helper.fallbacks
       \/ worker.pc \in {"load"} \cup Trying /\ worker.golden_first = FALSE

(* The silence the heartbeat has measured was silence.                                    *)
HeardCounted ==
    /\ history.heard \in Nat
    /\ helper.connected /\ helper.heartbeat.armed =>
          /\ helper.heartbeat.deadline = Unset => helper.heartbeat.silent <= history.heard
          /\ helper.heartbeat.deadline # Unset =>
                MissWindow + RecoveryWindow <= history.heard + helper.heartbeat.deadline

(* The backoff index is past the failures in a row, the pause it asks for is over or still *)
(* to be waited for, and the window counts from the last prompt.                          *)
Paced(failed, rested, prompted, mode, s) ==
    /\ failed \in Nat /\ rested \in Nat /\ prompted \in Nat
    /\ mode # "EventLoop" => rested = 0
    /\ s.armed =>
          /\ Most(failed + 1, Len(BackoffProfile)) <= s.index
          /\ mode = "EventLoop" => BackoffProfile[s.index] <= rested + s.wait
          /\ s.window # Expired => prompted + s.window <= PrimaryWindow
PausesCounted ==
    Paced(history.failed, history.rested, history.prompted, helper.mode, helper.scheduler)

(* Before the host captures again, the restore that is owed is pending or given up; once   *)
(* confirmed it is no longer owed.                                                        *)
BaselineSafe ==
    /\ BaselineKept
    /\ worker.pc = "confirmed" => history.baseline = NoSnapshot
    /\ host.pc = "snapshot" /\ history.baseline # NoSnapshot /\ ~history.released => RestorePending(helper)

Discipline == WorkerInMode /\ LoadedIsKept /\ QueueCancels /\ ApplyIsCurrent
RestoreInv ==
    /\ RestoreShape /\ Discipline
    /\ WastedCounted /\ HeardCounted /\ PausesCounted /\ BaselineSafe

--------------------------------------------------------------------------------
(* What a command handler may make of the helper h it finds.                              *)

QueueOf(h) == /\ h.cancel => h.queued # NoCommand /\ worker.pc # "none"
              /\ h.queued # NoCommand => h.cancel

(* The worker has come to an end that a completion reports.                                *)
Completed == {"apply", "unstarted", "done", "validated"}
WorkerGone == worker.pc \in {"none"} \cup Completed
WorkerKept == worker' = worker \/ (worker.pc \in Completed /\ worker' = Idle)

(* Nothing, but for the queue and the timer of the restore.                               *)
Stays(h) ==
    /\ helper'.mode = h.mode /\ helper'.fallbacks = h.fallbacks /\ helper'.connected = h.connected
    /\ helper'.heartbeat = h.heartbeat /\ helper'.scheduler \in {h.scheduler, Disarmed}
    /\ WorkerKept /\ files' = files
(* The restore is given up or over.                                                       *)
Rests(h) ==
    /\ helper'.mode \in {"Waiting", "Exited"} /\ (helper'.connected => h.connected)
    /\ helper'.heartbeat \in {h.heartbeat, HeartbeatOff}
    /\ helper'.scheduler \in {h.scheduler, Disarmed}
    /\ worker'.pc = "none" /\ files' = files
(* An APPLY begins.                                                                       *)
Captured == \E l \in Snapshots \ {NoSnapshot} : files' = [files EXCEPT !["current"] = l]
Lends(h) ==
    /\ helper'.mode = "Applying" /\ helper'.connected = h.connected
    /\ helper'.heartbeat = ArmHeartbeat /\ helper'.scheduler = Disarmed
    /\ worker'.pc = "apply"
    /\ files' = files \/ (files["current"] = NoSnapshot /\ Captured)
(* A restore begins.                                                                      *)
Owes(h) ==
    /\ helper'.mode = "Recovery" /\ helper'.connected = h.connected
    /\ helper'.fallbacks = h.fallbacks
    /\ helper'.heartbeat = HeartbeatOff /\ helper'.scheduler = ArmPrimary(h.scheduler, RevertGrace)
    /\ WorkerGone /\ worker'.pc = "grace" /\ files' = files /\ SomeTierExists(files)

LEMMA QueueBehindWorkerOutcome ==
    ASSUME NEW h, IsHelper(h), NEW command, command # NoCommand, worker.pc # "none",
           QueueBehindWorker(h, command)
    PROVE  Stays(h) /\ QueueCancels' /\ helper'.queued = command
  BY DEF QueueBehindWorker, Stays, WorkerKept, QueueCancels, IsHelper, IsRecord, HelperMembers

LEMMA BeginApplyOutcome ==
    ASSUME RestoreShape, NEW h, IsHelper(h), NEW command, h.queued = NoCommand, BeginApply(h, command)
    PROVE  Lends(h) /\ QueueCancels' /\ helper'.queued = NoCommand
<1> DEFINE g == ResetRequestProgress(h)
<1>1. IsHelper(g) /\ g.queued = NoCommand /\ g.connected = h.connected
  BY ClearTypes DEF IsHelper, IsRecord, HelperMembers, ResetRequestProgress
<1>2. helper' = [g EXCEPT !.mode = "Applying", !.cancel = FALSE, !.scheduler = Disarmed,
                          !.heartbeat = ArmHeartbeat, !.golden_first = command.golden_first]
  BY DEF BeginApply, Disarm
<1> HIDE DEF g
<1>3. /\ helper'.mode = "Applying" /\ helper'.connected = h.connected /\ helper'.heartbeat = ArmHeartbeat
      /\ helper'.scheduler = Disarmed /\ helper'.queued = NoCommand /\ helper'.cancel = FALSE
  BY <1>1, <1>2 DEF IsHelper, IsRecord, HelperMembers
<1>4. worker'.pc = "apply"
  BY DEF BeginApply, Idle
<1>5. files' = files \/ (files["current"] = NoSnapshot /\ Captured)
  <2>1. CASE Exists(files, "current")
    BY <2>1 DEF BeginApply
  <2>2. CASE ~Exists(files, "current")
    <3> DEFINE s == FilterForSave(desk', present)
    <3>1. PICK ok \in BOOLEAN : files' = CaptureAndSave(files, "current", desk', present, ok)
      BY <2>2 DEF BeginApply
    <3>2. s \in Snapshots
      BY FilterForSaveType DEF RestoreShape
    <3>3. files' = files \/ (s # {} /\ files' = [files EXCEPT !["current"] = s])
      BY <3>1 DEF CaptureAndSave, Save
    <3> HIDE DEF s
    <3> QED BY <2>2, <3>2, <3>3 DEF Captured, Exists, NoSnapshot
  <2> QED BY <2>1, <2>2
<1> QED BY <1>3, <1>4, <1>5 DEF Lends, QueueCancels

LEMMA BeginRevertOutcome ==
    ASSUME NEW h, IsHelper(h), NEW command, h.queued = NoCommand, WorkerGone, BeginRevert(h, command)
    PROVE  (Owes(h) \/ Rests(h)) /\ QueueCancels' /\ helper'.queued = NoCommand
<1>1. CASE SomeTierExists(files)
  <2> DEFINE first == IF command.from_disconnect THEN h.golden_first ELSE command.golden_first
             armed == ArmPrimary(h.scheduler, RevertGrace)
  <2>1. /\ helper' = [[h EXCEPT !.prefer = command.prefer, !.golden_first = first, !.armed = TRUE,
                                !.heartbeat = HeartbeatOff, !.scheduler = armed]
                         EXCEPT !.mode = "Recovery", !.cancel = FALSE]
        /\ worker'.pc = "grace" /\ files' = files
    BY <1>1 DEF BeginRevert, StartRecovery, Idle
  <2> HIDE DEF first, armed
  <2>2. /\ helper'.mode = "Recovery" /\ helper'.connected = h.connected /\ helper'.fallbacks = h.fallbacks
        /\ helper'.heartbeat = HeartbeatOff /\ helper'.scheduler = armed
        /\ helper'.queued = NoCommand /\ helper'.cancel = FALSE
    BY <2>1 DEF IsHelper, IsRecord, HelperMembers
  <2> QED BY <1>1, <2>1, <2>2 DEF Owes, QueueCancels, armed
<1>2. CASE ~SomeTierExists(files)
  BY <1>2 DEF BeginRevert, Rests, QueueCancels, NotRunning, Fresh, Idle
<1> QED BY <1>1, <1>2

(* AfterDisarm as the handlers use it: the worker is gone, or nothing is changed.          *)
LEMMA AfterDisarmOutcome ==
    ASSUME NEW h, IsHelper(h)
    PROVE  \/ AfterDisarm(h) = h
           \/ /\ AfterDisarm(h).mode = "Waiting" /\ AfterDisarm(h).connected = h.connected
              /\ AfterDisarm(h).heartbeat \in {h.heartbeat, HeartbeatOff}
              /\ AfterDisarm(h).scheduler \in {h.scheduler, Disarmed}
              /\ AfterDisarm(h).queued = h.queued /\ AfterDisarm(h).cancel = h.cancel
              /\ ~Unconfirmed(h)
<1> DEFINE c == ClearRecoveryState(h)
           g == IF h.kept THEN h ELSE c
<1>1. /\ IsHelper(c) /\ c.connected = h.connected /\ c.heartbeat = HeartbeatOff /\ c.scheduler = Disarmed
      /\ c.queued = h.queued /\ c.cancel = h.cancel
  BY ClearTypes DEF ClearRecoveryState, ResetRequestProgress, Disarm, IsHelper, IsRecord, HelperMembers
<1>2. CASE ~Unconfirmed(h)
  <2>1. AfterDisarm(h) = [g EXCEPT !.mode = "Waiting"]
    BY <1>2 DEF AfterDisarm, MistakeDisarms
  <2> HIDE DEF c
  <2> QED BY <1>1, <1>2, <2>1 DEF IsHelper, IsRecord, HelperMembers
<1>3. CASE Unconfirmed(h)
  BY <1>3 DEF AfterDisarm
<1> QED BY <1>2, <1>3

LEMMA DisarmOutcome ==
    ASSUME NEW h, IsHelper(h), QueueOf(h), HandleDisarm(h)
    PROVE  (Stays(h) \/ Rests(h)) /\ QueueCancels' /\ helper'.queued \in {h.queued, Disarmament}
<1>1. CASE WorkerActive /\ ~Unconfirmed(h)
  <2> DEFINE g == [h EXCEPT !.scheduler = Disarmed]
  <2>1. QueueBehindWorker(g, Disarmament) /\ worker.pc # "none" /\ Disarmament # NoCommand
    BY <1>1 DEF HandleDisarm, Disarm, WorkerActive, Disarmament, NoCommand
  <2>2. IsHelper(g)
    BY SchedulerTypes, HelperUpdates
  <2>3. /\ g.mode = h.mode /\ g.fallbacks = h.fallbacks /\ g.connected = h.connected
        /\ g.heartbeat = h.heartbeat /\ g.scheduler = Disarmed
    BY DEF IsHelper, IsRecord, HelperMembers
  <2> HIDE DEF g
  <2>4. Stays(g) /\ QueueCancels' /\ helper'.queued = Disarmament
    BY <2>1, <2>2, QueueBehindWorkerOutcome
  <2> QED BY <2>3, <2>4 DEF Stays
<1>2. CASE ~(WorkerActive /\ ~Unconfirmed(h))
  <2>1. helper' = AfterDisarm(h) /\ UNCHANGED <<files, worker>>
    BY <1>2 DEF HandleDisarm
  <2>2. CASE AfterDisarm(h) = h
    BY <2>1, <2>2 DEF Stays, WorkerKept, QueueCancels, QueueOf
  <2>3. CASE AfterDisarm(h) # h
    BY <1>2, <2>1, <2>3, AfterDisarmOutcome DEF Rests, QueueCancels, QueueOf, WorkerActive
  <2> QED BY <2>2, <2>3
<1> QED BY <1>1, <1>2

LEMMA ApplyOutcome ==
    ASSUME RestoreShape, NEW h, IsHelper(h), QueueOf(h), NEW command, command # NoCommand,
           HandleApply(h, command)
    PROVE  \/ Stays(h) /\ QueueCancels' /\ helper'.queued = command
           \/ Lends(h) /\ QueueCancels' /\ helper'.queued = NoCommand
  BY QueueBehindWorkerOutcome, BeginApplyOutcome DEF HandleApply, QueueOf, WorkerActive

LEMMA RevertOutcome ==
    ASSUME NEW h, IsHelper(h), QueueOf(h), NEW command, command # NoCommand, HandleRevert(h, command)
    PROVE  /\ QueueCancels'
           /\ \/ Stays(h) /\ helper'.queued = command
              \/ Stays(h) /\ helper'.queued = h.queued /\ command.from_disconnect = TRUE
              \/ (Owes(h) \/ Rests(h)) /\ helper'.queued = NoCommand
<1>1. CASE QueueBehindWorker(h, command) /\ WorkerActive
  BY <1>1, QueueBehindWorkerOutcome DEF WorkerActive
<1>2. CASE BeginRevert(h, command) /\ ~WorkerActive
  BY <1>2, BeginRevertOutcome DEF WorkerActive, WorkerGone, QueueOf
<1>3. CASE helper' = h /\ UNCHANGED <<files, worker>> /\ command.from_disconnect
  BY <1>3 DEF Stays, WorkerKept, QueueCancels, QueueOf
<1> QED BY <1>1, <1>2, <1>3 DEF HandleRevert

LEMMA DrainOutcome ==
    ASSUME RestoreShape, NEW h, IsHelper(h), ~h.cancel, worker.pc \in Completed, Drain(h)
    PROVE  /\ QueueCancels' /\ helper'.queued = NoCommand
           /\ \/ Stays(h) /\ worker' = Idle
              \/ (Rests(h) \/ Owes(h)) /\ h.queued # NoCommand
              \/ Lends(h) /\ h.queued.kind = "apply"
<1> DEFINE freed == [h EXCEPT !.queued = NoCommand]
<1>1. IsHelper(freed)
  BY CommandTypes DEF IsHelper, IsRecord, HelperTyped, HelperMembers
<1>2. /\ freed.queued = NoCommand /\ freed.mode = h.mode /\ freed.fallbacks = h.fallbacks
      /\ freed.connected = h.connected /\ freed.heartbeat = h.heartbeat /\ freed.scheduler = h.scheduler
      /\ ~freed.cancel /\ h.queued \in Commands
  BY DEF IsHelper, IsRecord, HelperTyped, HelperMembers
<1>3. CASE h.queued.kind \in {"none", "orphan"}
  <2>1. helper' = freed /\ worker' = Idle /\ UNCHANGED files
    BY <1>3 DEF Drain
  <2> HIDE DEF freed
  <2> QED BY <1>2, <2>1 DEF Stays, WorkerKept, QueueCancels, Idle
<1>4. CASE h.queued.kind = "apply"
  <2>1. BeginApply(freed, h.queued)
    BY <1>4 DEF Drain
  <2> HIDE DEF freed
  <2>2. Lends(freed) /\ QueueCancels' /\ helper'.queued = NoCommand
    BY <1>1, <1>2, <2>1, BeginApplyOutcome
  <2>3. Lends(h)
    BY <1>2, <2>2 DEF Lends
  <2> QED BY <1>4, <2>2, <2>3
<1>5. CASE h.queued.kind = "revert"
  <2>1. BeginRevert(freed, h.queued) /\ h.queued # NoCommand
    BY <1>5 DEF Drain, NoCommand
  <2> HIDE DEF freed
  <2>2. (Owes(freed) \/ Rests(freed)) /\ QueueCancels' /\ helper'.queued = NoCommand
    BY <1>1, <1>2, <2>1, BeginRevertOutcome DEF WorkerGone
  <2>3. Owes(h) \/ Rests(h)
    BY <1>2, <2>2 DEF Owes, Rests
  <2> QED BY <2>1, <2>2, <2>3
<1>6. CASE h.queued.kind = "disarm"
  <2>1. helper' = AfterDisarm(freed) /\ worker' = Idle /\ UNCHANGED files /\ h.queued # NoCommand
    BY <1>6 DEF Drain, NoCommand
  <2> HIDE DEF freed
  <2>2. worker'.pc = "none"
    BY <2>1 DEF Idle
  <2>3. CASE AfterDisarm(freed) = freed
    BY <1>2, <2>1, <2>2, <2>3 DEF Stays, WorkerKept, QueueCancels
  <2>4. CASE AfterDisarm(freed) # freed
    <3>1. Rests(h) /\ helper'.queued = NoCommand /\ ~helper'.cancel
      BY <1>1, <1>2, <2>1, <2>2, <2>4, AfterDisarmOutcome DEF Rests
    <3> QED BY <2>1, <2>2, <3>1 DEF QueueCancels
  <2> QED BY <2>3, <2>4
<1> QED BY <1>2, <1>3, <1>4, <1>5, <1>6, CommandMembers

--------------------------------------------------------------------------------
(* The same, told of the helper before the whole step.                                    *)

Heard == helper'.heartbeat \in {HeartbeatOff, ArmHeartbeat, RecordPing(helper.heartbeat)}
HeartbeatSet ==
    \/ Heard
    \/ helper'.heartbeat = helper.heartbeat /\ (helper'.connected => helper.connected)
FallbacksKept == helper'.fallbacks = helper.fallbacks \/ Drained \/ ~RestorePending(helper)
SchedulerKept == helper'.scheduler \in {helper.scheduler, Disarmed}

Unmoved == /\ helper'.mode = helper.mode /\ (helper'.fallbacks = helper.fallbacks \/ Drained)
           /\ SchedulerKept /\ WorkerKept /\ files' = files
Released == AtRest(helper') /\ SchedulerKept /\ worker'.pc = "none" /\ files' = files
Lent == /\ helper'.mode = "Applying" /\ helper'.scheduler = Disarmed /\ worker'.pc = "apply"
        /\ files' = files \/ (files["current"] = NoSnapshot /\ Captured)
Owed == /\ helper'.mode = "Recovery" /\ FallbacksKept
        /\ helper'.scheduler = ArmPrimary(helper.scheduler, RevertGrace)
        /\ WorkerGone /\ worker'.pc = "grace" /\ files' = files /\ SomeTierExists(files)

(* A handler's h that differs from the helper in its connection only, or in a ping.        *)
Like(h) ==
    /\ h.mode = helper.mode /\ h.scheduler = helper.scheduler
    /\ \/ h.heartbeat \in {HeartbeatOff, ArmHeartbeat, RecordPing(helper.heartbeat)}
       \/ h.heartbeat = helper.heartbeat /\ (h.connected => helper.connected)

LEMMA LikeOutcome ==
    ASSUME NEW h, Like(h)
    PROVE  /\ Stays(h) /\ (h.fallbacks = helper.fallbacks \/ Drained) => HeartbeatSet /\ Unmoved
           /\ Rests(h) => HeartbeatSet /\ Released
           /\ Lends(h) => HeartbeatSet /\ Lent
           /\ Owes(h) /\ (h.fallbacks = helper.fallbacks \/ Drained \/ ~RestorePending(helper))
                => HeartbeatSet /\ Owed
<1>1. Stays(h) /\ (h.fallbacks = helper.fallbacks \/ Drained) => HeartbeatSet /\ Unmoved
  BY DEF Like, Stays, HeartbeatSet, Heard, Unmoved, SchedulerKept
<1>2. Rests(h) => HeartbeatSet /\ Released
  BY DEF Like, Rests, HeartbeatSet, Heard, Released, SchedulerKept, AtRest
<1>3. Lends(h) => HeartbeatSet /\ Lent
  BY DEF Like, Lends, HeartbeatSet, Heard, Lent
<1>4. Owes(h) /\ (h.fallbacks = helper.fallbacks \/ Drained \/ ~RestorePending(helper)) => HeartbeatSet /\ Owed
  BY DEF Like, Owes, HeartbeatSet, Heard, Owed, FallbacksKept
<1> QED BY <1>1, <1>2, <1>3, <1>4

(* A new process.                                                                         *)
LEMMA RestartedOutcome ==
    /\ Restarted.mode = "Waiting" /\ Restarted.connected = TRUE /\ Restarted.heartbeat = ArmHeartbeat
    /\ Restarted.scheduler = Disarmed /\ Restarted.queued = NoCommand /\ ~Restarted.cancel
    /\ Restarted.fallbacks = 0
  BY DEF Restarted, Connected, Fresh

LEMMA ConnectedOutcome ==
    ASSUME NEW h, IsHelper(h)
    PROVE  /\ Connected(h).mode = h.mode /\ Connected(h).scheduler = h.scheduler
           /\ Connected(h).fallbacks = h.fallbacks /\ Connected(h).queued = h.queued
           /\ Connected(h).cancel = h.cancel /\ Connected(h).connected = TRUE
           /\ \/ Connected(h).heartbeat = ArmHeartbeat
              \/ Connected(h).heartbeat = h.heartbeat /\ h.connected
  BY DEF Connected, IsHelper, IsRecord, HelperTyped, HelperMembers

LEMMA PingedOutcome ==
    ASSUME NEW h, IsHelper(h)
    PROVE  /\ Pinged(h).mode = h.mode /\ Pinged(h).scheduler = h.scheduler
           /\ Pinged(h).fallbacks = h.fallbacks /\ Pinged(h).queued = h.queued
           /\ Pinged(h).cancel = h.cancel /\ Pinged(h).connected = h.connected
           /\ Pinged(h).heartbeat = RecordPing(h.heartbeat) /\ RecordPing(ArmHeartbeat) = ArmHeartbeat
  BY DEF Pinged, IsHelper, IsRecord, HelperTyped, HelperMembers, RecordPing, ArmHeartbeat

LEMMA StartedOutcome ==
    ASSUME RestoreShape, Discipline
    PROVE  /\ IsHelper(Started) /\ QueueOf(Started) /\ Started.connected = TRUE
           /\ Started.heartbeat \in {ArmHeartbeat, RecordPing(helper.heartbeat)}
           /\ Started.scheduler \in {helper.scheduler, Disarmed}
           /\ Stays(Started) \/ Rests(Started) \/ Lends(Started) \/ Owes(Started) => Heard
           /\ Started.queued \in {helper.queued, NoCommand}
           /\ Running(helper) => Started.mode = helper.mode
           /\ ~Running(helper) => Started.mode = "Waiting"
           /\ Stays(Started) => HeartbeatSet /\ (Unmoved \/ Released)
           /\ Rests(Started) => HeartbeatSet /\ Released
           /\ Lends(Started) => HeartbeatSet /\ Lent
           /\ Owes(Started) => HeartbeatSet /\ Owed
<1>1. IsHelper(helper) /\ IsHelper(Started)
  BY StartedType DEF RestoreShape
<1>2. /\ Stays(Started) => helper'.heartbeat = Started.heartbeat
      /\ Rests(Started) => helper'.heartbeat \in {Started.heartbeat, HeartbeatOff}
      /\ Lends(Started) => helper'.heartbeat = ArmHeartbeat
      /\ Owes(Started) => helper'.heartbeat = HeartbeatOff
  BY DEF Stays, Rests, Lends, Owes
<1>3. CASE Running(helper)
  <2> DEFINE g == Connected(helper)
             h == Pinged(g)
  <2>0. Started = h /\ IsHelper(g)
    BY <1>1, <1>3, ConnectedType DEF Started
  <2>1. /\ g.mode = helper.mode /\ g.scheduler = helper.scheduler
        /\ g.fallbacks = helper.fallbacks /\ g.queued = helper.queued
        /\ g.cancel = helper.cancel /\ g.connected = TRUE
        /\ g.heartbeat \in {ArmHeartbeat, helper.heartbeat}
    BY <1>1, ConnectedOutcome
  <2> HIDE DEF g
  <2>2. /\ h.mode = helper.mode /\ h.scheduler = helper.scheduler
        /\ h.fallbacks = helper.fallbacks /\ h.queued = helper.queued
        /\ h.cancel = helper.cancel /\ h.connected = TRUE
        /\ h.heartbeat \in {ArmHeartbeat, RecordPing(helper.heartbeat)}
    BY <2>0, <2>1, PingedOutcome
  <2> HIDE DEF h
  <2>3. Like(h) /\ QueueOf(h)
    BY <2>2 DEF Like, QueueOf, Discipline, QueueCancels
  <2>4. /\ Stays(h) => HeartbeatSet /\ Unmoved
        /\ Rests(h) => HeartbeatSet /\ Released
        /\ Lends(h) => HeartbeatSet /\ Lent
        /\ Owes(h) => HeartbeatSet /\ Owed
    BY <2>2, <2>3, LikeOutcome
  <2>5. Stays(h) \/ Rests(h) \/ Lends(h) \/ Owes(h) => Heard
    BY <1>2, <2>0, <2>2 DEF Heard
  <2> QED BY <1>1, <1>3, <2>0, <2>2, <2>3, <2>4, <2>5
<1>4. CASE ~Running(helper)
  <2> DEFINE h == Restarted
  <2>1. Started = h
    BY <1>4 DEF Started
  <2>2. /\ h.mode = "Waiting" /\ h.connected = TRUE /\ h.heartbeat = ArmHeartbeat
        /\ h.scheduler = Disarmed /\ h.queued = NoCommand /\ ~h.cancel
    BY RestartedOutcome
  <2>3. worker.pc = "none" /\ ~RestorePending(helper)
    <3>1. helper.mode = "Exited"
      BY <1>4 DEF Running
    <3> QED BY <3>1 DEF Discipline, WorkerInMode, RestorePending
  <2> HIDE DEF h
  <2>4. Stays(h) => HeartbeatSet /\ Released
    BY <2>2, <2>3 DEF Stays, WorkerKept, HeartbeatSet, Heard, Released, AtRest, SchedulerKept, Idle
  <2>5. Rests(h) => HeartbeatSet /\ Released
    BY <2>2 DEF Rests, HeartbeatSet, Heard, Released, AtRest, SchedulerKept
  <2>6. Lends(h) => HeartbeatSet /\ Lent
    BY DEF Lends, HeartbeatSet, Heard, Lent
  <2>7. Owes(h) => HeartbeatSet /\ Owed
    BY <2>3 DEF Owes, HeartbeatSet, Heard, Owed, FallbacksKept, ArmPrimary
  <2>8. QueueOf(h)
    BY <2>2 DEF QueueOf
  <2>9. Stays(h) \/ Rests(h) \/ Lends(h) \/ Owes(h) => Heard
    BY <1>2, <2>1, <2>2 DEF Heard
  <2> QED BY <1>1, <1>4, <2>1, <2>2, <2>4, <2>5, <2>6, <2>7, <2>8, <2>9
<1> QED BY <1>3, <1>4

--------------------------------------------------------------------------------
(* The host's steps.                                                                      *)

QueueKept == QueueCancels' /\ ApplyIsCurrent'

LEMMA DisarmingMoves ==
    ASSUME RestoreShape, Discipline, NEW next \in {"snapshot", "streaming"},
           next = "snapshot" => host.pc = "idle", next = "streaming" => host.pc = "streaming",
           Disarming(next)
    PROVE  HeartbeatSet /\ (Unmoved \/ Released) /\ QueueKept /\ host'.pc = next
<1>1. IsHelper(helper) /\ QueueCancels /\ ApplyIsCurrent /\ host'.pc = next
  BY DEF RestoreShape, Discipline, Disarming, HostTyped, IsRecord, HostMembers
<1>2. CASE HandleDisarm(helper)
  <2>1. Like(helper) /\ QueueOf(helper)
    BY <1>1 DEF Like, QueueOf, QueueCancels
  <2>2. /\ Stays(helper) \/ Rests(helper)
        /\ QueueCancels' /\ helper'.queued \in {helper.queued, Disarmament}
    BY <1>1, <1>2, <2>1, DisarmOutcome
  <2>3. HeartbeatSet /\ (Unmoved \/ Released)
    BY <2>1, <2>2, LikeOutcome
  <2>4. ApplyIsCurrent'
    <3>1. CASE Stays(helper)
      <4>1. helper'.queued.kind = "apply" => helper.queued.kind = "apply"
        BY <2>2 DEF Disarmament
      <4> QED BY <1>1, <3>1, <4>1 DEF ApplyIsCurrent, Stays
    <3>2. CASE Rests(helper)
      <4>1. helper'.queued = NoCommand \/ helper'.cancel
        BY <2>2 DEF QueueCancels
      <4>2. worker'.pc = "none"
        BY <3>2 DEF Rests
      <4> QED BY <2>2, <4>1, <4>2 DEF ApplyIsCurrent, QueueCancels, NoCommand
    <3> QED BY <2>2, <3>1, <3>2
  <2> QED BY <1>1, <2>2, <2>3, <2>4 DEF QueueKept
<1>3. CASE helper' = NotRunning /\ worker' = Idle /\ files' = files
  <2>1. /\ helper'.mode = "Exited" /\ helper'.queued = NoCommand /\ ~helper'.cancel
        /\ helper'.scheduler = Disarmed /\ helper'.heartbeat = HeartbeatOff /\ worker'.pc = "none"
    BY <1>3 DEF NotRunning, Fresh, Idle
  <2> QED BY <1>1, <1>3, <2>1 DEF HeartbeatSet, Heard, Released, AtRest, SchedulerKept, QueueKept, QueueCancels,
                                  ApplyIsCurrent, NoCommand
<1>4. CASE UNCHANGED <<files, helper, worker>>
  <2>1. HeartbeatSet /\ Unmoved /\ QueueCancels'
    BY <1>1, <1>4 DEF HeartbeatSet, Unmoved, WorkerKept, SchedulerKept, QueueCancels
  <2>2. ApplyIsCurrent'
    BY <1>1, <1>4 DEF ApplyIsCurrent
  <2> QED BY <1>1, <2>1, <2>2 DEF QueueKept
<1> QED BY <1>2, <1>3, <1>4 DEF Disarming

(* A capture, which no pending restore allows.                                            *)
CaptureOf(l) == \A tier \in Tiers : files'[tier] = l \/ \E t \in Tiers : files'[tier] = files[t]
Recaptured ==
    /\ ~RestorePending(helper) /\ (helper'.mode = helper.mode \/ (AtRest(helper) /\ AtRest(helper')))
    /\ SchedulerKept /\ worker' = worker /\ \E l \in Snapshots \ {NoSnapshot} : CaptureOf(l)

LEMMA StartedOnly ==
    ASSUME RestoreShape, Discipline, helper' = Started, worker' = worker
    PROVE  /\ HeartbeatSet /\ Heard /\ QueueCancels' /\ SchedulerKept
           /\ helper'.queued \in {helper.queued, NoCommand} /\ helper'.connected = TRUE
           /\ helper'.mode = helper.mode \/ (AtRest(helper) /\ AtRest(helper'))
           /\ files' = files => Unmoved \/ Released
<1>1. QueueCancels'
  BY StartedOutcome DEF QueueOf, QueueCancels
<1>2. helper'.mode = helper.mode \/ (AtRest(helper) /\ AtRest(helper'))
  BY StartedOutcome DEF Running, AtRest
<1>3. HeartbeatSet /\ Heard /\ SchedulerKept
  BY StartedOutcome DEF HeartbeatSet, Heard, SchedulerKept
<1>4. files' = files => Unmoved \/ Released
  <2>1. files' = files => Stays(Started)
    BY DEF Stays, WorkerKept
  <2> QED BY <2>1, StartedOutcome
<1> QED BY <1>1, <1>2, <1>3, <1>4, StartedOutcome

LEMMA SnapshotMoves ==
    ASSUME RestoreShape, Discipline, SnapshotCurrentDisplayState
    PROVE  /\ HeartbeatSet /\ QueueKept /\ (Unmoved \/ Released \/ Recaptured)
           /\ host.pc = "snapshot" /\ host'.pc = "apply" /\ (~RestoreExpected => Heard)
<1>1. host.pc = "snapshot" /\ host'.pc = "apply" /\ ApplyIsCurrent
  BY DEF SnapshotCurrentDisplayState, RestoreShape, HostTyped, IsRecord, HostMembers, Discipline
<1>2. CASE RestoreExpected /\ UNCHANGED <<files, helper, worker>>
  BY <1>1, <1>2 DEF HeartbeatSet, Unmoved, WorkerKept, SchedulerKept, QueueKept, QueueCancels, ApplyIsCurrent, Discipline
<1>3. CASE helper' = Started /\ worker' = worker
  <2>1. QueueKept
    <3>1. helper'.queued.kind # "apply"
      BY <1>1, <1>3, StartedOnly DEF ApplyIsCurrent, NoCommand
    <3> QED BY <1>3, <3>1, StartedOnly DEF QueueKept, ApplyIsCurrent
  <2>2. CASE files' = files
    BY <1>1, <1>3, <2>1, <2>2, StartedOnly
  <2>3. CASE MistakeSnapshotAlways(Started) /\ ~RestorePending(Started)
    <3>1. PICK copied, saved \in BOOLEAN : files' = RefreshCurrent(files, desk, present, copied, saved)
      BY <2>3 DEF MistakeSnapshotAlways
    <3> DEFINE l == FilterForSave(desk, present)
               kept == Save(files, "previous", files["current"], copied /\ Exists(files, "current"))
    <3>2. CASE files' = files
      BY <2>2, <3>2
    <3>3. CASE files' # files
      <4>1. l \in Snapshots \ {NoSnapshot} /\ files' = Save(kept, "current", l, saved)
        BY <3>1, <3>3, FilterForSaveType DEF RefreshCurrent, RestoreShape, NoSnapshot
      <4>2. \A tier \in Tiers : kept[tier] \in {files[tier], files["current"]}
        BY DEF Save, Tiers, RestoreShape, Files
      <4>3. kept \in [Tiers -> Snapshots] /\ "current" \in Tiers
        BY DEF Save, Tiers, RestoreShape, Files
      <4> HIDE DEF l, kept
      <4>4. CaptureOf(l)
        BY <4>1, <4>2, <4>3 DEF Save, CaptureOf
      <4>5. ~RestorePending(helper)
        BY <2>3, StartedOutcome DEF RestorePending, Running
      <4> QED BY <1>1, <1>3, <2>1, <4>1, <4>4, <4>5, StartedOnly DEF Recaptured
    <3> QED BY <3>2, <3>3
  <2> QED BY <1>3, <2>2, <2>3 DEF SnapshotCurrentDisplayState, HandleSnapshotCurrent
<1> QED BY <1>2, <1>3 DEF SnapshotCurrentDisplayState, HandleSnapshotCurrent, MistakeSnapshotAlways

LEMMA ExportMoves ==
    ASSUME RestoreShape, Discipline, ExportGolden
    PROVE  /\ HeartbeatSet /\ Heard /\ QueueKept /\ (Unmoved \/ Released \/ Recaptured)
           /\ files'["current"] = files["current"]
<1>1. host.pc = "idle" /\ host' = host /\ ApplyIsCurrent /\ helper' = Started /\ worker' = worker
  BY DEF ExportGolden, HandleExportGolden, Discipline
<1>2. QueueKept
  <2>1. helper'.queued.kind # "apply"
    BY <1>1, StartedOnly DEF ApplyIsCurrent, NoCommand
  <2> QED BY <1>1, <2>1, StartedOnly DEF QueueKept, ApplyIsCurrent
<1>3. CASE files' = files
  BY <1>1, <1>2, <1>3, StartedOnly
<1>4. CASE /\ ~RestorePending(Started)
           /\ \E ok \in BOOLEAN : files' = CaptureAndSave(files, "golden", desk, present, ok)
  <2>1. ~RestorePending(helper)
    BY <1>4, StartedOutcome DEF RestorePending, Running
  <2> DEFINE l == FilterForSave(desk, present)
  <2>2. files' = files \/ (l # {} /\ files' = [files EXCEPT !["golden"] = l])
    BY <1>4 DEF CaptureAndSave, Save
  <2>3. l \in Snapshots /\ files \in [Tiers -> Snapshots]
    BY FilterForSaveType DEF RestoreShape, Files
  <2> HIDE DEF l
  <2>4. CASE l # {} /\ files' = [files EXCEPT !["golden"] = l]
    <3>1. l \in Snapshots \ {NoSnapshot} /\ files'["current"] = files["current"]
      BY <2>3, <2>4 DEF NoSnapshot, Tiers
    <3>2. CaptureOf(l)
      BY <2>3, <2>4 DEF CaptureOf, Tiers
    <3> QED BY <1>1, <1>2, <2>1, <3>1, <3>2, StartedOnly DEF Recaptured
  <2> QED BY <1>3, <2>2, <2>4
<1> QED BY <1>3, <1>4 DEF ExportGolden, HandleExportGolden

LEMMA ApplyInternalMoves ==
    ASSUME RestoreShape, Discipline, ApplyInternal
    PROVE  /\ HeartbeatSet /\ Heard /\ QueueKept /\ (Unmoved \/ Released \/ Lent)
           /\ host.pc = "apply" /\ host'.pc = "streaming"
<1>1. host.pc = "apply" /\ host'.pc = "streaming" /\ ApplyIsCurrent
  BY DEF ApplyInternal, RestoreShape, HostTyped, IsRecord, HostMembers, Discipline
<1>2. CASE HandleApply(Started, ApplyCommand)
  <2> DEFINE command == ApplyCommand
  <2>1. command # NoCommand
    BY DEF ApplyCommand, Apply, NoCommand
  <2>2. HandleApply(Started, command) /\ IsHelper(Started) /\ QueueOf(Started) /\ Started.connected = TRUE
    BY <1>2, StartedOutcome
  <2> HIDE DEF command
  <2>3. \/ Stays(Started) /\ QueueCancels' /\ helper'.queued = command
        \/ Lends(Started) /\ QueueCancels' /\ helper'.queued = NoCommand
    BY <2>1, <2>2, ApplyOutcome
  <2>4. helper'.connected = TRUE
    BY <2>2, <2>3 DEF Stays, Lends
  <2> QED BY <1>1, <2>3, <2>4, StartedOutcome DEF QueueKept, ApplyIsCurrent
<1>3. CASE BeginApply(Restarted, ApplyCommand)
  <2> DEFINE command == ApplyCommand
             h == Restarted
  <2>1. BeginApply(h, command) /\ IsHelper(h) /\ h.queued = NoCommand
    BY <1>3, FreshTypes, RestartedOutcome
  <2> HIDE DEF command, h
  <2>2. Lends(h) /\ QueueCancels' /\ helper'.queued = NoCommand
    BY <2>1, BeginApplyOutcome
  <2>3. HeartbeatSet /\ Heard /\ Lent
    BY <2>2 DEF Lends, HeartbeatSet, Heard, Lent
  <2> QED BY <1>1, <2>2, <2>3 DEF QueueKept, ApplyIsCurrent, NoCommand
<1>4. CASE helper' = Started /\ worker' = worker /\ files' = files
  BY <1>1, <1>4, StartedOnly DEF QueueKept, ApplyIsCurrent
<1>5. CASE helper' = Restarted /\ worker' = Idle /\ files' = files
  <2> DEFINE h == Restarted
  <2>1. /\ helper' = h /\ h.mode = "Waiting" /\ h.connected = TRUE /\ h.heartbeat = ArmHeartbeat
        /\ h.scheduler = Disarmed /\ h.queued = NoCommand /\ ~h.cancel /\ worker'.pc = "none"
    BY <1>5, RestartedOutcome DEF Idle
  <2> HIDE DEF h
  <2>2. HeartbeatSet /\ Heard /\ Released /\ QueueCancels'
    BY <1>5, <2>1 DEF HeartbeatSet, Heard, Released, AtRest, SchedulerKept, QueueCancels
  <2>3. ApplyIsCurrent'
    BY <2>1 DEF ApplyIsCurrent, NoCommand
  <2> QED BY <1>1, <2>2, <2>3 DEF QueueKept
<1> QED BY <1>2, <1>3, <1>4, <1>5 DEF ApplyInternal

LEMMA RevertMoves ==
    ASSUME RestoreShape, Discipline, RevertRequest
    PROVE  HeartbeatSet /\ Heard /\ QueueKept /\ (Unmoved \/ Released \/ Owed) /\ host'.pc = "idle"
<1>1. host'.pc = "idle"
  BY DEF RevertRequest, RestoreShape, HostTyped, IsRecord, HostMembers
<1> DEFINE command == Revert(TRUE, host.golden_first, FALSE)
<1>2. /\ HandleRevert(Started, command) /\ command # NoCommand /\ command.from_disconnect = FALSE
      /\ command.kind = "revert"
  BY DEF RevertRequest, Revert, NoCommand
<1> HIDE DEF command
<1>3. /\ QueueCancels'
      /\ \/ Stays(Started) /\ helper'.queued = command
         \/ (Owes(Started) \/ Rests(Started)) /\ helper'.queued = NoCommand
  BY <1>2, StartedOutcome, RevertOutcome
<1>4. ApplyIsCurrent'
  BY <1>2, <1>3 DEF ApplyIsCurrent, NoCommand
<1> QED BY <1>1, <1>3, <1>4, StartedOutcome DEF QueueKept

--------------------------------------------------------------------------------
(* The helper's steps.                                                                    *)

Failed == /\ RestorePending(helper) /\ helper.mode # "EventLoop" /\ helper'.mode = "EventLoop"
          /\ helper'.fallbacks = helper.fallbacks
          /\ helper'.scheduler = OnAttemptFailed(helper.scheduler) /\ worker' = Idle /\ files' = files
Streams == /\ helper'.mode = "Session" /\ helper.mode = "Applying" /\ helper'.scheduler = helper.scheduler
           /\ worker' = Idle /\ files' = files
Validates == /\ RestorePending(helper) /\ helper'.mode = "Validation" /\ helper'.fallbacks = helper.fallbacks
             /\ helper.mode # "EventLoop"
             /\ helper'.scheduler = helper.scheduler /\ worker'.pc = "validate" /\ files' = files
HelperMoves ==
    /\ HeartbeatSet /\ QueueKept /\ worker.pc \in Completed
    /\ Unmoved \/ Released \/ (Lent /\ helper.queued.kind = "apply") \/ (Owed /\ Drained)
       \/ Failed \/ Streams \/ Validates

(* The queue after a completion, whatever its handler is.                                  *)
LEMMA DrainedQueue == ASSUME QueueCancels', helper'.queued = NoCommand PROVE QueueKept
  BY DEF QueueKept, ApplyIsCurrent, NoCommand

LEMMA DrainMoves ==
    ASSUME RestoreShape, NEW h, IsHelper(h), ~h.cancel, h.queued = helper.queued, Drain(h), Like(h),
           worker.pc \in Completed,
           h.fallbacks = helper.fallbacks \/ helper.queued # NoCommand
    PROVE  HeartbeatSet /\ QueueKept
           /\ (Unmoved \/ Released \/ (Lent /\ helper.queued.kind = "apply") \/ (Owed /\ Drained))
<1>1. /\ QueueCancels' /\ helper'.queued = NoCommand
      /\ \/ Stays(h) /\ worker' = Idle
         \/ (Rests(h) \/ Owes(h)) /\ h.queued # NoCommand
         \/ Lends(h) /\ h.queued.kind = "apply"
  BY DrainOutcome
<1>2. helper.queued # NoCommand => Drained
  BY <1>1 DEF Drained
<1> QED BY <1>1, <1>2, DrainedQueue, LikeOutcome

LEMMA FailedAttemptMoves ==
    ASSUME RestoreShape, Discipline, worker.pc \in Completed \ {"apply"}, ~helper.cancel, FailedAttempt(helper)
    PROVE  HeartbeatSet /\ QueueKept /\ Failed
<1> DEFINE s == OnAttemptFailed(helper.scheduler)
           h == [helper EXCEPT !.scheduler = s, !.mode = "EventLoop"]
<1>1. Drain(h)
  BY DEF FailedAttempt
<1>2. s \in Scheduler
  BY SchedulerTypes DEF RestoreShape, IsHelper, HelperTyped
<1> HIDE DEF s
<1>3. /\ IsHelper(h) /\ ~h.cancel /\ h.queued = helper.queued /\ h.mode = "EventLoop" /\ h.scheduler = s
      /\ h.fallbacks = helper.fallbacks /\ h.heartbeat = helper.heartbeat /\ h.connected = helper.connected
  BY <1>2 DEF RestoreShape, IsHelper, IsRecord, HelperTyped, HelperMembers, Modes
<1>4. helper.queued = NoCommand /\ helper.mode \in {"Recovery", "Validation"}
  BY DEF Completed, Discipline, QueueCancels, WorkerInMode
<1>5. ~(h.queued.kind \in {"apply", "revert", "disarm"})
  BY <1>3, <1>4 DEF NoCommand
<1> HIDE DEF h
<1>6. QueueCancels' /\ helper'.queued = NoCommand /\ Stays(h) /\ worker' = Idle
  BY <1>1, <1>3, <1>4, <1>5, DrainOutcome DEF NoCommand
<1>7. helper'.scheduler = s
  <2>1. helper' = [h EXCEPT !.queued = NoCommand]
    BY <1>1, <1>3, <1>4 DEF Drain, NoCommand
  <2> QED BY <2>1, <1>3 DEF IsHelper, IsRecord, HelperMembers
<1>8. HeartbeatSet /\ QueueKept
  BY <1>3, <1>6, DrainedQueue DEF Stays, HeartbeatSet
<1> QED BY <1>3, <1>4, <1>6, <1>7, <1>8 DEF Stays, Failed, RestorePending, s

LEMMA ApplyCompletedMoves == ASSUME RestoreShape, Discipline, ApplyCompleted PROVE HelperMoves
<1>1. /\ IsHelper(helper) /\ worker.pc = "apply" /\ worker.pc \in Completed /\ helper.mode = "Applying" /\ helper.scheduler \in Scheduler
  BY DEF ApplyCompleted, Completed, Discipline, WorkerInMode, RestoreShape, IsHelper, HelperTyped
<1>2. CASE helper.cancel
  <2> DEFINE h == [helper EXCEPT !.armed = TRUE, !.kept = TRUE, !.cancel = FALSE]
  <2>1. Drain(h)
    BY <1>2 DEF ApplyCompleted
  <2>2. /\ IsHelper(h) /\ ~h.cancel /\ h.queued = helper.queued /\ h.mode = helper.mode
        /\ h.scheduler = helper.scheduler /\ h.fallbacks = helper.fallbacks
        /\ h.heartbeat = helper.heartbeat /\ h.connected = helper.connected
    BY <1>1 DEF IsHelper, IsRecord, HelperTyped, HelperMembers
  <2> HIDE DEF h
  <2>3. Like(h)
    BY <2>2 DEF Like
  <2>4. HeartbeatSet /\ QueueKept
        /\ (Unmoved \/ Released \/ (Lent /\ helper.queued.kind = "apply") \/ (Owed /\ Drained))
    BY <1>1, <2>1, <2>2, <2>3, DrainMoves
  <2> QED BY <1>1, <2>4 DEF HelperMoves
<1>3. CASE ~helper.cancel
  <2>1. /\ helper' = [helper EXCEPT !.mode = "Session", !.armed = TRUE, !.kept = FALSE,
                                    !.heartbeat = ArmHeartbeat]
        /\ worker' = Idle /\ files' = files
    BY <1>3 DEF ApplyCompleted
  <2>2. /\ helper'.mode = "Session" /\ helper'.heartbeat = ArmHeartbeat /\ helper'.scheduler = helper.scheduler
        /\ helper'.queued = helper.queued /\ helper'.cancel = helper.cancel
    BY <1>1, <2>1 DEF IsHelper, IsRecord, HelperMembers
  <2>3. helper.queued = NoCommand
    BY <1>3 DEF Discipline, QueueCancels
  <2>4. QueueCancels'
    BY <1>3, <2>2, <2>3 DEF QueueCancels
  <2> QED BY <1>1, <2>1, <2>2, <2>3, <2>4, DrainedQueue DEF HelperMoves, HeartbeatSet, Heard, Streams, Idle
<1> QED BY <1>2, <1>3

LEMMA RetainOutcome ==
    ASSUME NEW h, IsHelper(h)
    PROVE  /\ IsHelper(Retain([h EXCEPT !.cancel = FALSE])) /\ ~Retain([h EXCEPT !.cancel = FALSE]).cancel
           /\ Retain([h EXCEPT !.cancel = FALSE]).queued = h.queued
           /\ Retain([h EXCEPT !.cancel = FALSE]).mode = h.mode
           /\ Retain([h EXCEPT !.cancel = FALSE]).scheduler = h.scheduler
           /\ Retain([h EXCEPT !.cancel = FALSE]).fallbacks = h.fallbacks
           /\ Retain([h EXCEPT !.cancel = FALSE]).heartbeat = ArmHeartbeat
  BY HeartbeatTypes DEF Retain, IsHelper, IsRecord, HelperTyped, HelperMembers

LEMMA ForgetOutcome ==
    ASSUME NEW h, IsHelper(h)
    PROVE  /\ IsHelper(ResetRequestProgress([h EXCEPT !.cancel = FALSE]))
           /\ ~ResetRequestProgress([h EXCEPT !.cancel = FALSE]).cancel
           /\ ResetRequestProgress([h EXCEPT !.cancel = FALSE]).queued = h.queued
           /\ ResetRequestProgress([h EXCEPT !.cancel = FALSE]).mode = h.mode
           /\ ResetRequestProgress([h EXCEPT !.cancel = FALSE]).scheduler = h.scheduler
           /\ ResetRequestProgress([h EXCEPT !.cancel = FALSE]).heartbeat = h.heartbeat
           /\ ResetRequestProgress([h EXCEPT !.cancel = FALSE]).connected = h.connected
<1>1. 0 \in 0..(kGoldenFallbackCompletionThreshold - 1)
  BY DEF kGoldenFallbackCompletionThreshold
<1> QED BY <1>1 DEF ResetRequestProgress, IsHelper, IsRecord, HelperTyped, HelperMembers

LEMMA RecoveryCompletedMoves == ASSUME RestoreShape, Discipline, RecoveryCompleted PROVE HelperMoves
<1>1. /\ IsHelper(helper) /\ worker.pc \in {"unstarted", "done"} /\ worker.pc \in Completed \ {"apply"}
      /\ helper.mode \in {"Recovery", "Validation"}
      /\ (helper.cancel => helper.queued # NoCommand)
  BY DEF RecoveryCompleted, Completed, Discipline, WorkerInMode, QueueCancels, RestoreShape
<1>2. CASE helper.cancel
  <2> DEFINE g == [helper EXCEPT !.cancel = FALSE]
             h == IF worker.pc = "done" THEN Retain(g) ELSE ResetRequestProgress(g)
  <2>1. Drain(h)
    BY <1>2 DEF RecoveryCompleted
  <2>2. IsHelper(h) /\ ~h.cancel /\ h.queued = helper.queued /\ Like(h)
    BY <1>1, RetainOutcome, ForgetOutcome DEF Like
  <2> HIDE DEF h
  <2>3. HeartbeatSet /\ QueueKept
        /\ (Unmoved \/ Released \/ (Lent /\ helper.queued.kind = "apply") \/ (Owed /\ Drained))
    BY <1>1, <1>2, <2>1, <2>2, DrainMoves
  <2> QED BY <1>1, <2>3 DEF HelperMoves
<1>3. CASE ~helper.cancel /\ worker.success
  <2>1. helper' = [helper EXCEPT !.mode = "Validation"] /\ worker' = [worker EXCEPT !.pc = "validate"]
        /\ files' = files
    BY <1>3 DEF RecoveryCompleted
  <2>2. /\ helper'.mode = "Validation" /\ helper'.heartbeat = helper.heartbeat
        /\ helper'.scheduler = helper.scheduler /\ helper'.fallbacks = helper.fallbacks
        /\ helper'.connected = helper.connected
        /\ helper'.queued = helper.queued /\ helper'.cancel = helper.cancel /\ worker'.pc = "validate"
    BY <1>1, <2>1 DEF IsHelper, IsRecord, HelperMembers, RestoreShape, IsWorker, WorkerMembers
  <2>3. helper.queued = NoCommand
    BY <1>3 DEF Discipline, QueueCancels
  <2>4. QueueCancels'
    BY <1>3, <2>2, <2>3 DEF QueueCancels
  <2> QED BY <1>1, <2>1, <2>2, <2>3, <2>4, DrainedQueue
          DEF HelperMoves, HeartbeatSet, Validates, RestorePending
<1>4. CASE ~helper.cancel /\ ~worker.success
  <2>1. FailedAttempt(helper)
    BY <1>4 DEF RecoveryCompleted
  <2> QED BY <1>1, <1>4, <2>1, FailedAttemptMoves DEF HelperMoves
<1> QED BY <1>2, <1>3, <1>4

LEMMA RecoveryValidationCompletedMoves ==
    ASSUME RestoreShape, Discipline, RecoveryValidationCompleted PROVE HelperMoves
<1>1. /\ IsHelper(helper) /\ worker.pc \in Completed \ {"apply"} /\ (helper.cancel => helper.queued # NoCommand)
  BY DEF RecoveryValidationCompleted, Completed, Discipline, QueueCancels, RestoreShape
<1>2. CASE helper.cancel
  <2> DEFINE g == [helper EXCEPT !.cancel = FALSE]
             h == Retain(g)
  <2>1. Drain(h)
    BY <1>2 DEF RecoveryValidationCompleted
  <2>2. IsHelper(h) /\ ~h.cancel /\ h.queued = helper.queued /\ Like(h)
    BY <1>1, RetainOutcome DEF Like
  <2> HIDE DEF h
  <2>3. HeartbeatSet /\ QueueKept
        /\ (Unmoved \/ Released \/ (Lent /\ helper.queued.kind = "apply") \/ (Owed /\ Drained))
    BY <1>1, <1>2, <2>1, <2>2, DrainMoves
  <2> QED BY <1>1, <2>3 DEF HelperMoves
<1>3. CASE ~helper.cancel /\ ~worker.success
  <2>1. FailedAttempt(helper)
    BY <1>3 DEF RecoveryValidationCompleted
  <2> QED BY <1>1, <1>3, <2>1, FailedAttemptMoves DEF HelperMoves
<1>4. CASE ~helper.cancel /\ worker.success
  <2> DEFINE c == ClearRecoveryState(helper)
  <2>1. /\ IsHelper(c) /\ c.heartbeat = HeartbeatOff /\ c.scheduler = Disarmed
        /\ c.queued = helper.queued /\ c.cancel = helper.cancel
    BY <1>1, ClearTypes DEF ClearRecoveryState, ResetRequestProgress, Disarm, IsHelper, IsRecord, HelperMembers
  <2>2. worker'.pc = "none" /\ files' = files
        /\ (helper' = NotRunning \/ helper' = [c EXCEPT !.mode = "Waiting", !.kept = FALSE])
    BY <1>4 DEF RecoveryValidationCompleted, Idle
  <2>3. helper.queued = NoCommand
    BY <1>4 DEF Discipline, QueueCancels
  <2> HIDE DEF c
  <2>4. /\ AtRest(helper') /\ helper'.scheduler = Disarmed /\ helper'.heartbeat = HeartbeatOff
        /\ helper'.queued = NoCommand /\ ~helper'.cancel
    <3>1. CASE helper' = NotRunning
      BY <3>1 DEF NotRunning, Fresh, AtRest
    <3>2. CASE helper' = [c EXCEPT !.mode = "Waiting", !.kept = FALSE]
      BY <1>4, <2>1, <2>3, <3>2 DEF IsHelper, IsRecord, HelperMembers, AtRest
    <3> QED BY <2>2, <3>1, <3>2
  <2>5. QueueCancels'
    BY <2>4 DEF QueueCancels
  <2> QED BY <1>1, <2>2, <2>4, <2>5, DrainedQueue DEF HelperMoves, HeartbeatSet, Heard, Released, SchedulerKept
<1> QED BY <1>2, <1>3, <1>4

(* The timers: a poll or a display event starts an attempt; the heartbeat.                 *)
Polled(s) == /\ helper.mode = "EventLoop" /\ helper.scheduler.armed /\ helper'.mode = "Recovery"
             /\ helper'.fallbacks = helper.fallbacks
             /\ helper'.scheduler = s /\ worker'.pc = "grace" /\ files' = files
             /\ HeartbeatSet /\ QueueKept
Noted == /\ helper' = [helper EXCEPT !.scheduler = ReportExpired(@)] /\ UNCHANGED <<worker, files>>
         /\ helper'.scheduler = ReportExpired(helper.scheduler) /\ helper'.mode = helper.mode
         /\ helper'.fallbacks = helper.fallbacks /\ HeartbeatSet /\ QueueKept

LEMMA StartRecoveryOutcome ==
    ASSUME Discipline, NEW h, IsHelper(h), h.queued = helper.queued, helper.mode = "EventLoop",
           StartRecovery(h, 0)
    PROVE  /\ helper'.mode = "Recovery" /\ helper'.scheduler = h.scheduler /\ worker'.pc = "grace"
           /\ helper'.heartbeat = h.heartbeat /\ helper'.connected = h.connected
           /\ helper'.fallbacks = h.fallbacks /\ QueueKept
<1>1. helper' = [h EXCEPT !.mode = "Recovery", !.cancel = FALSE] /\ worker'.pc = "grace"
  BY DEF StartRecovery, Idle
<1>2. helper.queued = NoCommand
  BY DEF Discipline, WorkerInMode, QueueCancels
<1>3. /\ helper'.mode = "Recovery" /\ helper'.scheduler = h.scheduler
      /\ helper'.heartbeat = h.heartbeat /\ helper'.connected = h.connected
      /\ helper'.fallbacks = h.fallbacks /\ helper'.queued = NoCommand /\ ~helper'.cancel
  BY <1>1, <1>2 DEF IsHelper, IsRecord, HelperMembers
<1>4. QueueCancels'
  BY <1>3 DEF QueueCancels
<1> QED BY <1>1, <1>3, <1>4, DrainedQueue

LEMMA TimerMoves ==
    ASSUME RestoreShape, Discipline, host' = host
    PROVE  /\ HandleTick => Noted \/ (Polled(helper.scheduler) /\ ShouldAttempt(helper.scheduler))
           /\ HandleDisplayEvent => Polled(OnDisplayEvent(helper.scheduler))
<1>1. IsHelper(helper) /\ helper.scheduler \in Scheduler
  BY DEF RestoreShape, IsHelper, HelperTyped
<1>2. ASSUME HandleTick PROVE Noted \/ (Polled(helper.scheduler) /\ ShouldAttempt(helper.scheduler))
  <2>1. CASE helper' = [helper EXCEPT !.scheduler = ReportExpired(@)] /\ UNCHANGED worker
    <3> DEFINE s == ReportExpired(helper.scheduler)
    <3>1. helper' = [helper EXCEPT !.scheduler = s]
      BY <2>1
    <3>2. /\ helper'.scheduler = s /\ helper'.mode = helper.mode /\ helper'.fallbacks = helper.fallbacks
          /\ helper'.heartbeat = helper.heartbeat /\ helper'.connected = helper.connected
          /\ helper'.queued = helper.queued /\ helper'.cancel = helper.cancel
      BY <1>1, <3>1 DEF IsHelper, IsRecord, HelperMembers
    <3>3. QueueKept /\ HeartbeatSet
      BY <2>1, <3>2 DEF QueueKept, QueueCancels, ApplyIsCurrent, HeartbeatSet, Heard, Discipline
    <3> QED BY <1>2, <2>1, <3>2, <3>3 DEF Noted, HandleTick
  <2>2. CASE ShouldAttempt(helper.scheduler) /\ StartRecovery(helper, 0)
    <3>1. helper.mode = "EventLoop" /\ files' = files /\ helper.scheduler.armed
      BY <1>2, <2>2 DEF HandleTick, ShouldAttempt, WindowActive
    <3> QED BY <1>1, <2>2, <3>1, StartRecoveryOutcome DEF Polled, HeartbeatSet, Heard
  <2> QED BY <1>2, <2>1, <2>2 DEF HandleTick
<1>3. ASSUME HandleDisplayEvent PROVE Polled(OnDisplayEvent(helper.scheduler))
  <2> DEFINE s == OnDisplayEvent(helper.scheduler)
             h == [helper EXCEPT !.scheduler = s]
  <2>1. StartRecovery(h, 0) /\ helper.mode = "EventLoop" /\ files' = files /\ helper.scheduler.armed
    BY <1>3 DEF HandleDisplayEvent
  <2>2. s \in Scheduler
    BY <1>1, SchedulerTypes
  <2> HIDE DEF s
  <2>3. /\ IsHelper(h) /\ h.queued = helper.queued /\ h.scheduler = s /\ h.fallbacks = helper.fallbacks
        /\ h.heartbeat = helper.heartbeat /\ h.connected = helper.connected
    BY <1>1, <2>2, HelperUpdates DEF IsHelper, IsRecord, HelperMembers
  <2> HIDE DEF h
  <2> QED BY <2>1, <2>3, StartRecoveryOutcome DEF Polled, HeartbeatSet, Heard, s
<1> QED BY <1>2, <1>3

LEMMA LoseMoves ==
    ASSUME RestoreShape, Discipline, LoseConnection, host' = host
    PROVE  HeartbeatSet /\ QueueKept /\ (Unmoved \/ Released \/ Owed)
<1> DEFINE q == IF FromClient(helper.queued) THEN Orphan ELSE helper.queued
           h == [helper EXCEPT !.connected = FALSE, !.heartbeat = HeartbeatOff, !.queued = q]
           command == Revert(TRUE, FALSE, TRUE)
<1>1. (helper' = h /\ UNCHANGED <<files, worker>>) \/ HandleRevert(h, command)
  BY DEF LoseConnection
<1>2. /\ q \in Commands /\ q.kind # "apply" /\ (q # NoCommand <=> helper.queued # NoCommand)
  <2>1. helper.queued \in Commands
    BY DEF RestoreShape, IsHelper, HelperTyped
  <2>2. NoCommand.kind = "none" /\ Orphan.kind = "orphan"
    BY DEF NoCommand, Orphan
  <2> QED BY <2>1, <2>2, CommandTypes DEF FromClient
<1> HIDE DEF q
<1>3. /\ IsHelper(h) /\ h.queued = q /\ h.connected = FALSE /\ h.heartbeat = HeartbeatOff
      /\ h.mode = helper.mode /\ h.scheduler = helper.scheduler /\ h.fallbacks = helper.fallbacks
      /\ h.cancel = helper.cancel
  BY <1>2, HeartbeatTypes DEF RestoreShape, IsHelper, IsRecord, HelperTyped, HelperMembers
<1> HIDE DEF h
<1>4. Like(h) /\ QueueOf(h)
  BY <1>2, <1>3 DEF Like, QueueOf, Discipline, QueueCancels
<1>5. command # NoCommand /\ command.kind = "revert"
  BY DEF Revert, NoCommand
<1> HIDE DEF command
<1>6. CASE helper' = h /\ UNCHANGED <<files, worker>>
  <2>1. QueueKept
    BY <1>2, <1>3, <1>4, <1>6 DEF QueueKept, QueueCancels, QueueOf, ApplyIsCurrent
  <2>2. Stays(h)
    BY <1>6 DEF Stays, WorkerKept
  <2> QED BY <1>3, <1>4, <2>1, <2>2, LikeOutcome
<1>7. CASE HandleRevert(h, command)
  <2>1. /\ QueueCancels'
        /\ \/ Stays(h) /\ helper'.queued \in {command, q}
           \/ (Owes(h) \/ Rests(h)) /\ helper'.queued = NoCommand
    BY <1>3, <1>4, <1>5, <1>7, RevertOutcome
  <2>2. ApplyIsCurrent'
    BY <1>2, <1>5, <2>1 DEF ApplyIsCurrent, NoCommand
  <2> QED BY <1>3, <1>4, <2>1, <2>2, LikeOutcome DEF QueueKept
<1> QED BY <1>1, <1>6, <1>7

--------------------------------------------------------------------------------
(* The worker's steps: the wasted restores they count, and what they keep of the files.    *)

Unwasted == worker.pc \in {"load"} \cup Trying /\ worker.golden_first = FALSE
EndsUnwasted == worker'.pc = "done" /\ (worker.pc # "confirmed" \/ helper.cancel \/ worker'.success)
EndsWasted == /\ worker.pc = "confirmed" /\ worker'.pc = "done" /\ worker.golden_first = TRUE
              /\ helper'.fallbacks = helper.fallbacks + 1
              /\ helper'.fallbacks < kGoldenFallbackCompletionThreshold
GoesOn == worker'.pc # "done" /\ helper'.fallbacks = helper.fallbacks /\ (Unwasted => Unwasted')
SetsOut == worker'.pc = "load" /\ worker'.golden_first = FALSE
Settled == /\ worker.pc = "confirmed" /\ worker'.pc = "done"
           /\ \E copied, removed, removed_previous \in BOOLEAN :
                 files' = FilesAfter(worker.tier, copied, removed, removed_previous)
Works ==
    /\ helper'.mode = helper.mode /\ helper'.scheduler = helper.scheduler
    /\ helper'.heartbeat = helper.heartbeat /\ helper'.connected = helper.connected
    /\ helper'.queued = helper.queued /\ helper'.cancel = helper.cancel
    /\ worker.pc \notin {"none", "apply", "done"} /\ worker'.pc \notin {"none", "apply"}
    /\ worker'.pc = "confirmed" => worker.pc # "confirmed"
    /\ LoadedIsKept' /\ (files' = files \/ Settled)
    /\ EndsUnwasted \/ EndsWasted \/ GoesOn \/ SetsOut

(* A step of the worker that leaves the helper as it is, or counts its fallbacks anew.     *)
LEMMA CountOutcome ==
    ASSUME IsHelper(helper), NEW n,
           helper' = helper \/ helper' = [helper EXCEPT !.fallbacks = n]
    PROVE  /\ helper'.mode = helper.mode /\ helper'.scheduler = helper.scheduler
           /\ helper'.heartbeat = helper.heartbeat /\ helper'.connected = helper.connected
           /\ helper'.queued = helper.queued /\ helper'.cancel = helper.cancel
           /\ helper'.fallbacks \in {helper.fallbacks, n}
           /\ helper' = [helper EXCEPT !.fallbacks = n] => helper'.fallbacks = n
  BY DEF IsHelper, IsRecord, HelperMembers

LEMMA AbandonMoves ==
    ASSUME RestoreShape, worker.pc \notin {"none", "apply", "done"},
           worker.pc # "confirmed" \/ helper.cancel, Abandon
    PROVE  Works
<1>1. helper' = [helper EXCEPT !.fallbacks = 0] /\ files' = files
      /\ worker' = [worker EXCEPT !.pc = "done", !.success = FALSE]
  BY DEF Abandon, RecoveryStep, Finish
<1>2. worker'.pc = "done"
  BY <1>1 DEF RestoreShape, IsWorker, IsRecord, WorkerMembers
<1> QED BY <1>1, <1>2, CountOutcome DEF Works, EndsUnwasted, LoadedIsKept, Trying, RestoreShape

LEMMA NextTierOutcome ==
    ASSUME IsWorker(worker)
    PROVE  NextTier.pc = "done" \/ (NextTier.pc = "load" /\ NextTier.golden_first = worker.golden_first)
<1>1. \A tier \in Tiers : /\ Try(tier).pc = "load" /\ Try(tier).golden_first = worker.golden_first
                          /\ IsRecord(Try(tier), WorkerMembers)
  BY DEF Try, IsWorker, IsRecord, WorkerMembers
<1>2. LET w == [Try("golden") EXCEPT !.golden_tried = TRUE]
      IN  w.pc = "load" /\ w.golden_first = worker.golden_first
  <2>1. "golden" \in Tiers
    BY DEF Tiers
  <2> QED BY <1>1, <2>1 DEF IsRecord, WorkerMembers
<1>3. Finish(FALSE).pc = "done"
  BY DEF Finish, IsWorker, IsRecord, WorkerMembers
<1>4. "golden" \in Tiers /\ "previous" \in Tiers /\ "current" \in Tiers
  BY DEF Tiers
<1> QED BY <1>1, <1>2, <1>3, <1>4 DEF NextTier

LEMMA GiveUpTierMoves ==
    ASSUME RestoreShape, worker.pc \in {"load", "verify"}, GiveUpTier PROVE Works
<1> DEFINE count == IF NextTier.pc = "done" THEN 0 ELSE helper.fallbacks
<1>1. helper' = [helper EXCEPT !.fallbacks = count] /\ files' = files /\ worker' = NextTier
  BY DEF GiveUpTier, RecoveryStep
<1>2. NextTier.pc # "done" => count = helper.fallbacks
  OBVIOUS
<1> HIDE DEF count
<1>3. /\ helper'.mode = helper.mode /\ helper'.scheduler = helper.scheduler
      /\ helper'.heartbeat = helper.heartbeat /\ helper'.connected = helper.connected
      /\ helper'.queued = helper.queued /\ helper'.cancel = helper.cancel /\ helper'.fallbacks = count
  BY <1>1, CountOutcome DEF RestoreShape
<1>4. IsWorker(worker)
  BY DEF RestoreShape
<1>5. CASE NextTier.pc = "done"
  BY <1>1, <1>3, <1>5 DEF Works, EndsUnwasted, LoadedIsKept, Trying
<1>6. CASE NextTier.pc = "load" /\ NextTier.golden_first = worker.golden_first
  BY <1>1, <1>2, <1>3, <1>6 DEF Works, GoesOn, Unwasted, LoadedIsKept, Trying
<1> QED BY <1>4, <1>5, <1>6, NextTierOutcome

(* The worker goes on to pc with what it has loaded.                                       *)
LEMMA GoesOnMoves ==
    ASSUME RestoreShape, LoadedIsKept, NEW w, worker' = w, helper' = helper, files' = files,
           worker.pc \in Trying, w.pc \in Trying, w.pc = "confirmed" => worker.pc # "confirmed",
           w.golden_first = worker.golden_first, w.tier = worker.tier, w.loaded = worker.loaded
    PROVE  Works
  BY DEF Works, GoesOn, Unwasted, LoadedIsKept, Trying

LEMMA GraceEndsMoves == ASSUME RestoreShape, GraceEnds PROVE Works
<1>1. worker.pc = "grace" /\ files' = files /\ IsWorker(worker) /\ IsHelper(helper)
  BY DEF GraceEnds, RestoreShape
<1>2. CASE helper.cancel
  <2>1. helper' = helper /\ worker' = [worker EXCEPT !.pc = "unstarted", !.grace = 0]
    BY <1>2 DEF GraceEnds, RecoveryStep
  <2>2. worker'.pc = "unstarted"
    BY <1>1, <2>1 DEF IsWorker, IsRecord, WorkerMembers
  <2> QED BY <1>1, <2>1, <2>2 DEF Works, GoesOn, Unwasted, LoadedIsKept, Trying
<1>3. CASE ~helper.cancel
  <2> DEFINE count == IF helper.golden_first THEN helper.fallbacks ELSE 0
             tier == IF helper.golden_first THEN "golden" ELSE "current"
             first == helper.golden_first
  <2>1. /\ helper' = [helper EXCEPT !.attempted = TRUE, !.fallbacks = count]
        /\ worker' = [worker EXCEPT !.pc = "load", !.golden_first = first, !.tier = tier]
    BY <1>3 DEF GraceEnds, RecoveryStep
  <2>2. first \in BOOLEAN /\ (first => count = helper.fallbacks)
    BY <1>1 DEF IsHelper, HelperTyped
  <2> HIDE DEF count, tier, first
  <2>3. /\ helper'.mode = helper.mode /\ helper'.scheduler = helper.scheduler
        /\ helper'.heartbeat = helper.heartbeat /\ helper'.connected = helper.connected
        /\ helper'.queued = helper.queued /\ helper'.cancel = helper.cancel
        /\ helper'.fallbacks = count
    BY <1>1, <2>1 DEF IsHelper, IsRecord, HelperMembers
  <2>4. worker'.pc = "load" /\ worker'.golden_first = first
    BY <1>1, <2>1 DEF IsWorker, IsRecord, WorkerMembers
  <2>5. CASE first
    BY <1>1, <2>2, <2>3, <2>4, <2>5 DEF Works, GoesOn, Unwasted, LoadedIsKept, Trying
  <2>6. CASE ~first
    BY <1>1, <2>2, <2>3, <2>4, <2>6 DEF Works, SetsOut, LoadedIsKept, Trying
  <2> QED BY <2>2, <2>5, <2>6
<1> QED BY <1>2, <1>3

LEMMA LoadTierMoves == ASSUME RestoreShape, LoadTier PROVE Works
<1>1. worker.pc = "load" /\ IsWorker(worker)
  BY DEF LoadTier, RestoreShape
<1>2. CASE Abandon
  BY <1>1, <1>2, AbandonMoves
<1>3. CASE GiveUpTier
  BY <1>1, <1>3, GiveUpTierMoves
<1>4. CASE ~Abandon /\ ~GiveUpTier
  <2> DEFINE tried == worker.current_tried \/ worker.tier = "current"
             loaded == files[worker.tier]
  <2>1. helper' = helper /\ files' = files
        /\ worker' = [worker EXCEPT !.pc = "attempt", !.loaded = loaded, !.current_tried = tried]
    BY <1>4 DEF LoadTier, RecoveryStep
  <2> HIDE DEF tried
  <2>2. worker'.pc = "attempt" /\ worker'.tier = worker.tier /\ worker'.loaded = loaded
        /\ worker'.golden_first = worker.golden_first
    BY <1>1, <2>1 DEF IsWorker, IsRecord, WorkerMembers
  <2> QED BY <1>1, <2>1, <2>2 DEF Works, GoesOn, Unwasted, LoadedIsKept, Trying
<1> QED BY <1>2, <1>3, <1>4

LEMMA TryTierMoves == ASSUME RestoreShape, LoadedIsKept, AttemptTier \/ VerifyTier PROVE Works
<1>1. worker.pc \in {"attempt", "verify"} /\ IsWorker(worker)
      /\ (VerifyTier => worker.pc = "verify")
  BY DEF AttemptTier, VerifyTier, RestoreShape
<1>2. CASE Abandon
  BY <1>1, <1>2, AbandonMoves
<1>3. CASE VerifyTier /\ GiveUpTier
  BY <1>1, <1>3, GiveUpTierMoves
<1>4. CASE ~Abandon /\ ~(VerifyTier /\ GiveUpTier)
  <2>1. helper' = helper /\ files' = files
        /\ \/ worker' = [worker EXCEPT !.pc = "confirmed"]
           \/ worker' = [worker EXCEPT !.pc = "verify"]
           \/ worker' = [worker EXCEPT !.pc = "attempt", !.attempt = 2]
    BY <1>4 DEF AttemptTier, VerifyTier, RecoveryStep
  <2>2. /\ worker'.pc \in Trying /\ worker'.golden_first = worker.golden_first
        /\ worker'.tier = worker.tier /\ worker'.loaded = worker.loaded
    BY <1>1, <2>1 DEF IsWorker, IsRecord, WorkerMembers, Trying
  <2> DEFINE w == worker'
  <2>3. worker.pc \in Trying /\ worker.pc # "confirmed"
    BY <1>1 DEF Trying
  <2> QED BY <2>1, <2>2, <2>3, GoesOnMoves
<1> QED BY <1>2, <1>3, <1>4

LEMMA SettleMoves == ASSUME RestoreShape, SettleConfirmed PROVE Works
<1>1. worker.pc = "confirmed" /\ IsWorker(worker) /\ IsHelper(helper) /\ worker.golden_first \in BOOLEAN
  BY DEF SettleConfirmed, RestoreShape, IsWorker, WorkerTyped
<1>2. CASE helper.cancel
  BY <1>1, <1>2, AbandonMoves DEF SettleConfirmed
<1>3. CASE ~helper.cancel
  <2>1. PICK copied, removed, removed_previous \in BOOLEAN :
           /\ files' = FilesAfter(worker.tier, copied, removed, removed_previous)
           /\ Conclude(files')
    BY <1>3 DEF SettleConfirmed
  <2> DEFINE wasted == GoldenStillPending(files')
                       /\ helper.fallbacks + 1 < kGoldenFallbackCompletionThreshold
             success == ~wasted
             count == IF wasted THEN helper.fallbacks + 1 ELSE 0
             guard == IF worker.tier = "golden" THEN helper.guard ELSE GuardWindow
  <2>2. /\ helper' = [helper EXCEPT !.fallbacks = count, !.guard = guard]
        /\ worker' = [worker EXCEPT !.pc = "done", !.success = success]
    BY <2>1 DEF Conclude, RecoveryStep, Finish
  <2>3. wasted => /\ count = helper.fallbacks + 1 /\ count < kGoldenFallbackCompletionThreshold
                  /\ worker.golden_first = TRUE
    BY <1>1 DEF GoldenStillPending
  <2>4. success \in BOOLEAN /\ (success \/ wasted)
    OBVIOUS
  <2> HIDE DEF wasted, success, count, guard
  <2>5. /\ helper'.mode = helper.mode /\ helper'.scheduler = helper.scheduler
        /\ helper'.heartbeat = helper.heartbeat /\ helper'.connected = helper.connected
        /\ helper'.queued = helper.queued /\ helper'.cancel = helper.cancel
        /\ helper'.fallbacks = count
    BY <1>1, <2>2 DEF IsHelper, IsRecord, HelperMembers
  <2>6. worker'.pc = "done" /\ worker'.success = success
    BY <1>1, <2>2 DEF IsWorker, IsRecord, WorkerMembers
  <2>7. Settled
    BY <1>1, <2>1, <2>6 DEF Settled
  <2>8. EndsUnwasted \/ EndsWasted
    <3>1. CASE success
      BY <2>6, <3>1 DEF EndsUnwasted
    <3>2. CASE wasted
      BY <1>1, <2>3, <2>5, <2>6, <3>2 DEF EndsWasted
    <3> QED BY <2>4, <3>1, <3>2
  <2>9. LoadedIsKept'
    BY <2>6 DEF LoadedIsKept, Trying
  <2> QED BY <1>1, <2>5, <2>6, <2>7, <2>8, <2>9 DEF Works
<1> QED BY <1>2, <1>3

LEMMA WorkerMoves == ASSUME RestoreShape, Discipline, WorkerStep PROVE Works
<1>1. CASE ValidateRecovery
  <2> DEFINE success == ~helper.cancel /\ desk = worker.loaded
  <2>1. /\ worker.pc = "validate" /\ worker' = [worker EXCEPT !.pc = "validated", !.success = success]
        /\ helper' = helper /\ files' = files
    BY <1>1 DEF ValidateRecovery, RecoveryStep
  <2> HIDE DEF success
  <2>2. worker'.pc = "validated"
    BY <2>1 DEF RestoreShape, IsWorker, IsRecord, WorkerMembers
  <2> QED BY <2>1, <2>2 DEF Works, GoesOn, Unwasted, LoadedIsKept, Trying
<1> QED BY <1>1, GraceEndsMoves, LoadTierMoves, TryTierMoves, SettleMoves DEF WorkerStep, Discipline

--------------------------------------------------------------------------------
(* Every step of the system, as the invariants see it.                                    *)

Elapsed ==
    /\ helper'.mode = helper.mode /\ helper'.fallbacks = helper.fallbacks
    /\ helper'.queued = helper.queued /\ helper'.cancel = helper.cancel
    /\ helper'.connected = helper.connected
    /\ helper'.scheduler = ElapseScheduler(helper.scheduler)
    /\ helper'.heartbeat = ElapseHeartbeat(helper.heartbeat)
    /\ worker'.pc = worker.pc /\ worker'.golden_first = worker.golden_first
    /\ worker'.tier = worker.tier /\ worker'.loaded = worker.loaded
    /\ files' = files

Moves ==
    /\ QueueKept /\ (host'.pc = "snapshot" => host.pc \in {"idle", "snapshot"})
    /\ \/ Unmoved \/ Released \/ Owed
       \/ Lent /\ host'.pc # "snapshot"
       \/ /\ Recaptured
          /\ \/ host.pc = "snapshot" /\ host'.pc = "apply"
             \/ files'["current"] = files["current"]
       \/ (Failed \/ Streams \/ Validates) /\ worker.pc \in Completed
       \/ \E s : Polled(s)
       \/ Noted \/ Works \/ Elapsed

(* What becomes of the heartbeat of a connection.                                         *)
HeartbeatMoves(contact, elapsed) ==
    \/ HeartbeatSet /\ elapsed = 0 /\ (contact => Heard)
    \/ /\ helper'.connected = helper.connected
       /\ \/ helper'.heartbeat = RecordPing(helper.heartbeat) /\ elapsed = 0
          \/ /\ helper'.heartbeat = CheckTimeout(helper.heartbeat) /\ elapsed = 0 /\ ~contact
             /\ Missed(helper.heartbeat) \/ ~helper.connected
          \/ helper'.heartbeat = ElapseHeartbeat(helper.heartbeat) /\ elapsed = 1 /\ ~contact

(* What becomes of the scheduler.                                                         *)
SchedulerMoves(prompt, elapsed) ==
    \/ /\ helper'.scheduler \in {helper.scheduler, Disarmed, ReportExpired(helper.scheduler)}
       /\ helper'.mode = "EventLoop" => helper.mode = "EventLoop"
       /\ elapsed = 0
    \/ Owed /\ (prompt \/ Drained)
    \/ Failed /\ elapsed = 0
    \/ Polled(OnDisplayEvent(helper.scheduler)) /\ prompt /\ elapsed = 0
    \/ Elapsed /\ elapsed = 1

LEMMA QuietMoves ==
    ASSUME Discipline, HeartbeatSet, Unmoved \/ Released \/ Lent \/ Recaptured \/ Streams \/ Validates, NEW prompt
    PROVE  /\ HeartbeatMoves(FALSE, 0) /\ SchedulerMoves(prompt, 0)
           /\ \A contact : (contact => Heard) => HeartbeatMoves(contact, 0)
<1>1. helper'.scheduler \in {helper.scheduler, Disarmed}
  BY DEF Unmoved, Released, Lent, Recaptured, Streams, Validates, SchedulerKept
<1>2. helper'.mode = "EventLoop" => helper.mode = "EventLoop"
  BY DEF Unmoved, Released, Lent, Recaptured, Streams, Validates, AtRest
<1> QED BY <1>1, <1>2 DEF HeartbeatMoves, SchedulerMoves

LEMMA TickMoves ==
    ASSUME RestoreShape, Discipline, Tick
    PROVE  Moves /\ HeartbeatMoves(FALSE, 1) /\ SchedulerMoves(FALSE, 1)
<1>1. IsHelper(helper) /\ IsWorker(worker) /\ HostTyped
  BY DEF RestoreShape
<1> DEFINE s == ElapseScheduler(helper.scheduler)
           hb == ElapseHeartbeat(helper.heartbeat)
           guard == IF helper.guard = 0 THEN 0 ELSE helper.guard - 1
           grace == IF worker.grace = 0 THEN 0 ELSE worker.grace - 1
           since == IF host.since = TerminateWindow THEN host.since ELSE host.since + 1
<1>2. /\ helper' = [helper EXCEPT !.scheduler = s, !.heartbeat = hb, !.guard = guard]
      /\ worker' = [worker EXCEPT !.grace = grace] /\ host' = [host EXCEPT !.since = since, !.tried = FALSE]
      /\ files' = files
  BY DEF Tick
<1> HIDE DEF s, hb, guard, grace, since
<1>3. /\ helper'.mode = helper.mode /\ helper'.fallbacks = helper.fallbacks
      /\ helper'.queued = helper.queued /\ helper'.cancel = helper.cancel
      /\ helper'.connected = helper.connected /\ helper'.scheduler = s /\ helper'.heartbeat = hb
  BY <1>1, <1>2 DEF IsHelper, IsRecord, HelperMembers
<1>4. /\ worker'.pc = worker.pc /\ worker'.golden_first = worker.golden_first
      /\ worker'.tier = worker.tier /\ worker'.loaded = worker.loaded
  BY <1>1, <1>2 DEF IsWorker, IsRecord, WorkerMembers
<1>5. host'.pc = host.pc
  BY <1>1, <1>2 DEF HostTyped, IsRecord, HostMembers
<1>6. Elapsed
  BY <1>2, <1>3, <1>4 DEF Elapsed, s, hb
<1>7. QueueKept
  BY <1>3, <1>4, <1>5 DEF QueueKept, QueueCancels, ApplyIsCurrent, Discipline
<1> QED BY <1>5, <1>6, <1>7 DEF Moves, HeartbeatMoves, SchedulerMoves, Elapsed

(* Ping and the supervision of the heartbeat change nothing else.                          *)
LEMMA HeartbeatOnly ==
    ASSUME RestoreShape, Discipline, NEW hb, helper' = [helper EXCEPT !.heartbeat = hb],
           UNCHANGED <<files, worker, host>>
    PROVE  /\ Moves /\ helper'.connected = helper.connected /\ helper'.heartbeat = hb
           /\ \A prompt : SchedulerMoves(prompt, 0)
<1>1. /\ helper'.mode = helper.mode /\ helper'.fallbacks = helper.fallbacks
      /\ helper'.queued = helper.queued /\ helper'.cancel = helper.cancel
      /\ helper'.connected = helper.connected /\ helper'.scheduler = helper.scheduler
      /\ helper'.heartbeat = hb
  BY DEF RestoreShape, IsHelper, IsRecord, HelperMembers
<1>2. QueueKept
  BY <1>1 DEF QueueKept, QueueCancels, ApplyIsCurrent, Discipline
<1>3. Unmoved
  BY <1>1 DEF Unmoved, SchedulerKept, WorkerKept
<1> QED BY <1>1, <1>2, <1>3 DEF Moves, SchedulerMoves

(* The helper, its worker and the files as they were.                                      *)
LEMMA NothingMoves ==
    ASSUME Discipline, UNCHANGED <<files, helper, worker>>, host'.pc # "snapshot" \/ host' = host,
           helper.queued.kind = "apply" => host'.pc \in {"streaming", "down"}, NEW prompt
    PROVE  Moves /\ HeartbeatMoves(FALSE, 0) /\ SchedulerMoves(prompt, 0)
<1>1. Unmoved /\ HeartbeatSet
  BY DEF Unmoved, SchedulerKept, WorkerKept, HeartbeatSet
<1>2. QueueKept
  BY DEF QueueKept, QueueCancels, ApplyIsCurrent, Discipline
<1> QED BY <1>1, <1>2, QuietMoves DEF Moves

LEMMA WorkerActsMoves ==
    ASSUME RestoreShape, Discipline, WorkerActs
    PROVE  Moves /\ HeartbeatMoves(FALSE, 0) /\ SchedulerMoves(FALSE, 0)
<1>1. Works /\ host' = host
  BY WorkerMoves DEF WorkerActs
<1>2. QueueKept
  BY <1>1 DEF Works, QueueKept, QueueCancels, ApplyIsCurrent, Discipline
<1>3. HeartbeatMoves(FALSE, 0) /\ SchedulerMoves(FALSE, 0)
  BY <1>1 DEF Works, HeartbeatMoves, HeartbeatSet, SchedulerMoves
<1> QED BY <1>1, <1>2, <1>3 DEF Moves

LEMMA HelperActsMoves ==
    ASSUME RestoreShape, Discipline, HelperActs
    PROVE  Moves /\ HeartbeatMoves(FALSE, 0) /\ SchedulerMoves(FALSE, 0)
<1>1. HelperMoves /\ host' = host
  BY ApplyCompletedMoves, RecoveryCompletedMoves, RecoveryValidationCompletedMoves DEF HelperActs, HelperStep
<1>2. helper.queued.kind = "apply" => host.pc # "snapshot"
  BY DEF Discipline, ApplyIsCurrent
<1>3. Moves
  BY <1>1, <1>2 DEF HelperMoves, Moves
<1>4. CASE Unmoved \/ Released \/ Lent \/ Streams \/ Validates
  BY <1>1, <1>3, <1>4, QuietMoves DEF HelperMoves
<1>5. CASE (Owed /\ Drained) \/ Failed
  BY <1>1, <1>3, <1>5 DEF HelperMoves, HeartbeatMoves, SchedulerMoves
<1> QED BY <1>1, <1>4, <1>5 DEF HelperMoves

LEMMA LaunchMoves ==
    ASSUME RestoreShape, Discipline, BeginLaunch \/ Join
    PROVE  Moves /\ HeartbeatMoves(FALSE, 0) /\ SchedulerMoves(TRUE, 0)
<1>1. HeartbeatSet /\ (Unmoved \/ Released) /\ QueueKept /\ (host'.pc = "snapshot" => host.pc = "idle")
  <2>1. CASE BeginLaunch
    <3>1. host.pc = "idle" /\ Disarming("snapshot")
      BY <2>1 DEF BeginLaunch
    <3> QED BY <3>1, DisarmingMoves
  <2>2. CASE Join
    <3>1. host.pc = "streaming" /\ Disarming("streaming")
      BY <2>2 DEF Join
    <3> QED BY <3>1, DisarmingMoves
  <2> QED BY <2>1, <2>2
<1> QED BY <1>1, QuietMoves DEF Moves

LEMMA SnapshotAll ==
    ASSUME RestoreShape, Discipline, SnapshotCurrentDisplayState
    PROVE  Moves /\ HeartbeatMoves(~RestoreExpected, 0) /\ SchedulerMoves(TRUE, 0)
<1>1. /\ HeartbeatSet /\ QueueKept /\ (Unmoved \/ Released \/ Recaptured)
      /\ host.pc = "snapshot" /\ host'.pc = "apply" /\ (~RestoreExpected => Heard)
  BY SnapshotMoves
<1>2. HeartbeatMoves(~RestoreExpected, 0) /\ SchedulerMoves(TRUE, 0)
  BY <1>1, QuietMoves
<1> QED BY <1>1, <1>2 DEF Moves

LEMMA HostRequestMoves ==
    ASSUME RestoreShape, Discipline, HostRequest
    PROVE  Moves /\ HeartbeatMoves(TRUE, 0) /\ SchedulerMoves(TRUE, 0)
<1>1. CASE ApplyInternal
  <2>1. HeartbeatSet /\ Heard /\ QueueKept /\ (Unmoved \/ Released \/ Lent) /\ host'.pc = "streaming"
    BY <1>1, ApplyInternalMoves
  <2> QED BY <2>1, QuietMoves DEF Moves
<1>2. CASE RevertRequest
  <2>1. HeartbeatSet /\ Heard /\ QueueKept /\ (Unmoved \/ Released \/ Owed) /\ host'.pc = "idle"
    BY <1>2, RevertMoves
  <2>2. CASE Unmoved \/ Released
    BY <2>1, <2>2, QuietMoves DEF Moves
  <2>3. CASE Owed
    BY <2>1, <2>3 DEF Moves, HeartbeatMoves, SchedulerMoves
  <2> QED BY <2>1, <2>2, <2>3
<1>3. CASE ExportGolden
  <2>1. /\ HeartbeatSet /\ Heard /\ QueueKept /\ (Unmoved \/ Released \/ Recaptured)
        /\ files'["current"] = files["current"] /\ host' = host /\ host.pc = "idle"
    BY <1>3, ExportMoves DEF ExportGolden
  <2> QED BY <2>1, QuietMoves DEF Moves
<1> QED BY <1>1, <1>2, <1>3 DEF HostRequest

LEMMA ContactMoves ==
    ASSUME RestoreShape, Discipline, Ping \/ Reconnect
    PROVE  Moves /\ HeartbeatMoves(TRUE, 0) /\ SchedulerMoves(FALSE, 0)
<1>1. CASE Ping
  <2> DEFINE hb == RecordPing(helper.heartbeat)
  <2>1. helper' = [helper EXCEPT !.heartbeat = hb] /\ UNCHANGED <<files, worker, host>>
    BY <1>1 DEF Ping, Pinged
  <2> HIDE DEF hb
  <2>2. Moves /\ helper'.connected = helper.connected /\ helper'.heartbeat = hb /\ SchedulerMoves(FALSE, 0)
    BY <2>1, HeartbeatOnly
  <2> QED BY <2>2 DEF HeartbeatMoves, hb
<1>2. CASE Reconnect
  <2>1. helper' = Started /\ worker' = worker /\ files' = files /\ ~helper.connected /\ host.pc = "streaming" /\ host' = host
    BY <1>2 DEF Reconnect
  <2>2. /\ HeartbeatSet /\ Heard /\ QueueCancels' /\ helper'.connected = TRUE
        /\ Unmoved \/ Released
    BY <2>1, StartedOnly
  <2>3. Moves
    BY <2>1, <2>2 DEF Moves, QueueKept, ApplyIsCurrent
  <2>4. SchedulerMoves(FALSE, 0)
    BY <2>2, QuietMoves
  <2> QED BY <2>2, <2>3, <2>4 DEF HeartbeatMoves
<1> QED BY <1>1, <1>2

LEMMA EventMoves ==
    ASSUME RestoreShape, Discipline, SeeDisplayEvent \/ ConnectionBreaks
    PROVE  Moves /\ HeartbeatMoves(FALSE, 0) /\ SchedulerMoves(TRUE, 0)
<1>1. CASE SeeDisplayEvent
  <2>1. Polled(OnDisplayEvent(helper.scheduler)) /\ host' = host
    BY <1>1, TimerMoves DEF SeeDisplayEvent
  <2>2. HeartbeatSet /\ QueueKept
    BY <2>1 DEF Polled
  <2> QED BY <2>1, <2>2 DEF Moves, HeartbeatMoves, SchedulerMoves
<1>2. CASE ConnectionBreaks
  <2>1. HeartbeatSet /\ QueueKept /\ (Unmoved \/ Released \/ Owed) /\ host' = host
    BY <1>2, LoseMoves DEF ConnectionBreaks
  <2>2. CASE Unmoved \/ Released
    BY <2>1, <2>2, QuietMoves DEF Moves
  <2>3. CASE Owed
    BY <2>1, <2>3 DEF Moves, HeartbeatMoves, SchedulerMoves
  <2> QED BY <2>1, <2>2, <2>3
<1> QED BY <1>1, <1>2

LEMMA TimersMove ==
    ASSUME RestoreShape, Discipline, Supervise \/ Poll
    PROVE  Moves /\ HeartbeatMoves(FALSE, 0) /\ SchedulerMoves(FALSE, 0)
<1>1. CASE Supervise
  <2> DEFINE hb == CheckTimeout(helper.heartbeat)
  <2>1. /\ helper' = [helper EXCEPT !.heartbeat = hb] /\ UNCHANGED <<files, worker, host>>
        /\ Missed(helper.heartbeat) \/ ~helper.connected
    BY <1>1 DEF Supervise, CheckHeartbeat
  <2> HIDE DEF hb
  <2>2. Moves /\ helper'.connected = helper.connected /\ helper'.heartbeat = hb /\ SchedulerMoves(FALSE, 0)
    BY <2>1, HeartbeatOnly
  <2> QED BY <2>1, <2>2 DEF HeartbeatMoves, hb
<1>2. CASE Poll
  <2>1. host' = host /\ (Noted \/ Polled(helper.scheduler))
    BY <1>2, TimerMoves DEF Poll
  <2>2. HeartbeatSet /\ QueueKept
    BY <2>1 DEF Noted, Polled
  <2>3. SchedulerMoves(FALSE, 0)
    <3>1. helper'.scheduler \in {helper.scheduler, ReportExpired(helper.scheduler)}
      BY <2>1 DEF Noted, Polled
    <3>2. helper'.mode = "EventLoop" => helper.mode = "EventLoop"
      BY <2>1 DEF Noted, Polled
    <3> QED BY <3>1, <3>2 DEF SchedulerMoves
  <2> QED BY <2>1, <2>2, <2>3 DEF Moves, HeartbeatMoves
<1> QED BY <1>1, <1>2

LEMMA MachineMoves ==
    ASSUME RestoreShape, Discipline, MachineStep \/ Fault
    PROVE  Moves /\ HeartbeatMoves(FALSE, 0) /\ SchedulerMoves(FALSE, 0)
<1>1. CASE HelperDies
  <2>1. /\ helper'.mode = "Exited" /\ helper'.queued = NoCommand /\ helper'.cancel = FALSE
        /\ helper'.heartbeat = HeartbeatOff /\ helper'.scheduler = Disarmed
        /\ worker'.pc = "none" /\ files' = files /\ host' = host
    BY <1>1 DEF HelperDies, NotRunning, Fresh, Idle
  <2>2. Released /\ HeartbeatSet
    BY <2>1 DEF Released, HeartbeatSet, Heard, AtRest, SchedulerKept
  <2>3. QueueKept
    BY <2>1, DrainedQueue DEF QueueCancels
  <2> QED BY <2>1, <2>2, <2>3, QuietMoves DEF Moves
<1>2. CASE Unplug \/ Plug \/ Arrange \/ HostDies \/ HostStarts
  <2>1. UNCHANGED <<files, helper, worker>>
    BY <1>2 DEF Unplug, Plug, Arrange, HostDies, HostStarts, engineVars
  <2>2. host' = host \/ host'.pc = "down" \/ (host'.pc = "idle" /\ ~helper.connected)
    BY <1>2 DEF Unplug, Plug, Arrange, HostDies, HostStarts, RestoreShape, HostTyped, IsRecord, HostMembers
  <2>3. helper.queued.kind = "apply" => host'.pc \in {"streaming", "down"}
    BY <2>2 DEF Discipline, ApplyIsCurrent
  <2> QED BY <2>1, <2>2, <2>3, NothingMoves
<1> QED BY <1>1, <1>2 DEF MachineStep, Fault

LEMMA StepMoves ==
    ASSUME RestoreShape, Discipline, Next
    PROVE  \E prompt, contact \in BOOLEAN, elapsed \in {0, 1}, incidents \in {0, 1} :
              /\ Observe(prompt, contact, elapsed, incidents)
              /\ Moves /\ HeartbeatMoves(contact, elapsed) /\ SchedulerMoves(prompt, elapsed)
<1>1. CASE BeginLaunch /\ Observe(TRUE, FALSE, 0, 1)
  BY <1>1, LaunchMoves
<1>2. CASE Join /\ Observe(TRUE, FALSE, 0, 0)
  BY <1>2, LaunchMoves
<1>3. CASE SnapshotCurrentDisplayState /\ Observe(TRUE, ~RestoreExpected, 0, 0)
  <2> DEFINE contact == ~RestoreExpected
  <2>1. contact \in BOOLEAN /\ Observe(TRUE, contact, 0, 0) /\ Moves /\ HeartbeatMoves(contact, 0)
        /\ SchedulerMoves(TRUE, 0)
    BY <1>3, SnapshotAll
  <2> HIDE DEF contact
  <2> QED BY <2>1
<1>9. CASE HostRequest /\ Observe(TRUE, TRUE, 0, 0)
  BY <1>9, HostRequestMoves
<1>4. CASE (Ping \/ Reconnect) /\ Observe(FALSE, TRUE, 0, 0)
  BY <1>4, ContactMoves
<1>5. CASE (SeeDisplayEvent \/ ConnectionBreaks) /\ Observe(TRUE, FALSE, 0, 0)
  BY <1>5, EventMoves
<1>6. CASE (HelperActs \/ Supervise \/ Poll \/ WorkerActs \/ MachineStep) /\ Observe(FALSE, FALSE, 0, 0)
  BY <1>6, HelperActsMoves, TimersMove, WorkerActsMoves, MachineMoves
<1>7. CASE Tick /\ Observe(FALSE, FALSE, 1, 0)
  BY <1>7, TickMoves
<1>8. CASE Fault /\ Observe(FALSE, FALSE, 0, 1)
  BY <1>8, MachineMoves
<1> QED BY <1>1, <1>2, <1>3, <1>4, <1>5, <1>6, <1>7, <1>8, <1>9 DEF Next

--------------------------------------------------------------------------------
(* The discipline between worker, mode and queue.                                         *)

LEMMA DisciplineStep == ASSUME RestoreShape, Discipline, Moves PROVE Discipline'
<1>1. QueueCancels' /\ ApplyIsCurrent'
  BY DEF Moves, QueueKept
<1>2. CASE Unmoved
  BY <1>1, <1>2 DEF Unmoved, WorkerKept, Discipline, WorkerInMode, LoadedIsKept, Idle, Trying
<1>3. CASE Released
  BY <1>1, <1>3 DEF Released, Discipline, WorkerInMode, LoadedIsKept, Trying
<1>4. CASE Lent
  BY <1>1, <1>4 DEF Lent, Discipline, WorkerInMode, LoadedIsKept, Trying
<1>5. CASE Owed
  BY <1>1, <1>5 DEF Owed, Discipline, WorkerInMode, LoadedIsKept, Trying
<1>6. CASE Recaptured
  <2>1. worker.pc \in {"none", "apply"} /\ (AtRest(helper) => worker.pc = "none")
    BY <1>6 DEF Recaptured, RestorePending, Discipline, WorkerInMode, AtRest
  <2> QED BY <1>1, <1>6, <2>1 DEF Recaptured, Discipline, WorkerInMode, LoadedIsKept, Trying
<1>7. CASE Failed \/ Streams
  BY <1>1, <1>7 DEF Failed, Streams, Discipline, WorkerInMode, LoadedIsKept, Idle, Trying
<1>8. CASE Validates \/ \E s : Polled(s)
  BY <1>1, <1>8 DEF Validates, Polled, Discipline, WorkerInMode, LoadedIsKept, Trying
<1>9. CASE Noted
  BY <1>1, <1>9 DEF Noted, Discipline, WorkerInMode, LoadedIsKept
<1>10. CASE Works
  BY <1>1, <1>10 DEF Works, Discipline, WorkerInMode
<1>11. CASE Elapsed
  BY <1>1, <1>11 DEF Elapsed, Discipline, WorkerInMode, LoadedIsKept
<1> QED BY <1>2, <1>3, <1>4, <1>5, <1>6, <1>7, <1>8, <1>9, <1>10, <1>11 DEF Moves

--------------------------------------------------------------------------------
(* The restores thrown away.                                                              *)

LEMMA WastedStep ==
    ASSUME RestoreShape, RestoreShape', Discipline, WastedCounted, Moves,
           NEW prompt, NEW contact, NEW elapsed, NEW incidents, Observe(prompt, contact, elapsed, incidents)
    PROVE  WastedCounted'
<1> DEFINE n == history.wasted
           bound == kGoldenFallbackCompletionThreshold
<1>1. /\ history'.wasted =
           IF Drained \/ ~RestorePending(helper') THEN 0
           ELSE IF worker.pc # "done" /\ worker'.pc = "done"
           THEN IF worker.pc = "confirmed" /\ ~helper.cancel /\ ~worker'.success THEN Most(n + 1, bound) ELSE 0
           ELSE n
      /\ n \in Nat /\ n < bound /\ bound = 3
  BY DEF Observe, WastedCounted, kGoldenFallbackCompletionThreshold
<1>2. helper.fallbacks \in Nat /\ helper'.fallbacks \in Nat
  BY DEF RestoreShape, IsHelper, HelperTyped
<1> DEFINE wasted == history'.wasted
<1>3. SUFFICES ASSUME wasted # 0, ~Drained, RestorePending(helper')
               PROVE  wasted \in Nat /\ wasted < bound /\ (wasted <= helper'.fallbacks \/ Unwasted')
  <2>1. CASE wasted = 0
    BY <1>1, <1>2, <2>1 DEF WastedCounted
  <2>2. CASE wasted # 0
    <3>1. wasted \in Nat /\ wasted < bound /\ (wasted <= helper'.fallbacks \/ Unwasted') /\ RestorePending(helper')
      BY <1>1, <1>3, <2>2
    <3> QED BY <3>1 DEF WastedCounted, Unwasted
  <2> QED BY <2>1, <2>2
<1>4. n <= helper.fallbacks \/ Unwasted
  BY DEF WastedCounted, Unwasted
<1>5. ~RestorePending(helper) => n = 0
  BY DEF WastedCounted
<1>6. CASE Works
  <2>1. worker.pc # "done"
    BY <1>6 DEF Works
  <2>2. CASE EndsUnwasted
    BY <1>1, <1>3, <2>1, <2>2 DEF EndsUnwasted
  <2>3. CASE EndsWasted
    <3>1. n <= helper.fallbacks
      BY <1>4, <2>3 DEF EndsWasted, Unwasted
    <3>2. wasted = Most(n + 1, bound)
      BY <1>1, <1>3, <2>1, <2>3 DEF EndsWasted
    <3>3. helper'.fallbacks = helper.fallbacks + 1 /\ helper'.fallbacks < bound
      BY <2>3 DEF EndsWasted
    <3> HIDE DEF wasted, n, bound
    <3>4. n + 1 <= helper'.fallbacks /\ Most(n + 1, bound) = n + 1
      BY <1>1, <1>2, <3>1, <3>3 DEF Most, n, bound
    <3> QED BY <1>1, <1>2, <3>2, <3>3, <3>4 DEF n, bound
  <2>4. CASE GoesOn
    BY <1>1, <1>3, <1>4, <2>4 DEF GoesOn
  <2>5. CASE SetsOut
    BY <1>1, <1>3, <2>5 DEF SetsOut, Unwasted
  <2> QED BY <1>6, <2>2, <2>3, <2>4, <2>5 DEF Works
<1>7. CASE ~Works
  <2>1. /\ worker'.pc = "done" => worker.pc = "done"
        /\ RestorePending(helper) => helper'.fallbacks = helper.fallbacks
        /\ RestorePending(helper) /\ Unwasted => Unwasted'
    <3>1. CASE Unmoved
      BY <1>3, <3>1 DEF Unmoved, WorkerKept, Completed, Unwasted, Trying, Idle
    <3>2. CASE Released \/ Lent
      BY <1>3, <3>2 DEF Released, Lent, RestorePending, AtRest
    <3>3. CASE Owed
      BY <1>3, <3>3 DEF Owed, FallbacksKept, WorkerGone, Completed, Unwasted, Trying
    <3>4. CASE Recaptured
      BY <1>3, <3>4 DEF Recaptured, RestorePending, AtRest
    <3>5. CASE (Failed \/ Streams \/ Validates) /\ worker.pc \in Completed
      <4>1. ~Unwasted /\ worker'.pc # "done"
        BY <3>5 DEF Failed, Streams, Validates, Completed, Unwasted, Trying, Idle
      <4>2. ~Streams
        BY <1>3 DEF Streams, RestorePending
      <4> QED BY <3>5, <4>1, <4>2 DEF Failed, Validates
    <3>6. CASE \E s : Polled(s)
      BY <3>6 DEF Polled, Discipline, WorkerInMode, Unwasted, Trying
    <3>7. CASE Noted \/ Elapsed
      BY <3>7 DEF Noted, Elapsed, Unwasted
    <3> QED BY <1>7, <3>1, <3>2, <3>3, <3>4, <3>5, <3>6, <3>7 DEF Moves
  <2>2. wasted = n
    BY <1>1, <1>3, <2>1
  <2>3. RestorePending(helper)
    BY <1>3, <1>5, <2>2
  <2> QED BY <1>1, <1>4, <2>1, <2>2, <2>3
<1> QED BY <1>6, <1>7

--------------------------------------------------------------------------------
(* The user's layout.                                                                     *)

LEMMA BaselineStep ==
    ASSUME RestoreShape, Discipline, BaselineSafe, Moves,
           NEW prompt, NEW contact, NEW elapsed, NEW incidents, Observe(prompt, contact, elapsed, incidents)
    PROVE  BaselineSafe'
<1> DEFINE before == history.baseline
           after == history'.baseline
           free == before = NoSnapshot \/ history.released
<1>1. /\ after = BaselineAfter
      /\ history'.released <=> /\ ~Confirmed /\ ~ApplyBegins /\ after # NoSnapshot
                               /\ (history.released \/ GivenUp)
  BY DEF Observe
<1>2. CASE Confirmed
  BY <1>1, <1>2 DEF BaselineAfter, BaselineSafe, BaselineKept
<1>3. CASE ~Confirmed /\ ApplyBegins
  <2>1. /\ Lent \/ files'["current"] = files["current"]
        /\ host'.pc # "snapshot" /\ worker'.pc # "confirmed"
    <3>1. CASE helper.mode # "Applying"
      <4>1. Lent /\ host'.pc # "snapshot"
        BY <1>3, <3>1 DEF Moves, ApplyBegins, Unmoved, Released, Owed, Recaptured, Failed, Streams,
                          Validates, Polled, Noted, Works, Elapsed, AtRest
      <4> QED BY <4>1 DEF Lent
    <3>2. CASE helper.mode = "Applying"
      <4>1. helper.queued.kind = "apply" /\ Drained /\ helper'.mode = "Applying"
        BY <1>3, <3>2 DEF ApplyBegins
      <4>2. host'.pc # "snapshot" /\ host.pc # "snapshot"
        BY <4>1 DEF Discipline, ApplyIsCurrent, Moves
      <4>3. worker.pc \in {"none", "apply"}
        BY <3>2 DEF Discipline, WorkerInMode
      <4>4. Lent \/ (files'["current"] = files["current"] /\ worker'.pc \in {"none", "apply"})
        <5>1. CASE Unmoved \/ Noted \/ Elapsed
          BY <4>3, <5>1 DEF Unmoved, Noted, Elapsed, WorkerKept, Idle
        <5>2. CASE Recaptured /\ files'["current"] = files["current"]
          BY <4>3, <5>2 DEF Recaptured
        <5>3. Lent \/ Unmoved \/ Noted \/ Elapsed \/ (Recaptured /\ files'["current"] = files["current"])
          BY <3>2, <4>1, <4>2, <4>3 DEF Moves, Released, Owed, Failed, Streams, Validates, Polled, Works,
                                        AtRest, RestorePending
        <5> QED BY <5>1, <5>2, <5>3
      <4> QED BY <4>2, <4>4 DEF Lent
    <3> QED BY <3>1, <3>2
  <2>2. CASE free
    <3>1. after \in {files'["current"], NoSnapshot}
      BY <1>1, <1>3, <2>2 DEF BaselineAfter
    <3> QED BY <2>1, <3>1 DEF BaselineSafe, BaselineKept
  <2>3. CASE ~free
    <3>1. after = before /\ files["current"] = before /\ before # NoSnapshot
      BY <1>1, <1>3, <2>3 DEF BaselineAfter, BaselineSafe, BaselineKept
    <3>2. files'["current"] = files["current"]
      BY <2>1, <3>1 DEF Lent
    <3> QED BY <2>1, <3>1, <3>2 DEF BaselineSafe, BaselineKept
  <2> QED BY <2>2, <2>3
<1>4. CASE ~Confirmed /\ ~ApplyBegins
  <2>1. after = before /\ (history'.released <=> after # NoSnapshot /\ (history.released \/ GivenUp))
    BY <1>1, <1>4 DEF BaselineAfter
  <2>2. CASE before = NoSnapshot
    BY <2>1, <2>2 DEF BaselineSafe, BaselineKept
  <2>3. CASE history'.released
    <3>1. worker'.pc # "confirmed" \/ after = NoSnapshot
      BY <1>4, <2>1 DEF Confirmed, BaselineSafe
    <3> QED BY <2>3, <3>1 DEF BaselineSafe, BaselineKept
  <2>4. CASE before # NoSnapshot /\ ~history'.released
    <3>1. /\ ~history.released /\ ~GivenUp /\ files["current"] = before /\ worker.pc # "confirmed"
          /\ (host.pc = "snapshot" => RestorePending(helper))
      BY <2>1, <2>4 DEF BaselineSafe, BaselineKept
    <3>2. worker'.pc # "confirmed"
      BY <1>4, <3>1 DEF Confirmed
    <3>3. files'["current"] = before
      <4>1. CASE files' = files
        BY <3>1, <4>1
      <4>2. CASE Lent
        BY <2>4, <3>1, <4>2 DEF Lent
      <4>3. CASE Recaptured /\ (host.pc = "snapshot" \/ files'["current"] = files["current"])
        BY <3>1, <4>3 DEF Recaptured
      <4>4. CASE Works
        BY <3>1, <4>4 DEF Works, Settled
      <4> QED BY <4>1, <4>2, <4>3, <4>4 DEF Moves, Unmoved, Released, Owed, Failed, Streams, Validates,
                                            Polled, Noted, Elapsed
    <3>4. host'.pc = "snapshot" => RestorePending(helper')
      <4>1. CASE host'.pc = "snapshot" /\ host.pc = "idle"
        BY <3>1, <4>1 DEF GivenUp
      <4>2. CASE host'.pc = "snapshot" /\ host.pc = "snapshot"
        <5>1. RestorePending(helper) /\ ~AtRest(helper')
          BY <3>1, <4>2 DEF GivenUp, RestorePending, AtRest
        <5> QED BY <4>2, <5>1 DEF Moves, Unmoved, Released, Owed, Recaptured, Failed, Streams, Validates,
                                  Polled, Noted, Works, Elapsed, RestorePending
      <4>3. host'.pc = "snapshot" => host.pc \in {"idle", "snapshot"}
        BY DEF Moves
      <4> QED BY <4>1, <4>2, <4>3
    <3> QED BY <2>1, <3>2, <3>3, <3>4 DEF BaselineSafe, BaselineKept
  <2> QED BY <2>2, <2>3, <2>4
<1> QED BY <1>2, <1>3, <1>4

--------------------------------------------------------------------------------
(* The silence.                                                                           *)

LEMMA HeardStep ==
    ASSUME RestoreShape, HeardCounted, NEW prompt, NEW contact \in BOOLEAN, NEW elapsed \in {0, 1},
           NEW incidents, Observe(prompt, contact, elapsed, incidents), HeartbeatMoves(contact, elapsed)
    PROVE  HeardCounted'
<1> DEFINE n == history.heard
           m == history'.heard
           bound == MissWindow + RecoveryWindow
           hb == helper.heartbeat
           next == helper'.heartbeat
<1>1. /\ m = IF contact \/ ~helper.connected \/ ~next.armed THEN 0 ELSE Most(n + elapsed, bound)
      /\ n \in Nat /\ bound \in Nat /\ MissWindow <= bound /\ MissWindow \in Nat /\ RecoveryWindow \in Nat
  BY Durations DEF Observe, HeardCounted
<1>2. m \in Nat /\ (contact \/ m = 0 \/ m = Most(n + elapsed, bound))
  BY <1>1 DEF Most
<1>3. /\ hb.armed \in BOOLEAN /\ hb.silent \in 0..MissWindow /\ hb.deadline \in 0..RecoveryWindow \cup {Unset}
      /\ hb = [armed |-> hb.armed, silent |-> hb.silent, optional |-> hb.optional, deadline |-> hb.deadline]
  BY DEF RestoreShape, IsHelper, HelperTyped, Heartbeat
<1>4. SUFFICES ASSUME helper'.connected, next.armed
               PROVE  /\ next.deadline = Unset => next.silent <= m
                      /\ next.deadline # Unset => bound <= m + next.deadline
  BY <1>2, <1>4 DEF HeardCounted
<1>5. /\ helper.connected /\ hb.armed /\ hb.deadline = Unset => hb.silent <= n
      /\ helper.connected /\ hb.armed /\ hb.deadline # Unset => bound <= n + hb.deadline
  BY DEF HeardCounted
<1>6. CASE next = ArmHeartbeat
  BY <1>2, <1>6 DEF ArmHeartbeat
<1>7. CASE next = HeartbeatOff
  BY <1>4, <1>7 DEF HeartbeatOff
<1>8. CASE next = hb /\ helper.connected /\ elapsed = 0 /\ ~contact
  <2>1. m = Most(n, bound)
    BY <1>1, <1>4, <1>8
  <2> HIDE DEF m, n, bound, hb, next
  <2> QED BY <1>1, <1>2, <1>3, <1>4, <1>5, <1>8, <2>1 DEF Most, Unset
<1>9. CASE next = RecordPing(hb)
  <2>1. next.silent = 0 /\ next.deadline = Unset
    BY <1>3, <1>4, <1>9 DEF RecordPing
  <2> QED BY <1>2, <2>1
<1>10. CASE /\ helper'.connected = helper.connected /\ next = CheckTimeout(hb) /\ elapsed = 0 /\ ~contact
            /\ Missed(hb) \/ ~helper.connected
  <2>1. Missed(hb) /\ helper.connected
    BY <1>4, <1>10
  <2>2. next.deadline = RecoveryWindow /\ hb.silent = MissWindow /\ hb.deadline = Unset /\ hb.armed
    BY <1>3, <1>10, <2>1 DEF CheckTimeout, Missed
  <2>3. m = Most(n, bound) /\ MissWindow <= n
    BY <1>1, <1>4, <1>5, <1>10, <2>1, <2>2
  <2>4. bound = MissWindow + RecoveryWindow
    OBVIOUS
  <2> HIDE DEF m, n, bound, hb, next
  <2> QED BY <1>1, <1>2, <2>2, <2>3, <2>4 DEF Most, Unset
<1>11. CASE helper'.connected = helper.connected /\ next = ElapseHeartbeat(hb) /\ elapsed = 1 /\ ~contact
  <2> DEFINE s == IF hb.silent = MissWindow THEN hb.silent ELSE hb.silent + 1
             o == IF hb.optional = 0 THEN 0 ELSE hb.optional - 1
             d == IF hb.deadline \in {0, Unset} THEN hb.deadline ELSE hb.deadline - 1
  <2>1. next = IF ~hb.armed THEN hb ELSE [hb EXCEPT !.silent = s, !.optional = o, !.deadline = d]
    BY <1>11 DEF ElapseHeartbeat
  <2>2. s <= hb.silent + 1 /\ s <= MissWindow /\ s \in Nat
    BY <1>1, <1>3
  <2>3. (d = Unset <=> hb.deadline = Unset) /\ (d # Unset => d \in Nat /\ hb.deadline <= d + 1)
        /\ (hb.deadline \in Nat \/ hb.deadline = Unset) /\ (hb.deadline = 0 => d = 0)
    BY <1>3 DEF Unset
  <2> HIDE DEF s, o, d
  <2>4. hb.armed /\ next.silent = s /\ next.deadline = d
    BY <1>3, <1>4, <2>1
  <2>5. m = Most(n + 1, bound)
    BY <1>1, <1>4, <1>11
  <2> HIDE DEF m, n, bound, hb, next
  <2>6. CASE d = Unset
    BY <1>1, <1>2, <1>3, <1>4, <1>5, <1>11, <2>2, <2>3, <2>4, <2>5, <2>6 DEF Most
  <2>7. CASE d # Unset
    BY <1>1, <1>2, <1>4, <1>5, <1>11, <2>3, <2>4, <2>5, <2>7 DEF Most
  <2> QED BY <2>6, <2>7
<1> QED BY <1>4, <1>6, <1>7, <1>8, <1>9, <1>10, <1>11 DEF HeartbeatMoves, HeartbeatSet, Heard

--------------------------------------------------------------------------------
(* The pauses between attempts.                                                           *)

LEMMA Backoff ==
    /\ Len(BackoffProfile) \in Nat /\ Len(BackoffProfile) >= 1 /\ LongestPause \in Nat
    /\ \A i \in 1..Len(BackoffProfile) : BackoffProfile[i] \in Nat /\ BackoffProfile[i] <= LongestPause
    /\ \A i, j \in 1..Len(BackoffProfile) : i <= j => BackoffProfile[i] <= BackoffProfile[j]
<1> DEFINE L == Len(BackoffProfile)
<1>1. /\ L \in Nat /\ L >= 1 /\ \A i \in 1..L : BackoffProfile[i] \in Nat
      /\ \A i, j \in 1..L : i <= j => BackoffProfile[i] <= BackoffProfile[j]
  BY TimingAssumption DEF TimingAssumption
<1>2. L \in 1..L /\ \A i \in 1..L : i <= L
  BY <1>1
<1> QED BY <1>1, <1>2 DEF LongestPause

LEMMA SchedulerFacts ==
    ASSUME NEW s \in Scheduler
    PROVE  /\ s.index \in 1..Len(BackoffProfile) /\ s.wait \in Nat /\ s.armed \in BOOLEAN
           /\ (s.window \in Nat \/ s.window = Expired) /\ s.index \in Nat
           /\ BackoffProfile[s.index] \in Nat /\ BackoffProfile[s.index] <= LongestPause
<1>1. s.index \in 1..Len(BackoffProfile) /\ s.wait \in Nat /\ s.armed \in BOOLEAN
      /\ (s.window \in Nat \/ s.window = Expired)
  BY DEF Scheduler, Windows
<1> QED BY <1>1, Backoff

(* The scheduler may be disarmed or told of.                                              *)
LEMMA PacedReported ==
    ASSUME NEW failed, NEW rested, NEW prompted, NEW mode, NEW s \in Scheduler,
           Paced(failed, rested, prompted, mode, s), NEW s2 \in {s, Disarmed, ReportExpired(s)}
    PROVE  Paced(failed, rested, prompted, mode, s2)
<1>1. s2.armed => s.armed /\ s2.index = s.index /\ s2.wait = s.wait /\ s2.window = s.window
  BY DEF Disarmed, ReportExpired, Scheduler
<1> QED BY <1>1 DEF Paced

(* The counts may be dropped.                                                             *)
LEMMA PacedQuiet ==
    ASSUME NEW failed, NEW rested, NEW prompted, NEW mode, NEW s \in Scheduler,
           Paced(failed, rested, prompted, mode, s),
           NEW failed2 \in {0, failed}, NEW prompted2 \in {0, Most(prompted, PrimaryWindow + 1)},
           NEW mode2, NEW rested2,
           \/ mode2 # "EventLoop" /\ rested2 = 0
           \/ mode2 = mode /\ rested2 = Most(rested, LongestPause)
    PROVE  Paced(failed2, rested2, prompted2, mode2, s)
<1>1. /\ failed \in Nat /\ rested \in Nat /\ prompted \in Nat
  BY DEF Paced
<1>2. failed2 \in Nat /\ failed2 <= failed /\ rested2 \in Nat /\ prompted2 \in Nat /\ prompted2 <= prompted
      /\ (mode2 # "EventLoop" => rested2 = 0)
  BY <1>1, Backoff, Durations DEF Most, Paced
<1>3. ASSUME s.armed
      PROVE  /\ Most(failed2 + 1, Len(BackoffProfile)) <= s.index
             /\ mode2 = "EventLoop" => BackoffProfile[s.index] <= rested2 + s.wait
             /\ s.window # Expired => prompted2 + s.window <= PrimaryWindow
  <2>1. /\ Most(failed + 1, Len(BackoffProfile)) <= s.index
        /\ mode = "EventLoop" => BackoffProfile[s.index] <= rested + s.wait
        /\ s.window # Expired => prompted + s.window <= PrimaryWindow
    BY <1>3 DEF Paced
  <2>2. Most(failed2 + 1, Len(BackoffProfile)) <= Most(failed + 1, Len(BackoffProfile))
        /\ Most(failed2 + 1, Len(BackoffProfile)) \in Nat /\ Most(failed + 1, Len(BackoffProfile)) \in Nat
    BY <1>1, <1>2, Backoff DEF Most
  <2>3. Most(failed2 + 1, Len(BackoffProfile)) <= s.index
    BY <2>1, <2>2, SchedulerFacts
  <2>4. ASSUME mode2 = "EventLoop" PROVE BackoffProfile[s.index] <= rested2 + s.wait
    <3> DEFINE b == BackoffProfile[s.index]
    <3>1. b \in Nat /\ b <= LongestPause /\ s.wait \in Nat /\ LongestPause \in Nat
      BY SchedulerFacts, Backoff
    <3>2. b <= rested + s.wait /\ rested2 = Most(rested, LongestPause)
      BY <2>1, <2>4
    <3> HIDE DEF b
    <3>3. b <= rested2 + s.wait
      BY <1>1, <3>1, <3>2 DEF Most
    <3> QED BY <3>3 DEF b
  <2>5. s.window # Expired => prompted2 + s.window <= PrimaryWindow
    BY <1>1, <1>2, <2>1, SchedulerFacts, Durations
  <2> QED BY <2>3, <2>4, <2>5
<1> QED BY <1>2, <1>3 DEF Paced

(* A tick brings the next attempt nearer by as much as it adds to the pause.               *)
LEMMA PacedTick ==
    ASSUME NEW failed, NEW rested, NEW prompted, NEW mode, NEW s \in Scheduler,
           Paced(failed, rested, prompted, mode, s),
           NEW failed2 \in {0, failed}, NEW prompted2 \in {0, Most(prompted + 1, PrimaryWindow + 1)},
           NEW rested2, rested2 = IF mode # "EventLoop" THEN 0 ELSE Most(rested + 1, LongestPause)
    PROVE  Paced(failed2, rested2, prompted2, mode, ElapseScheduler(s))
<1> DEFINE w == IF s.window = Expired THEN Expired ELSE s.window - 1
           t == IF s.wait = 0 THEN 0 ELSE s.wait - 1
           s2 == ElapseScheduler(s)
<1>1. s2 = IF ~s.armed THEN s ELSE [s EXCEPT !.wait = t, !.window = w]
  BY DEF ElapseScheduler
<1>2. /\ (w # Expired => s.window \in Nat /\ w = s.window - 1) /\ t \in Nat /\ s.wait <= t + 1
      /\ (s.wait = 0 => t = 0)
  BY SchedulerFacts
<1> HIDE DEF w, t
<1>3. s2.armed => s.armed /\ s2.index = s.index /\ s2.wait = t /\ s2.window = w
  BY <1>1 DEF Scheduler
<1> HIDE DEF s2
<1>4. failed \in Nat /\ rested \in Nat /\ prompted \in Nat
  BY DEF Paced
<1>5. failed2 \in Nat /\ failed2 <= failed /\ rested2 \in Nat /\ prompted2 \in Nat /\ prompted2 <= prompted + 1
  BY <1>4, Backoff, Durations DEF Most
<1>6. ASSUME s2.armed
      PROVE  /\ Most(failed2 + 1, Len(BackoffProfile)) <= s2.index
             /\ mode = "EventLoop" => BackoffProfile[s2.index] <= rested2 + s2.wait
             /\ s2.window # Expired => prompted2 + s2.window <= PrimaryWindow
  <2>1. s.armed /\ s2.index = s.index /\ s2.wait = t /\ s2.window = w
    BY <1>3, <1>6
  <2>2. /\ Most(failed + 1, Len(BackoffProfile)) <= s.index
        /\ mode = "EventLoop" => BackoffProfile[s.index] <= rested + s.wait
        /\ s.window # Expired => prompted + s.window <= PrimaryWindow
    BY <2>1 DEF Paced
  <2>3. Most(failed2 + 1, Len(BackoffProfile)) <= Most(failed + 1, Len(BackoffProfile))
        /\ Most(failed2 + 1, Len(BackoffProfile)) \in Nat /\ Most(failed + 1, Len(BackoffProfile)) \in Nat
    BY <1>4, <1>5, Backoff DEF Most
  <2>4. Most(failed2 + 1, Len(BackoffProfile)) <= s2.index
    BY <2>1, <2>2, <2>3, SchedulerFacts
  <2>5. ASSUME mode = "EventLoop" PROVE BackoffProfile[s2.index] <= rested2 + s2.wait
    <3> DEFINE b == BackoffProfile[s.index]
    <3>1. b \in Nat /\ b <= LongestPause /\ s.wait \in Nat /\ LongestPause \in Nat
      BY SchedulerFacts, Backoff
    <3>2. b <= rested + s.wait /\ rested2 = Most(rested + 1, LongestPause)
      BY <2>2, <2>5
    <3> HIDE DEF b
    <3>3. b <= rested2 + t
      BY <1>2, <1>4, <3>1, <3>2 DEF Most
    <3> QED BY <2>1, <3>3 DEF b
  <2>6. ASSUME s2.window # Expired PROVE prompted2 + s2.window <= PrimaryWindow
    <3>1. w # Expired /\ s.window \in Nat /\ w = s.window - 1
      BY <1>2, <2>1, <2>6
    <3>2. s.window # Expired
      BY <3>1 DEF Expired
    <3> QED BY <1>4, <1>5, <2>1, <2>2, <3>1, <3>2, Durations
  <2> QED BY <2>4, <2>5, <2>6
<1> QED BY <1>5, <1>6 DEF Paced, s2

(* A failure moves the index on and asks for the pause at the new one.                     *)
LEMMA PacedFailure ==
    ASSUME NEW failed, NEW rested, NEW prompted, NEW mode, NEW s \in Scheduler,
           Paced(failed, rested, prompted, mode, s), mode # "EventLoop",
           NEW failed2 \in {0, Most(failed + 1, Len(BackoffProfile))},
           NEW prompted2 \in {0, Most(prompted, PrimaryWindow + 1)},
           NEW rested2, rested2 = Most(rested, LongestPause)
    PROVE  Paced(failed2, rested2, prompted2, "EventLoop", OnAttemptFailed(s))
<1> DEFINE L == Len(BackoffProfile)
           i == IF s.index < L THEN s.index + 1 ELSE s.index
           s2 == OnAttemptFailed(s)
<1>1. s2 = [s EXCEPT !.index = i, !.wait = BackoffProfile[i]]
  BY DEF OnAttemptFailed
<1>2. L \in Nat /\ L >= 1
  BY Backoff
<1>3. i \in 1..L /\ (i = s.index + 1 \/ i = L)
  BY <1>2, SchedulerFacts
<1> HIDE DEF i
<1>4. s2.armed = s.armed /\ s2.index = i /\ s2.wait = BackoffProfile[i] /\ s2.window = s.window
  BY <1>1 DEF Scheduler
<1> HIDE DEF s2
<1>5. failed \in Nat /\ rested = 0 /\ prompted \in Nat
  BY DEF Paced
<1>6. rested2 = 0 /\ prompted2 \in Nat /\ prompted2 <= prompted /\ failed2 \in Nat
      /\ failed2 <= Most(failed + 1, L) /\ Most(failed + 1, L) \in Nat
  BY <1>2, <1>5, Backoff, Durations DEF Most
<1>7. ASSUME s2.armed
      PROVE  /\ Most(failed2 + 1, L) <= s2.index
             /\ BackoffProfile[s2.index] <= rested2 + s2.wait
             /\ s2.window # Expired => prompted2 + s2.window <= PrimaryWindow
  <2>1. /\ Most(failed + 1, L) <= s.index /\ s.index \in Nat
        /\ s.window # Expired => prompted + s.window <= PrimaryWindow
    BY <1>4, <1>7, SchedulerFacts DEF Paced
  <2> HIDE DEF L
  <2>2. Most(failed2 + 1, L) <= i
    <3>1. failed2 + 1 <= s.index + 1
      BY <1>6, <2>1
    <3>2. Most(failed2 + 1, L) <= failed2 + 1 /\ Most(failed2 + 1, L) <= L /\ Most(failed2 + 1, L) \in Nat
      BY <1>2, <1>6 DEF Most
    <3> QED BY <1>2, <1>3, <1>6, <2>1, <3>1, <3>2
  <2>3. BackoffProfile[i] \in Nat
    BY <1>3, Backoff DEF L
  <2>4. s2.window # Expired => prompted2 + s2.window <= PrimaryWindow
    BY <1>4, <1>5, <1>6, <2>1, SchedulerFacts, Durations
  <2> QED BY <1>4, <1>6, <2>2, <2>3, <2>4
<1> QED BY <1>6, <1>7 DEF Paced, L, s2

(* A REVERT and a display event start anew.                                               *)
LEMMA PacedPrompt ==
    ASSUME NEW failed, NEW rested, NEW prompted, NEW mode, NEW s \in Scheduler, NEW s2 \in Scheduler,
           Paced(failed, rested, prompted, mode, s), NEW mode2, mode2 # "EventLoop",
           s2 = ArmPrimary(s, RevertGrace) \/ (s.armed /\ s2 = OnDisplayEvent(s))
    PROVE  Paced(0, 0, 0, mode2, s2)
<1>1. s2.index = 1 /\ (s2.window # Expired => s2.window <= PrimaryWindow)
  <2>1. CASE s2 = ArmPrimary(s, RevertGrace)
    BY <2>1, Durations DEF ArmPrimary
  <2>2. CASE s.armed /\ s2 = OnDisplayEvent(s)
    <3> DEFINE w == IF s.window = Expired \/ s.window < EventWindow THEN EventWindow ELSE s.window
    <3>1. s2 = [s EXCEPT !.index = 1, !.wait = 0, !.reported = FALSE, !.window = w]
      BY <2>2 DEF OnDisplayEvent, Scheduler
    <3>2. prompted \in Nat /\ (s.window # Expired => prompted + s.window <= PrimaryWindow)
      BY <2>2 DEF Paced
    <3>3. w <= PrimaryWindow
      BY <3>2, SchedulerFacts, Durations
    <3> HIDE DEF w
    <3> QED BY <3>1, <3>3 DEF Scheduler
  <2> QED BY <2>1, <2>2
<1>2. Most(0 + 1, Len(BackoffProfile)) <= 1
  BY Backoff DEF Most
<1>3. s2.window # Expired => 0 + s2.window <= PrimaryWindow
  BY <1>1, SchedulerFacts
<1> QED BY <1>1, <1>2, <1>3 DEF Paced

LEMMA PausesStep ==
    ASSUME RestoreShape, RestoreShape', PausesCounted, NEW prompt \in BOOLEAN, NEW contact,
           NEW elapsed \in {0, 1}, NEW incidents, Observe(prompt, contact, elapsed, incidents),
           SchedulerMoves(prompt, elapsed)
    PROVE  PausesCounted'
<1> DEFINE f == history.failed
           r == history.rested
           p == history.prompted
           f2 == history'.failed
           r2 == history'.rested
           p2 == history'.prompted
           s == helper.scheduler
           s2 == helper'.scheduler
           anew == prompt \/ Drained \/ ~RestorePending(helper')
<1>1. /\ f2 = IF anew THEN 0
              ELSE IF helper.mode # "EventLoop" /\ helper'.mode = "EventLoop"
              THEN Most(f + 1, Len(BackoffProfile)) ELSE f
      /\ r2 = IF helper'.mode # "EventLoop" THEN 0 ELSE Most(r + elapsed, LongestPause)
      /\ p2 = IF anew THEN 0 ELSE Most(p + elapsed, PrimaryWindow + 1)
  BY DEF Observe
<1>2. /\ s \in Scheduler /\ s2 \in Scheduler /\ r \in Nat /\ p \in Nat
      /\ Paced(f, r, p, helper.mode, s)
  BY DEF RestoreShape, IsHelper, HelperTyped, PausesCounted, Paced
<1>3. SUFFICES Paced(f2, r2, p2, helper'.mode, s2)
  BY DEF PausesCounted, Paced
<1>4. elapsed = 0 => r + elapsed = r /\ p + elapsed = p
  BY <1>2
<1>5. CASE /\ s2 \in {s, Disarmed, ReportExpired(s)} /\ elapsed = 0
           /\ helper'.mode = "EventLoop" => helper.mode = "EventLoop"
  <2> DEFINE mode2 == helper'.mode
             mode == helper.mode
  <2>1. /\ f2 \in {0, f} /\ p2 \in {0, Most(p, PrimaryWindow + 1)}
        /\ \/ mode2 # "EventLoop" /\ r2 = 0
           \/ mode2 = mode /\ r2 = Most(r, LongestPause)
    BY <1>1, <1>4, <1>5
  <2>2. /\ Paced(f, r, p, mode, s) /\ s \in Scheduler /\ s2 \in {s, Disarmed, ReportExpired(s)}
    BY <1>2, <1>5
  <2> HIDE DEF f, r, p, f2, r2, p2, s, s2, mode2, mode
  <2>3. Paced(f2, r2, p2, mode2, s)
    BY <2>1, <2>2, PacedQuiet
  <2>4. Paced(f2, r2, p2, mode2, s2)
    BY <2>2, <2>3, PacedReported
  <2> QED BY <2>4 DEF mode2
<1>6. CASE Owed /\ (prompt \/ Drained)
  <2>1. f2 = 0 /\ r2 = 0 /\ p2 = 0 /\ helper'.mode # "EventLoop" /\ s2 = ArmPrimary(s, RevertGrace)
    BY <1>1, <1>6 DEF Owed
  <2> HIDE DEF f, r, p, f2, r2, p2, s, s2
  <2> QED BY <1>2, <2>1, PacedPrompt
<1>7. CASE Failed /\ elapsed = 0
  <2>1. /\ f2 \in {0, Most(f + 1, Len(BackoffProfile))} /\ p2 \in {0, Most(p, PrimaryWindow + 1)}
        /\ r2 = Most(r, LongestPause) /\ helper'.mode = "EventLoop" /\ helper.mode # "EventLoop"
        /\ s2 = OnAttemptFailed(s)
    BY <1>1, <1>4, <1>7 DEF Failed
  <2> HIDE DEF f, r, p, f2, r2, p2, s, s2
  <2> QED BY <1>2, <2>1, PacedFailure
<1>8. CASE Polled(OnDisplayEvent(s)) /\ prompt /\ elapsed = 0
  <2>1. /\ f2 = 0 /\ r2 = 0 /\ p2 = 0 /\ helper'.mode # "EventLoop"
        /\ s.armed /\ s2 = OnDisplayEvent(s)
    BY <1>1, <1>8 DEF Polled
  <2> HIDE DEF f, r, p, f2, r2, p2, s, s2
  <2> QED BY <1>2, <2>1, PacedPrompt
<1>9. CASE Elapsed /\ elapsed = 1
  <2>1. helper'.mode = helper.mode /\ s2 = ElapseScheduler(s)
    BY <1>9 DEF Elapsed
  <2> DEFINE mode == helper.mode
  <2>2. /\ f2 \in {0, f} /\ p2 \in {0, Most(p + 1, PrimaryWindow + 1)}
        /\ r2 = IF mode # "EventLoop" THEN 0 ELSE Most(r + 1, LongestPause)
    BY <1>1, <1>9, <2>1
  <2> HIDE DEF f, r, p, f2, r2, p2, s, s2, mode
  <2>3. Paced(f2, r2, p2, mode, ElapseScheduler(s))
    BY <1>2, <2>2, PacedTick DEF mode
  <2> QED BY <2>1, <2>3 DEF mode
<1> QED BY <1>5, <1>6, <1>7, <1>8, <1>9 DEF SchedulerMoves

--------------------------------------------------------------------------------
(* The promise, step by step.                                                             *)

Kept == {files[tier] : tier \in Tiers} \ {NoSnapshot}

LEMMA SettledKeeps ==
    ASSUME RestoreShape, Discipline, Settled
    PROVE  \E l \in Kept : l \in Kept' /\ Kept' \subseteq Kept
<1> DEFINE l == worker.loaded
<1>1. worker.pc \in Trying /\ files \in [Tiers -> Snapshots] /\ worker.tier \in Tiers
  BY DEF Settled, Trying, RestoreShape, IsWorker, WorkerTyped, Files
<1>2. l # NoSnapshot /\ files[worker.tier] = l /\ l \in Kept
  BY <1>1 DEF RestoreShape, IsWorker, WorkerTyped, Discipline, LoadedIsKept, Kept
<1>3. PICK copied, removed, removed_previous \in BOOLEAN :
          files' = FilesAfter(worker.tier, copied, removed, removed_previous)
  BY DEF Settled
<1>4. \A tier \in Tiers : files'[tier] \in {files[tier], files["current"], NoSnapshot}
  BY <1>1, <1>3 DEF FilesAfter, ClearSessionSnapshots, PromoteCurrent, RemoveSnapshot, Save, Tiers
<1>5. \E tier \in Tiers : files'[tier] = l
  <2>1. CASE worker.tier = "golden"
    BY <1>1, <1>2, <1>3, <2>1 DEF FilesAfter, ClearSessionSnapshots, RemoveSnapshot, Save, Tiers
  <2>2. CASE worker.tier = "current"
    BY <1>1, <1>2, <1>3, <2>2 DEF FilesAfter, PromoteCurrent, RemoveSnapshot, Save, Tiers
  <2>3. CASE worker.tier = "previous"
    BY <1>1, <1>2, <1>3, <2>3 DEF FilesAfter, RemoveSnapshot, Save, Tiers
  <2> QED BY <1>1, <2>1, <2>2, <2>3 DEF Tiers
<1>6. Kept' \subseteq Kept
  <2>1. "current" \in Tiers
    BY DEF Tiers
  <2> QED BY <1>4, <2>1 DEF Kept
<1>7. l \in Kept'
  BY <1>2, <1>5 DEF Kept
<1> QED BY <1>2, <1>6, <1>7

LEMMA PromiseStep ==
    ASSUME RestoreShape, Discipline, Moves \/ UNCHANGED vars
    PROVE  [Promise!Next]_<<Phase, Kept>>
<1>1. files \in [Tiers -> Snapshots] /\ present \in Snapshots \ {NoSnapshot}
  BY DEF RestoreShape, Files, Snapshots, NoSnapshot
<1>2. files' = files => Kept' = Kept
  BY DEF Kept
<1>3. helper'.mode = helper.mode => Phase' = Phase
  BY DEF Phase, RestorePending, AtRest
<1>4. CASE UNCHANGED vars
  BY <1>2, <1>3, <1>4 DEF vars
<1>5. CASE Unmoved \/ Noted \/ Elapsed
  BY <1>2, <1>3, <1>5 DEF Unmoved, Noted, Elapsed
<1>6. CASE Released
  <2>1. Phase' = "free" /\ Kept' = Kept
    BY <1>2, <1>6 DEF Released, AtRest, Phase, RestorePending
  <2> QED BY <2>1 DEF Promise!Next, Promise!Release, Kept
<1>7. CASE Lent
  <2>1. Phase' = "lent"
    BY <1>7 DEF Lent, AtRest, Phase, RestorePending
  <2>2. \E l \in Snapshots \ {NoSnapshot} : Kept' \in {Kept, Kept \cup {l}}
    <3>1. CASE files' = files
      BY <1>1, <1>2, <3>1
    <3>2. CASE files["current"] = NoSnapshot /\ Captured
      <4>1. PICK l \in Snapshots \ {NoSnapshot} : files' = [files EXCEPT !["current"] = l]
        BY <3>2 DEF Captured
      <4>2. Kept' = Kept \cup {l}
        BY <1>1, <3>2, <4>1 DEF Kept, Tiers
      <4> QED BY <4>2
    <3> QED BY <1>7, <3>1, <3>2 DEF Lent
  <2> QED BY <2>1, <2>2 DEF Promise!Next, Promise!Lend, Kept
<1>8. CASE Owed
  <2>1. Phase' = "restoring" /\ Kept' = Kept /\ Kept # {}
    BY <1>2, <1>8 DEF Owed, Phase, RestorePending, SomeTierExists, Exists, Kept
  <2> QED BY <2>1 DEF Promise!Next, Promise!Owe, Kept
<1>9. CASE Recaptured
  <2>1. Phase' = Phase /\ Phase # "restoring"
    BY <1>9 DEF Recaptured, Phase, RestorePending, AtRest
  <2>2. \E l \in Snapshots \ {NoSnapshot} : Kept' \subseteq Kept \cup {l}
    BY <1>9 DEF Recaptured, CaptureOf, Kept
  <2> QED BY <2>1, <2>2 DEF Promise!Next, Promise!Capture, Kept
<1>10. CASE Failed \/ Streams \/ Validates \/ \E s : Polled(s)
  <2>1. Phase' = Phase /\ files' = files
    BY <1>10 DEF Failed, Streams, Validates, Polled, Phase, RestorePending, AtRest
  <2> QED BY <1>2, <2>1
<1>11. CASE Works
  <2>1. Phase' = Phase /\ Phase = "restoring"
    BY <1>3, <1>11 DEF Works, Phase, RestorePending, Discipline, WorkerInMode
  <2>2. CASE files' = files
    BY <1>2, <2>1, <2>2
  <2>3. CASE Settled
    <3>1. \E l \in Kept : l \in Kept' /\ Kept' \subseteq Kept
      BY <2>3, SettledKeeps
    <3> QED BY <2>1, <3>1 DEF Promise!Next, Promise!Settle, Kept
  <2> QED BY <1>11, <2>2, <2>3 DEF Works
<1> QED BY <1>4, <1>5, <1>6, <1>7, <1>8, <1>9, <1>10, <1>11 DEF Moves

--------------------------------------------------------------------------------
(* The invariant, and what follows from it.                                               *)

LEMMA InvInit == ASSUME Init PROVE RestoreInv
<1>1. RestoreShape
  BY ShapeInit
<1>2. /\ helper = NotRunning /\ worker = Idle /\ host.pc = "idle" /\ history = NoHistory
  BY DEF Init
<1>3. /\ helper.mode = "Exited" /\ helper.queued = NoCommand /\ helper.cancel = FALSE
      /\ helper.fallbacks = 0 /\ helper.connected = FALSE /\ helper.scheduler = Disarmed /\ worker.pc = "none"
  BY <1>2 DEF NotRunning, Fresh, Idle
<1>4. Discipline
  BY <1>3 DEF Discipline, WorkerInMode, LoadedIsKept, QueueCancels, ApplyIsCurrent, NoCommand, Trying
<1>5. /\ history.baseline = NoSnapshot /\ history.failed = 0 /\ history.rested = 0
      /\ history.prompted = 0 /\ history.heard = 0 /\ history.wasted = 0
  BY <1>2 DEF NoHistory
<1>6. WastedCounted
  BY <1>3, <1>5 DEF WastedCounted, kGoldenFallbackCompletionThreshold
<1>7. HeardCounted
  BY <1>3, <1>5 DEF HeardCounted
<1>8. PausesCounted
  BY <1>3, <1>5 DEF PausesCounted, Paced, Disarmed
<1>9. BaselineSafe
  BY <1>5 DEF BaselineSafe, BaselineKept
<1> QED BY <1>1, <1>4, <1>6, <1>7, <1>8, <1>9 DEF RestoreInv

LEMMA InvStep == ASSUME RestoreInv, [Next]_vars PROVE RestoreInv'
<1>1. RestoreShape /\ Discipline /\ WastedCounted /\ HeardCounted /\ PausesCounted /\ BaselineSafe
  BY DEF RestoreInv
<1>2. RestoreShape'
  BY <1>1, ShapeStep
<1>3. CASE Next
  <2>1. PICK prompt, contact \in BOOLEAN, elapsed \in {0, 1}, incidents \in {0, 1} :
              /\ Observe(prompt, contact, elapsed, incidents)
              /\ Moves /\ HeartbeatMoves(contact, elapsed) /\ SchedulerMoves(prompt, elapsed)
    BY <1>1, <1>3, StepMoves
  <2>2. Discipline'
    BY <1>1, <2>1, DisciplineStep
  <2>3. WastedCounted'
    BY <1>1, <1>2, <2>1, WastedStep
  <2>4. HeardCounted'
    BY <1>1, <2>1, HeardStep
  <2>5. PausesCounted'
    BY <1>1, <1>2, <2>1, PausesStep
  <2>6. BaselineSafe'
    BY <1>1, <2>1, BaselineStep
  <2> QED BY <1>2, <2>2, <2>3, <2>4, <2>5, <2>6 DEF RestoreInv
<1>4. CASE UNCHANGED vars
  <2>1. UNCHANGED <<files, helper, worker, host, history>>
    BY <1>4 DEF vars
  <2>2. Discipline'
    BY <1>1, <2>1 DEF Discipline, WorkerInMode, LoadedIsKept, QueueCancels, ApplyIsCurrent
  <2>3. WastedCounted' /\ HeardCounted'
    BY <1>1, <2>1 DEF WastedCounted, HeardCounted
  <2>4. PausesCounted' /\ BaselineSafe'
    BY <1>1, <2>1 DEF PausesCounted, Paced, BaselineSafe, BaselineKept
  <2> QED BY <1>2, <2>2, <2>3, <2>4 DEF RestoreInv
<1> QED BY <1>3, <1>4

LEMMA InvHolds == Spec => []RestoreInv
<1>1. Init => RestoreInv
  BY InvInit
<1>2. RestoreInv /\ [Next]_vars => RestoreInv'
  BY InvStep
<1> QED BY <1>1, <1>2, PTL DEF Spec

(* Golden-first never throws a third confirmed session restore away in a row: however the  *)
(* attempts, commands and crashes fall, the helper's own count has reached the threshold   *)
(* by then (RecoveryOperation::run).                                                      *)
THEOREM FallbacksAreBounded == Spec => []FallbacksBounded
<1>1. RestoreInv => FallbacksBounded
  BY DEF RestoreInv, WastedCounted, FallbacksBounded
<1> QED BY <1>1, InvHolds, PTL

(* A connection that is retired while the host lives has been silent for the miss window   *)
(* and the whole recovery window, for any length of either (HeartbeatMonitor).            *)
THEOREM HeartbeatIsFair == Spec => HeartbeatFair
<1>1. RestoreInv /\ [Next]_vars =>
         [ConnectionBreaks /\ host.pc # "down" => history.heard >= MissWindow + RecoveryWindow]_vars
  <2>1. ASSUME RestoreInv, ConnectionBreaks, host.pc # "down"
        PROVE  history.heard >= MissWindow + RecoveryWindow
    <3>1. helper.connected /\ helper.heartbeat.armed /\ helper.heartbeat.deadline = 0
      BY <2>1 DEF ConnectionBreaks, LoseConnection, TimesOut
    <3>2. MissWindow + RecoveryWindow <= history.heard + 0 /\ history.heard \in Nat
      BY <2>1, <3>1 DEF RestoreInv, HeardCounted, Unset
    <3> QED BY <3>2, Durations
  <2> QED BY <2>1
<1> QED BY <1>1, InvHolds, PTL DEF Spec, HeartbeatFair

(* The helper polls for another attempt only after the backoff its failures in a row have  *)
(* earned, and only within the window of the last command or display event, for any        *)
(* nondecreasing profile (RestoreScheduler, handle_tick).                                  *)
THEOREM AttemptsAreSpaced == Spec => AttemptsSpaced
<1> DEFINE Spaced == /\ history.rested >= BackoffProfile[Most(history.failed + 1, Len(BackoffProfile))]
                     /\ history.prompted <= PrimaryWindow
<1>1. RestoreInv /\ [Next]_vars => [Poll /\ helper'.mode = "Recovery" => Spaced]_vars
  <2>1. ASSUME RestoreInv, Poll, helper'.mode = "Recovery" PROVE Spaced
    <3> DEFINE s == helper.scheduler
               i == Most(history.failed + 1, Len(BackoffProfile))
    <3>1. RestoreShape /\ Discipline /\ host' = host /\ HandleTick /\ helper.mode = "EventLoop"
      BY <2>1 DEF RestoreInv, Poll, HandleTick
    <3>2. s.armed /\ s.window # Expired /\ s.wait = 0 /\ s \in Scheduler
      BY <2>1, <3>1, TimerMoves DEF Noted, ShouldAttempt, WindowActive, RestoreShape, IsHelper, HelperTyped
    <3>3. /\ history.failed \in Nat /\ history.rested \in Nat /\ history.prompted \in Nat
          /\ i <= s.index /\ BackoffProfile[s.index] <= history.rested + s.wait
          /\ history.prompted + s.window <= PrimaryWindow
      BY <2>1, <3>1, <3>2 DEF RestoreInv, PausesCounted, Paced
    <3>4. i \in 1..Len(BackoffProfile)
      BY <3>3, Backoff DEF Most
    <3> HIDE DEF i, s
    <3>5. BackoffProfile[i] <= BackoffProfile[s.index] /\ BackoffProfile[i] \in Nat /\ BackoffProfile[s.index] \in Nat
      BY <3>2, <3>3, <3>4, Backoff, SchedulerFacts
    <3>6. history.rested >= BackoffProfile[i]
      BY <3>2, <3>3, <3>5
    <3>7. history.prompted <= PrimaryWindow
      BY <3>2, <3>3, SchedulerFacts, Durations
    <3> QED BY <3>6, <3>7 DEF i
  <2> QED BY <2>1
<1> QED BY <1>1, InvHolds, PTL DEF Spec, AttemptsSpaced

(* The layout a session must give back stays in the Current snapshot until its restore is   *)
(* confirmed or given up, whatever launches, exports, crashes and failed attempts come in   *)
(* between (handle_snapshot_current, apply_internal, promotion).                           *)
THEOREM BaselineIsKept == Spec => []BaselineKept
<1>1. RestoreInv => BaselineKept
  BY DEF RestoreInv, BaselineSafe
<1> QED BY <1>1, InvHolds, PTL

(* The engine, the host and the machine implement RestorePromise: nothing is captured while *)
(* a restore is pending, and a snapshot is dropped only for one that was confirmed and is   *)
(* kept (SnapshotLedger, promotion, the cleanup after golden).                             *)
THEOREM EngineKeepsPromise == Spec => PromiseKept
<1>1. Init => Promise!Init
  <2>1. ASSUME Init PROVE Phase = "free" /\ Kept \in SUBSET (Snapshots \ {NoSnapshot})
    <3>1. files \in [Tiers -> Snapshots]
      BY <2>1, ShapeInit DEF RestoreShape, Files
    <3>2. helper.mode = "Exited"
      BY <2>1 DEF Init, NotRunning
    <3> QED BY <3>1, <3>2 DEF Phase, RestorePending, AtRest, Kept
  <2> QED BY <2>1 DEF Promise!Init, Kept
<1>2. RestoreInv /\ [Next]_vars => [Promise!Next]_Promise!promiseVars
  <2>1. ASSUME RestoreInv, [Next]_vars PROVE [Promise!Next]_<<Phase, Kept>>
    BY <2>1, StepMoves, PromiseStep DEF RestoreInv
  <2> QED BY <2>1 DEF Promise!promiseVars, Kept
<1> QED BY <1>1, <1>2, InvHolds, PTL DEF Spec, PromiseKept, Promise!Spec

================================================================================
