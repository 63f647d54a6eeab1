---------------------------- MODULE HostSessionsProofs ----------------------------
(* The shared runtime is prepared while somebody owns it and only then, and what a terminate *)
(* request found is gone when it has answered, for any number of clients and browsers.       *)
EXTENDS HostSessions, SequenceTheorems, TLAPS

RtspType == [pending : SUBSET Clients, listed : SUBSET Clients, running : SUBSET Clients,
             gate : {"free", "worker"}]
StartupType == [tasks : Seq(Clients), busy : Clients \cup {None}, posted : Nat]
Streams == {"new", "launched", "announced", "running", "stopping"}
CleanerType == [at : {"idle", "cancelling", "collecting", "stopping", "ending", "terminating", "gone"},
                todo : SUBSET Clients, joins : Clients \cup {None}, done : SUBSET Clients, final : BOOLEAN]
WebType == [pending : SUBSET Browsers, active : SUBSET Browsers, closing : SUBSET Browsers,
            stopper : Browsers \cup {None}, capture : BOOLEAN, seen : SUBSET Browsers]
RuntimeType == [armed : BOOLEAN, app : {None, "running", "exited"},
                shutdown : {"no", "raised", "draining", "stopped"}, disruptions : Nat]
HostHistoryType == [doomed : SUBSET Clients, terminated : SUBSET Clients]
HostType ==
    /\ rtsp \in RtspType /\ startup \in StartupType /\ stream_of \in [Clients -> Streams]
    /\ cleaner \in [Threads -> CleanerType] /\ webrtc \in WebType /\ runtime \in RuntimeType
    /\ hostHistory \in HostHistoryType

(* A launch is announced once, so its session is started at most once; the worker that        *)
(* starts it holds the gate.                                                                  *)
StartsOnce ==
    /\ \A c \in rtsp.pending : stream_of[c] # "new"
    /\ \A i \in 1..Len(startup.tasks) :
          /\ stream_of[startup.tasks[i]] = "announced" /\ startup.tasks[i] # startup.busy
          /\ \A j \in 1..Len(startup.tasks) : startup.tasks[i] = startup.tasks[j] => i = j
    /\ startup.busy # None => stream_of[startup.busy] = "announced" /\ rtsp.gate = "worker"

(* A session runs until one thread, which has taken it off the list, has joined it.           *)
Takes(t, c) == c \in cleaner[t].todo \/ cleaner[t].joins = c
JoinedByOne ==
    /\ rtsp.listed \subseteq rtsp.running
    /\ \A c \in rtsp.running : stream_of[c] \in {"running", "stopping"}
    /\ \A t \in Threads : \A c \in Clients : Takes(t, c) =>
          /\ c \in rtsp.running /\ c \notin rtsp.listed
          /\ ~(c \in cleaner[t].todo /\ cleaner[t].joins = c)
          /\ \A u \in Threads : Takes(u, c) => t = u
    /\ \A t \in Threads : cleaner[t].at # "stopping" => cleaner[t].todo = {} /\ cleaner[t].joins = None

CaptureIsArmed == webrtc.capture = TRUE => runtime.armed = TRUE

(* What cancel found is no longer waiting or starting once it has cancelled the launches, and  *)
(* no longer listed once it has collected the sessions.                                       *)
Collected == {"stopping", "ending", "terminating"}
DoomedIsGone ==
    /\ \A c \in hostHistory.doomed \cup hostHistory.terminated : stream_of[c] # "new"
    /\ cleaner["cancel"].at \in Collected \cup {"collecting"} =>
          hostHistory.doomed \cap (rtsp.pending \cup {startup.busy}) = {}
    /\ cleaner["cancel"].at \in Collected => hostHistory.doomed \cap rtsp.listed = {}

HostInv ==
    /\ HostType /\ StartsOnce /\ JoinedByOne /\ CaptureIsArmed /\ DoomedIsGone
    /\ RuntimeHasOwner /\ OwnedIsArmed /\ TerminationHolds

--------------------------------------------------------------------------------
(* Who owns the runtime, with the sessions that are listed or joined among those that run;    *)
(* and who must find it prepared.                                                             *)
Owned ==
    \/ rtsp.pending # {} \/ startup_count > 0 \/ rtsp.running # {}
    \/ webrtc.pending # {} \/ webrtc.active # {} \/ webrtc.closing # {}
    \/ webrtc.stopper # None \/ webrtc.capture = TRUE
Wanted ==
    \/ rtsp.pending # {} \/ rtsp.running # {}
    \/ webrtc.pending # {} \/ webrtc.active # {} \/ webrtc.capture = TRUE

LEMMA OwnersAreOwners == (Owned => has_shared_runtime_owner) /\ (Owned => has_shared_runtime_owner)'
BY DEF Owned, has_shared_runtime_owner, has_pending_launch_or_startup, WebTeardowns

LEMMA OwnersAreKnown == ASSUME HostInv, has_shared_runtime_owner PROVE Owned
<1>1. rtsp.listed # {} => rtsp.running # {}
  BY DEF HostInv, JoinedByOne
<1>2. TeardownSessions # {} => rtsp.running # {}
  <2>1. ASSUME NEW t \in Threads, cleaner[t].joins # None PROVE rtsp.running # {}
    <3>1. cleaner[t].joins \in Clients
      BY <2>1 DEF HostInv, HostType, CleanerType
    <3> QED BY <3>1 DEF HostInv, JoinedByOne, Takes
  <2> QED BY <2>1 DEF TeardownSessions
<1>3. webrtc.capture => webrtc.capture = TRUE
  BY DEF HostInv, HostType, WebType
<1> QED BY <1>1, <1>2, <1>3 DEF Owned, has_shared_runtime_owner, has_pending_launch_or_startup, WebTeardowns

LEMMA WantedIsArmed == ASSUME HostInv, Wanted PROVE runtime.armed = TRUE
<1>1. runtime.armed \in BOOLEAN
  BY DEF HostInv, HostType, RuntimeType
<1> QED BY <1>1 DEF HostInv, OwnedIsArmed, CaptureIsArmed, Wanted, WebOwners

(* A step arms the runtime for an owner, leaves it to the owners there are, or finalizes.      *)
RuntimeMoves ==
    \/ runtime'.armed = TRUE /\ Owned'
    \/ /\ runtime'.armed = runtime.armed /\ (Wanted' => Wanted)
       /\ GateFree' => Owned' \/ (GateFree /\ (Owned => Owned'))
    \/ runtime'.armed = (runtime.armed /\ has_shared_runtime_owner') /\ (Wanted' => Wanted)

LEMMA RuntimeFollows ==
    ASSUME HostInv, RuntimeMoves, webrtc' \in WebType
    PROVE  RuntimeHasOwner' /\ OwnedIsArmed' /\ CaptureIsArmed'
<1>1. runtime.armed \in BOOLEAN /\ webrtc'.capture \in BOOLEAN
  BY DEF HostInv, HostType, RuntimeType, WebType
<1>2. Wanted' => runtime'.armed = TRUE
  <2>1. CASE runtime'.armed = TRUE
    BY <2>1
  <2>2. CASE runtime'.armed = runtime.armed /\ (Wanted' => Wanted)
    BY <2>2, WantedIsArmed
  <2>3. CASE runtime'.armed = (runtime.armed /\ has_shared_runtime_owner') /\ (Wanted' => Wanted)
    <3>1. Wanted' => has_shared_runtime_owner'
      BY OwnersAreOwners DEF Wanted, Owned
    <3> QED BY <1>1, <2>3, <3>1, WantedIsArmed
  <2> QED BY <2>1, <2>2, <2>3 DEF RuntimeMoves
<1>3. OwnedIsArmed' /\ CaptureIsArmed'
  BY <1>2 DEF OwnedIsArmed, CaptureIsArmed, Wanted, WebOwners
<1>4. RuntimeHasOwner'
  <2>1. CASE Owned'
    BY <2>1, OwnersAreOwners DEF RuntimeHasOwner
  <2>2. CASE /\ runtime'.armed = runtime.armed
             /\ GateFree' => Owned' \/ (GateFree /\ (Owned => Owned'))
    <3>1. GateFree /\ runtime.armed => Owned
      BY OwnersAreKnown DEF HostInv, RuntimeHasOwner
    <3> QED BY <2>2, <3>1, OwnersAreOwners DEF RuntimeHasOwner
  <2>3. CASE runtime'.armed = (runtime.armed /\ has_shared_runtime_owner')
    BY <1>1, <2>3 DEF RuntimeHasOwner
  <2> QED BY <2>1, <2>2, <2>3 DEF RuntimeMoves
<1> QED BY <1>3, <1>4

LEMMA Finalizes ==
    ASSUME HostInv, FinalizeIfIdle, Wanted' => Wanted
    PROVE  runtime' \in RuntimeType /\ RuntimeMoves
<1> DEFINE armed == runtime.armed /\ has_shared_runtime_owner'
<1>1. runtime \in RuntimeType /\ armed \in BOOLEAN
  BY DEF HostInv, HostType
<1>2. runtime' = [runtime EXCEPT !.armed = armed]
  BY DEF FinalizeIfIdle
<1> HIDE DEF armed
<1>3. runtime' \in RuntimeType /\ runtime'.armed = armed
  BY <1>1, <1>2 DEF RuntimeType
<1> QED BY <1>3 DEF RuntimeMoves, armed

LEMMA Arms ==
    ASSUME HostInv, NEW app \in {None, "running", "exited"}, Arm(app), Owned'
    PROVE  runtime' \in RuntimeType /\ RuntimeMoves
<1>1. runtime \in RuntimeType
  BY DEF HostInv, HostType
<1>2. runtime' \in RuntimeType /\ runtime'.armed = TRUE
  BY <1>1 DEF Arm, RuntimeType
<1> QED BY <1>2 DEF RuntimeMoves

LEMMA Keeps ==
    ASSUME HostInv, UNCHANGED runtime, Wanted' => Wanted,
           GateFree' => Owned' \/ (GateFree /\ (Owned => Owned'))
    PROVE  runtime' \in RuntimeType /\ RuntimeMoves
BY DEF HostInv, HostType, RuntimeMoves

--------------------------------------------------------------------------------
LEMMA InitEstablishes == ASSUME HostSessionsInit PROVE HostInv
<1>1. rtsp \in RtspType /\ startup \in StartupType /\ webrtc \in WebType /\ runtime \in RuntimeType
  BY DEF HostSessionsInit, RtspType, StartupType, WebType, RuntimeType
<1>2. /\ stream_of \in [Clients -> Streams] /\ hostHistory \in HostHistoryType
      /\ Resting \in CleanerType /\ Resting.at = "idle" /\ Resting.todo = {} /\ Resting.joins = None
  BY DEF HostSessionsInit, Streams, HostHistoryType, CleanerType, Resting
<1>3. cleaner \in [Threads -> CleanerType] /\ \A t \in Threads : cleaner[t] = Resting
  BY <1>2 DEF HostSessionsInit
<1>4. HostType
  BY <1>1, <1>2, <1>3 DEF HostType
<1>5. StartsOnce
  BY DEF HostSessionsInit, StartsOnce
<1>6. JoinedByOne
  <2>1. \A t \in Threads, c \in Clients : ~Takes(t, c)
    BY <1>2, <1>3, HostSessionsAssumption DEF Takes, None
  <2> QED BY <1>2, <1>3, <2>1 DEF HostSessionsInit, JoinedByOne
<1>7. DoomedIsGone
  BY DEF HostSessionsInit, DoomedIsGone
<1>8. RuntimeHasOwner /\ OwnedIsArmed /\ CaptureIsArmed /\ TerminationHolds
  BY DEF HostSessionsInit, RuntimeHasOwner, OwnedIsArmed, CaptureIsArmed, TerminationHolds, WebOwners
<1> QED BY <1>4, <1>5, <1>6, <1>7, <1>8 DEF HostInv

(* A step of the application, the shutdown or the control thread.                              *)
LEMMA BystandersKeep ==
    ASSUME HostInv, UNCHANGED <<rtsp, startup, stream_of, cleaner, webrtc, hostHistory>>,
           runtime' \in RuntimeType, runtime'.armed = runtime.armed
    PROVE  HostInv'
<1>1. HostType' /\ StartsOnce' /\ DoomedIsGone' /\ TerminationHolds'
  BY DEF HostInv, HostType, StartsOnce, DoomedIsGone, TerminationHolds
<1>2. JoinedByOne'
  BY DEF HostInv, JoinedByOne, Takes
<1>3. RuntimeHasOwner' /\ OwnedIsArmed' /\ CaptureIsArmed'
  <2>1. (Wanted' <=> Wanted) /\ (Owned' <=> Owned) /\ (GateFree' <=> GateFree)
    BY DEF Wanted, Owned, startup_count, GateFree
  <2>2. RuntimeMoves
    BY <2>1 DEF RuntimeMoves
  <2> QED BY <1>1, <2>2, RuntimeFollows DEF HostType
<1> QED BY <1>1, <1>2, <1>3 DEF HostInv

--------------------------------------------------------------------------------
(* A launch is raised.                                                                         *)
LEMMA RaiseKeeps ==
    ASSUME HostInv, NEW c \in Clients, stream_of[c] = "new", GateFree, Raise(c, "running")
    PROVE  HostInv'
<1>1. /\ rtsp \in RtspType /\ startup \in StartupType /\ stream_of \in [Clients -> Streams]
      /\ UNCHANGED <<startup, cleaner, webrtc, hostHistory>>
  BY DEF HostInv, HostType, Raise
<1>2. /\ rtsp' \in RtspType /\ rtsp'.pending = rtsp.pending \cup {c} /\ rtsp'.listed = rtsp.listed
      /\ rtsp'.running = rtsp.running /\ rtsp'.gate = rtsp.gate
  BY <1>1 DEF Raise, RtspType
<1>3. /\ stream_of' \in [Clients -> Streams] /\ stream_of'[c] = "launched"
      /\ \A d \in Clients : d # c => stream_of'[d] = stream_of[d]
  BY <1>1 DEF Raise, Streams
<1>4. runtime' \in RuntimeType /\ RuntimeMoves
  <2>1. Owned'
    BY <1>2 DEF Owned
  <2> QED BY <2>1, Arms DEF Raise
<1>5. HostType'
  BY <1>1, <1>2, <1>3, <1>4 DEF HostInv, HostType
<1>6. StartsOnce'
  <2>1. \A i \in 1..Len(startup.tasks) : startup.tasks[i] \in Clients
    BY <1>1 DEF StartupType
  <2>2. startup.busy \in Clients \cup {None}
    BY <1>1 DEF StartupType
  <2>3. rtsp.pending \subseteq Clients
    BY <1>1 DEF RtspType
  <2> QED BY <1>1, <1>2, <1>3, <2>1, <2>2, <2>3 DEF HostInv, StartsOnce
<1>7. JoinedByOne'
  <2>1. rtsp.running \subseteq Clients
    BY <1>1 DEF RtspType
  <2> QED BY <1>1, <1>2, <1>3, <2>1 DEF HostInv, JoinedByOne, Takes
<1>8. c \notin hostHistory.doomed \cup hostHistory.terminated
  BY DEF HostInv, DoomedIsGone
<1>9. DoomedIsGone' /\ TerminationHolds'
  <2>1. hostHistory.doomed \cup hostHistory.terminated \subseteq Clients
    BY DEF HostInv, HostType, HostHistoryType
  <2> QED BY <1>1, <1>2, <1>3, <1>8, <2>1 DEF HostInv, DoomedIsGone, TerminationHolds
<1>10. RuntimeHasOwner' /\ OwnedIsArmed' /\ CaptureIsArmed'
  BY <1>4, <1>5, RuntimeFollows DEF HostType
<1> QED BY <1>5, <1>6, <1>7, <1>9, <1>10 DEF HostInv

(* A session that runs begins to stop.                                                         *)
LEMMA StopsKeep ==
    ASSUME HostInv, NEW c \in Clients, stream_of[c] \in {"running", "stopping"},
           stream_of' = [stream_of EXCEPT ![c] = "stopping"],
           UNCHANGED <<rtsp, startup, cleaner, webrtc, runtime, hostHistory>>
    PROVE  HostInv'
<1>1. /\ stream_of' \in [Clients -> Streams] /\ stream_of'[c] = "stopping"
      /\ \A d \in Clients : d # c => stream_of'[d] = stream_of[d]
  BY DEF HostInv, HostType, Streams
<1>2. HostType'
  BY <1>1 DEF HostInv, HostType
<1>3. StartsOnce'
  <2>1. /\ \A i \in 1..Len(startup.tasks) : startup.tasks[i] \in Clients
        /\ startup.busy \in Clients \cup {None} /\ rtsp.pending \subseteq Clients
    BY DEF HostInv, HostType, StartupType, RtspType
  <2> QED BY <1>1, <2>1 DEF HostInv, StartsOnce
<1>4. JoinedByOne'
  <2>1. rtsp.running \subseteq Clients
    BY DEF HostInv, HostType, RtspType
  <2> QED BY <1>1, <2>1 DEF HostInv, JoinedByOne, Takes
<1>5. DoomedIsGone' /\ TerminationHolds'
  <2>1. hostHistory.doomed \cup hostHistory.terminated \subseteq Clients
    BY DEF HostInv, HostType, HostHistoryType
  <2> QED BY <1>1, <2>1 DEF HostInv, DoomedIsGone, TerminationHolds
<1>6. RuntimeHasOwner' /\ OwnedIsArmed' /\ CaptureIsArmed'
  <2>1. (Wanted' <=> Wanted) /\ (Owned' <=> Owned) /\ (GateFree' <=> GateFree)
    BY DEF Wanted, Owned, startup_count, GateFree
  <2>2. RuntimeMoves
    BY <2>1 DEF RuntimeMoves
  <2> QED BY <1>2, <2>2, RuntimeFollows DEF HostType
<1> QED BY <1>2, <1>3, <1>4, <1>5, <1>6 DEF HostInv

(* A launch is announced, and its start is given to the worker unless the server is stopping.   *)
LEMMA AnnounceKeeps == ASSUME HostInv, NEW c \in Clients, cmd_announce(c) PROVE HostInv'
<1>1. /\ startup \in StartupType /\ stream_of \in [Clients -> Streams] /\ stream_of[c] = "launched"
      /\ GateFree /\ UNCHANGED <<rtsp, cleaner, webrtc, runtime, hostHistory>>
  BY DEF HostInv, HostType, cmd_announce
<1>2. /\ stream_of' \in [Clients -> Streams] /\ stream_of'[c] = "announced"
      /\ \A d \in Clients : d # c => stream_of'[d] = stream_of[d]
  BY <1>1 DEF cmd_announce, Streams
<1>3. startup' = startup \/ startup' = [startup EXCEPT !.tasks = Append(@, c)]
  BY DEF cmd_announce
<1> DEFINE added == Append(startup.tasks, c)
<1>4. startup.tasks \in Seq(Clients)
  BY <1>1 DEF StartupType
<1>5. /\ added \in Seq(Clients) /\ Len(added) = Len(startup.tasks) + 1 /\ Len(startup.tasks) \in Nat
      /\ added[Len(startup.tasks) + 1] = c
      /\ \A i \in 1..Len(startup.tasks) : added[i] = startup.tasks[i] /\ startup.tasks[i] \in Clients
  BY <1>4, AppendProperties
<1> HIDE DEF added
<1>6. /\ startup' \in StartupType /\ startup'.busy = startup.busy /\ startup'.posted = startup.posted
      /\ startup'.tasks \in {startup.tasks, added}
  BY <1>1, <1>3, <1>5 DEF StartupType, added
<1>7. HostType'
  BY <1>1, <1>2, <1>6 DEF HostInv, HostType
<1>8. startup.busy # c /\ startup.busy \in Clients \cup {None} /\ rtsp.pending \subseteq Clients
  BY <1>1, HostSessionsAssumption DEF HostInv, HostType, StartsOnce, StartupType, RtspType, None
<1>9. \A i \in 1..Len(startup.tasks) : startup.tasks[i] # c
  BY <1>1 DEF HostInv, StartsOnce
<1>10. StartsOnce'
  <2>1. \A i \in 1..Len(startup.tasks) :
           /\ stream_of'[startup.tasks[i]] = "announced" /\ startup.tasks[i] # startup.busy
           /\ \A j \in 1..Len(startup.tasks) : startup.tasks[i] = startup.tasks[j] => i = j
    BY <1>2, <1>5, <1>9 DEF HostInv, StartsOnce
  <2>2. \A i \in 1..Len(added) :
           /\ stream_of'[added[i]] = "announced" /\ added[i] # startup.busy
           /\ \A j \in 1..Len(added) : added[i] = added[j] => i = j
    <3>1. \A i \in 1..Len(added) : (i \in 1..Len(startup.tasks) /\ added[i] = startup.tasks[i])
                                   \/ (i = Len(startup.tasks) + 1 /\ added[i] = c)
      BY <1>5
    <3> QED BY <1>2, <1>8, <1>9, <2>1, <3>1
  <2>3. \A d \in rtsp.pending : stream_of'[d] # "new"
    BY <1>2, <1>8 DEF HostInv, StartsOnce
  <2>4. startup.busy # None => stream_of'[startup.busy] = "announced" /\ rtsp.gate = "worker"
    BY <1>2, <1>8 DEF HostInv, StartsOnce
  <2>5. /\ \A i \in 1..Len(startup'.tasks) :
             /\ stream_of'[startup'.tasks[i]] = "announced" /\ startup'.tasks[i] # startup.busy
             /\ \A j \in 1..Len(startup'.tasks) : startup'.tasks[i] = startup'.tasks[j] => i = j
    <3>1. CASE startup'.tasks = startup.tasks
      BY <2>1, <3>1
    <3>2. CASE startup'.tasks = added
      BY <2>2, <3>2
    <3> QED BY <1>6, <3>1, <3>2
  <2> QED BY <1>1, <1>6, <2>3, <2>4, <2>5 DEF StartsOnce
<1>11. JoinedByOne'
  <2>1. rtsp.running \subseteq Clients /\ c \notin rtsp.running
    BY <1>1 DEF HostInv, HostType, RtspType, JoinedByOne
  <2> QED BY <1>1, <1>2, <2>1 DEF HostInv, JoinedByOne, Takes
<1>12. DoomedIsGone' /\ TerminationHolds'
  <2>1. hostHistory.doomed \cup hostHistory.terminated \subseteq Clients
    BY DEF HostInv, HostType, HostHistoryType
  <2> QED BY <1>1, <1>2, <1>6, <2>1 DEF HostInv, DoomedIsGone, TerminationHolds
<1>13. RuntimeHasOwner' /\ OwnedIsArmed' /\ CaptureIsArmed'
  <2>1. Wanted' <=> Wanted
    BY <1>1 DEF Wanted
  <2>2. Owned'
    BY <1>1 DEF Owned, cmd_announce
  <2>3. RuntimeMoves
    BY <1>1, <2>1, <2>2 DEF RuntimeMoves
  <2> QED BY <1>7, <2>3, RuntimeFollows DEF HostType
<1> QED BY <1>7, <1>10, <1>11, <1>12, <1>13 DEF HostInv

--------------------------------------------------------------------------------
(* Launches are dropped, and whoever dropped one has finalized; the thread that did may go on.   *)
CleanersStay ==
    /\ cleaner' \in [Threads -> CleanerType]
    /\ \A t \in Threads : /\ cleaner'[t].todo = cleaner[t].todo /\ cleaner'[t].joins = cleaner[t].joins
                          /\ cleaner'[t].at # "stopping" => cleaner[t].todo = {} /\ cleaner[t].joins = None

LEMMA PendingShrinks ==
    ASSUME HostInv, NEW left, left \subseteq rtsp.pending, rtsp' = [rtsp EXCEPT !.pending = left],
           FinalizeIf(left # rtsp.pending), UNCHANGED <<startup, stream_of, webrtc, hostHistory>>,
           CleanersStay,
           cleaner'["cancel"].at \in Collected \cup {"collecting"} =>
              cleaner["cancel"].at \in Collected \cup {"collecting"} \/ (left = {} /\ GateFree),
           cleaner'["cancel"].at \in Collected => cleaner["cancel"].at \in Collected
    PROVE  HostInv'
<1>1. /\ rtsp \in RtspType /\ startup \in StartupType /\ hostHistory \in HostHistoryType
  BY DEF HostInv, HostType
<1>2. /\ rtsp' \in RtspType /\ rtsp'.pending = left /\ rtsp'.listed = rtsp.listed
      /\ rtsp'.running = rtsp.running /\ rtsp'.gate = rtsp.gate
  BY <1>1 DEF RtspType
<1>3. Wanted' => Wanted
  BY <1>2 DEF Wanted
<1>4. runtime' \in RuntimeType /\ RuntimeMoves
  <2>1. CASE FinalizeIfIdle
    BY <1>3, <2>1, Finalizes
  <2>2. CASE UNCHANGED runtime /\ left = rtsp.pending
    <3>1. (GateFree' <=> GateFree) /\ (Owned' <=> Owned)
      BY <1>2, <2>2 DEF GateFree, Owned, startup_count
    <3> QED BY <1>3, <2>2, <3>1, Keeps
  <2> QED BY <2>1, <2>2 DEF FinalizeIf
<1>5. HostType'
  BY <1>2, <1>4 DEF HostInv, HostType, CleanersStay
<1>6. StartsOnce'
  BY <1>2 DEF HostInv, StartsOnce
<1>7. JoinedByOne'
  <2>1. ASSUME NEW t \in Threads, NEW c PROVE Takes(t, c)' <=> Takes(t, c)
    BY DEF Takes, CleanersStay
  <2> QED BY <1>2, <2>1 DEF HostInv, JoinedByOne, CleanersStay
<1>8. DoomedIsGone' /\ TerminationHolds'
  <2>1. GateFree => startup.busy = None
    BY DEF HostInv, StartsOnce, GateFree
  <2>2. None \notin hostHistory.doomed
    BY <1>1, HostSessionsAssumption DEF HostHistoryType, None
  <2>3. DoomedIsGone'
    BY <1>2, <2>1, <2>2 DEF HostInv, DoomedIsGone
  <2> QED BY <1>2, <2>3 DEF HostInv, TerminationHolds
<1>9. RuntimeHasOwner' /\ OwnedIsArmed' /\ CaptureIsArmed'
  BY <1>4, <1>5, RuntimeFollows DEF HostType
<1> QED BY <1>5, <1>6, <1>7, <1>8, <1>9 DEF HostInv

LEMMA SameCleaners == ASSUME HostInv, UNCHANGED cleaner PROVE CleanersStay
BY DEF HostInv, HostType, JoinedByOne, CleanersStay

LEMMA TimerKeeps == ASSUME HostInv, NEW c \in Clients, arm_launch_timer(c) PROVE HostInv'
<1> DEFINE left == rtsp.pending \ {c}
<1>1. left \subseteq rtsp.pending /\ rtsp' = [rtsp EXCEPT !.pending = left]
  BY DEF arm_launch_timer
<1>2. FinalizeIf(left # rtsp.pending) /\ UNCHANGED <<startup, stream_of, cleaner, webrtc, hostHistory>>
  BY DEF arm_launch_timer, FinalizeIf
<1> HIDE DEF left
<1> QED BY <1>1, <1>2, SameCleaners, PendingShrinks

LEMMA SessionClearKeeps == ASSUME HostInv, session_clear PROVE HostInv'
<1> DEFINE left == rtsp.pending \ {control.matched}
<1>1. left \subseteq rtsp.pending /\ rtsp' = [rtsp EXCEPT !.pending = left]
  BY DEF session_clear
<1>2. FinalizeIf(left # rtsp.pending) /\ UNCHANGED <<startup, stream_of, cleaner, webrtc, hostHistory>>
  <2>1. control.matched \in rtsp.pending <=> left # rtsp.pending
    OBVIOUS
  <2> QED BY <2>1 DEF session_clear, FinalizeIf
<1> HIDE DEF left
<1> QED BY <1>1, <1>2, SameCleaners, PendingShrinks

(* A thread is somewhere else in its loop, with the same sessions to join or to have joined.     *)
LEMMA CleanerMoves ==
    ASSUME HostInv, NEW t \in Threads, NEW x \in CleanerType, cleaner' = [cleaner EXCEPT ![t] = x]
    PROVE  /\ cleaner' \in [Threads -> CleanerType] /\ cleaner'[t] = x
           /\ \A u \in Threads : u # t => cleaner'[u] = cleaner[u]
BY DEF HostInv, HostType

LEMMA CleanerProceeds ==
    ASSUME HostInv, NEW t \in Threads, NEW x \in CleanerType, cleaner' = [cleaner EXCEPT ![t] = x],
           x.todo = cleaner[t].todo, x.joins = cleaner[t].joins,
           x.at # "stopping" => x.todo = {} /\ x.joins = None
    PROVE  CleanersStay
<1>1. /\ cleaner' \in [Threads -> CleanerType] /\ cleaner'[t] = x
      /\ \A u \in Threads : u # t => cleaner'[u] = cleaner[u]
  BY CleanerMoves
<1> QED BY <1>1 DEF CleanersStay, HostInv, JoinedByOne

LEMMA CancelPendingKeeps ==
    ASSUME HostInv, NEW t \in Threads, cancel_pending_launches(t) PROVE HostInv'
<1> DEFINE call == cleaner[t]
           x == [call EXCEPT !.at = "collecting"]
<1>1. call \in CleanerType /\ call.at = "cancelling" /\ call.todo = {} /\ call.joins = None
  BY DEF HostInv, HostType, JoinedByOne, cancel_pending_launches
<1>2. x \in CleanerType /\ x.at = "collecting" /\ x.todo = {} /\ x.joins = None
  <2> HIDE DEF call
  <2> QED BY <1>1 DEF CleanerType
<1>3. cleaner' = [cleaner EXCEPT ![t] = x]
  BY DEF cancel_pending_launches, HostInv, HostType
<1> HIDE DEF x
<1>4. CleanersStay
  BY <1>1, <1>2, <1>3, CleanerProceeds
<1>5. /\ cleaner'[t].at = "collecting"
      /\ \A u \in Threads : u # t => cleaner'[u] = cleaner[u]
  BY <1>2, <1>3, CleanerMoves
<1>6. /\ {} \subseteq rtsp.pending /\ rtsp' = [rtsp EXCEPT !.pending = {}] /\ GateFree
      /\ FinalizeIf({} # rtsp.pending) /\ UNCHANGED <<startup, stream_of, webrtc, hostHistory>>
  BY DEF cancel_pending_launches, FinalizeIf
<1>7. "cancel" \in Threads
  BY DEF Threads
<1>8. cleaner'["cancel"].at \in Collected => cleaner["cancel"].at \in Collected
  BY <1>5, <1>7 DEF Collected
<1> QED BY <1>4, <1>6, <1>8, PendingShrinks

--------------------------------------------------------------------------------
(* The startup pool.  What stays of its tasks when the first is taken.                           *)
LEMMA FirstTask ==
    ASSUME HostInv, startup.tasks # <<>>
    PROVE  /\ Head(startup.tasks) \in Clients /\ Head(startup.tasks) # startup.busy
           /\ Tail(startup.tasks) \in Seq(Clients) /\ stream_of[Head(startup.tasks)] = "announced"
           /\ \A i \in 1..Len(Tail(startup.tasks)) :
                 /\ stream_of[Tail(startup.tasks)[i]] = "announced" /\ Tail(startup.tasks)[i] # startup.busy
                 /\ Tail(startup.tasks)[i] # Head(startup.tasks) /\ Tail(startup.tasks)[i] \in Clients
                 /\ \A j \in 1..Len(Tail(startup.tasks)) :
                       Tail(startup.tasks)[i] = Tail(startup.tasks)[j] => i = j
<1> DEFINE q == startup.tasks
           rest == Tail(q)
<1>1. q \in Seq(Clients) /\ q # <<>>
  BY DEF HostInv, HostType, StartupType
<1>2. /\ Head(q) \in Clients /\ Head(q) = q[1] /\ 1 \in 1..Len(q) /\ rest \in Seq(Clients)
      /\ Len(rest) = Len(q) - 1 /\ \A i \in 1..(Len(q) - 1) : rest[i] = q[i + 1] /\ q[i + 1] \in Clients
  BY <1>1
<1>3. \A i \in 1..Len(rest) : i + 1 \in 1..Len(q) /\ rest[i] = q[i + 1] /\ i + 1 # 1 /\ rest[i] \in Clients
  BY <1>1, <1>2
<1>4. \A i \in 1..Len(q) : /\ stream_of[q[i]] = "announced" /\ q[i] # startup.busy
                           /\ \A j \in 1..Len(q) : q[i] = q[j] => i = j
  BY DEF HostInv, StartsOnce
<1> HIDE DEF q, rest
<1>5. ASSUME NEW i \in 1..Len(rest)
      PROVE  /\ stream_of[rest[i]] = "announced" /\ rest[i] # startup.busy
             /\ rest[i] # Head(q) /\ rest[i] \in Clients
             /\ \A j \in 1..Len(rest) : rest[i] = rest[j] => i = j
  <2>1. /\ stream_of[rest[i]] = "announced" /\ rest[i] # startup.busy /\ rest[i] \in Clients
        /\ rest[i] # Head(q)
    BY <1>2, <1>3, <1>4
  <2>2. ASSUME NEW j \in 1..Len(rest), rest[i] = rest[j] PROVE i = j
    <3>1. i + 1 = j + 1
      BY <1>3, <1>4, <2>2
    <3> QED BY <3>1
  <2> QED BY <2>1, <2>2
<1> QED BY <1>2, <1>4, <1>5 DEF q, rest

(* What a step of the pool leaves alone, if it starts nothing.                                   *)
LEMMA PoolKeeps ==
    ASSUME HostInv, UNCHANGED <<stream_of, cleaner, webrtc, hostHistory>>,
           startup' \in StartupType, rtsp' \in RtspType, rtsp'.pending = rtsp.pending,
           rtsp'.listed = rtsp.listed, rtsp'.running = rtsp.running,
           \/ startup'.tasks = startup.tasks
           \/ startup.tasks # <<>> /\ startup'.tasks = Tail(startup.tasks),
           \/ startup'.busy \in {startup.busy, None} /\ (startup'.busy # None => rtsp'.gate = rtsp.gate)
           \/ /\ startup.busy = None /\ startup.tasks # <<>> /\ startup'.tasks = Tail(startup.tasks)
              /\ startup'.busy = Head(startup.tasks) /\ startup'.busy \in rtsp.pending
              /\ rtsp'.gate = "worker",
           runtime' \in RuntimeType, RuntimeMoves
    PROVE  HostInv'
<1>1. HostType'
  BY DEF HostInv, HostType
<1>2. StartsOnce'
  <2>1. \A c \in rtsp.pending : stream_of[c] # "new"
    BY DEF HostInv, StartsOnce
  <2>2. \A i \in 1..Len(startup'.tasks) :
           /\ stream_of[startup'.tasks[i]] = "announced" /\ startup'.tasks[i] # startup.busy
           /\ startup'.tasks[i] \in Clients
           /\ \A j \in 1..Len(startup'.tasks) : startup'.tasks[i] = startup'.tasks[j] => i = j
    <3>1. CASE startup'.tasks = startup.tasks
      BY <3>1 DEF HostInv, HostType, StartsOnce, StartupType
    <3>2. CASE startup.tasks # <<>> /\ startup'.tasks = Tail(startup.tasks)
      BY <3>2, FirstTask
    <3> QED BY <3>1, <3>2
  <2>3. None \notin Clients
    BY HostSessionsAssumption DEF None
  <2>4. CASE startup'.busy \in {startup.busy, None} /\ (startup'.busy # None => rtsp'.gate = rtsp.gate)
    BY <2>1, <2>2, <2>3, <2>4 DEF HostInv, StartsOnce
  <2>5. CASE /\ startup.busy = None /\ startup.tasks # <<>> /\ startup'.tasks = Tail(startup.tasks)
             /\ startup'.busy = Head(startup.tasks) /\ rtsp'.gate = "worker"
    BY <2>1, <2>2, <2>5, FirstTask DEF StartsOnce
  <2> QED BY <2>4, <2>5
<1>3. JoinedByOne'
  BY DEF HostInv, JoinedByOne, Takes
<1>4. DoomedIsGone' /\ TerminationHolds'
  <2>1. None \notin hostHistory.doomed \cup hostHistory.terminated
    BY HostSessionsAssumption DEF HostInv, HostType, HostHistoryType, None
  <2>2. startup'.busy \in {startup.busy, None} \cup rtsp.pending
    OBVIOUS
  <2> QED BY <2>1, <2>2 DEF HostInv, DoomedIsGone, TerminationHolds
<1>5. RuntimeHasOwner' /\ OwnedIsArmed' /\ CaptureIsArmed'
  BY <1>1, RuntimeFollows DEF HostType
<1> QED BY <1>1, <1>2, <1>3, <1>4, <1>5 DEF HostInv

LEMMA FinishStartupKeeps == ASSUME HostInv, finish_startup PROVE HostInv'
<1>1. /\ startup' \in StartupType /\ startup'.tasks = startup.tasks /\ startup'.busy = startup.busy
      /\ rtsp \in RtspType /\ UNCHANGED <<rtsp, stream_of, cleaner, webrtc, hostHistory>>
  BY DEF HostInv, HostType, finish_startup, StartupType
<1>2. runtime' \in RuntimeType /\ RuntimeMoves
  <2>1. Wanted' => Wanted
    BY <1>1 DEF Wanted
  <2> QED BY <2>1, Finalizes DEF finish_startup
<1> QED BY <1>1, <1>2, PoolKeeps

LEMMA DiscardKeeps == ASSUME HostInv, Discard PROVE HostInv'
<1>1. /\ startup \in StartupType /\ startup.tasks # <<>> /\ startup.busy = None /\ rtsp \in RtspType
      /\ UNCHANGED <<rtsp, stream_of, cleaner, webrtc, runtime, hostHistory>>
  BY DEF HostInv, HostType, Discard
<1> DEFINE rest == Tail(startup.tasks)
<1>2. rest \in Seq(Clients) /\ Len(rest) \in Nat
  BY <1>1, FirstTask
<1>3. startup' = [startup EXCEPT !.busy = None, !.posted = startup.posted + 1, !.tasks = rest]
  BY DEF Discard, Completed
<1> HIDE DEF rest
<1>4. /\ startup' \in StartupType /\ startup'.tasks = rest /\ startup'.busy = None
      /\ startup'.posted = startup.posted + 1
  <2> DEFINE posted == startup.posted + 1
  <2>1. posted \in Nat /\ startup' = [startup EXCEPT !.busy = None, !.posted = posted, !.tasks = rest]
    BY <1>1, <1>3 DEF StartupType
  <2> HIDE DEF posted
  <2>2. startup' \in StartupType /\ startup'.tasks = rest /\ startup'.busy = None /\ startup'.posted = posted
    BY <1>1, <1>2, <2>1 DEF StartupType
  <2> QED BY <2>2 DEF posted
<1>5. runtime' \in RuntimeType /\ RuntimeMoves
  <2>1. Wanted' => Wanted
    BY <1>1 DEF Wanted
  <2>2. Owned'
    <3>1. startup_count' > 0
      BY <1>1, <1>2, <1>4 DEF startup_count, StartupType
    <3> QED BY <3>1 DEF Owned
  <2> QED BY <1>1, <2>1, <2>2, Keeps
<1> QED BY <1>1, <1>4, <1>5, PoolKeeps DEF rest

LEMMA BeginStartKeeps == ASSUME HostInv, BeginStart PROVE HostInv'
<1>1. /\ startup \in StartupType /\ startup.tasks # <<>> /\ startup.busy = None /\ rtsp \in RtspType
      /\ Head(startup.tasks) \in rtsp.pending
      /\ UNCHANGED <<stream_of, cleaner, webrtc, runtime, hostHistory>>
  BY DEF HostInv, HostType, BeginStart
<1> DEFINE rest == Tail(startup.tasks)
           first == Head(startup.tasks)
<1>2. rest \in Seq(Clients) /\ first \in Clients
  BY <1>1, FirstTask
<1>3. startup' = [startup EXCEPT !.busy = first, !.tasks = rest] /\ rtsp' = [rtsp EXCEPT !.gate = "worker"]
  BY DEF BeginStart
<1>4. rtsp' \in RtspType /\ rtsp'.gate = "worker" /\ rtsp'.pending = rtsp.pending
      /\ rtsp'.listed = rtsp.listed /\ rtsp'.running = rtsp.running
  BY <1>1, <1>3 DEF RtspType
<1> HIDE DEF rest, first
<1>5. startup' \in StartupType /\ startup'.tasks = rest /\ startup'.busy = first
  BY <1>1, <1>2, <1>3 DEF StartupType
<1>6. runtime' \in RuntimeType /\ RuntimeMoves
  <2>1. (Wanted' => Wanted) /\ ~GateFree'
    BY <1>1, <1>4 DEF Wanted, GateFree
  <2> QED BY <1>1, <2>1, Keeps
<1> QED BY <1>1, <1>4, <1>5, <1>6, PoolKeeps DEF rest, first

LEMMA FailStartKeeps == ASSUME HostInv, FailStart PROVE HostInv'
<1>1. /\ startup \in StartupType /\ rtsp \in RtspType
      /\ UNCHANGED <<stream_of, cleaner, webrtc, runtime, hostHistory>>
  BY DEF HostInv, HostType, FailStart
<1>2. startup' = [startup EXCEPT !.busy = None, !.posted = startup.posted + 1]
      /\ rtsp' = [rtsp EXCEPT !.gate = "free"]
  BY DEF FailStart, Completed
<1>3. rtsp' \in RtspType /\ rtsp'.gate = "free" /\ rtsp'.pending = rtsp.pending
      /\ rtsp'.listed = rtsp.listed /\ rtsp'.running = rtsp.running
  BY <1>1, <1>2 DEF RtspType
<1>4. /\ startup' \in StartupType /\ startup'.tasks = startup.tasks /\ startup'.busy = None
      /\ startup'.posted = startup.posted + 1
  <2> DEFINE posted == startup.posted + 1
  <2>1. posted \in Nat /\ startup' = [startup EXCEPT !.busy = None, !.posted = posted]
    BY <1>1, <1>2 DEF StartupType
  <2> HIDE DEF posted
  <2>2. /\ startup' \in StartupType /\ startup'.tasks = startup.tasks /\ startup'.busy = None
        /\ startup'.posted = posted
    BY <1>1, <2>1 DEF StartupType
  <2> QED BY <2>2 DEF posted
<1>5. runtime' \in RuntimeType /\ RuntimeMoves
  <2>1. Wanted' => Wanted
    BY <1>1, <1>3 DEF Wanted
  <2>2. Owned'
    <3>1. Len(startup.tasks) \in Nat /\ startup.posted \in Nat
      BY <1>1 DEF StartupType
    <3>2. startup_count' > 0
      BY <1>4, <3>1 DEF startup_count
    <3> QED BY <3>2 DEF Owned
  <2> QED BY <1>1, <2>1, <2>2, Keeps
<1> QED BY <1>1, <1>3, <1>4, <1>5, PoolKeeps

(* The worker's session runs, for the first and only time.                                       *)
LEMMA PublishKeeps == ASSUME HostInv, NEW c \in Clients, Publish(c) PROVE HostInv'
<1>1. /\ startup \in StartupType /\ rtsp \in RtspType /\ stream_of \in [Clients -> Streams]
      /\ runtime \in RuntimeType /\ startup.busy = c /\ c # None /\ stream_of[c] = "announced"
      /\ UNCHANGED <<cleaner, webrtc, hostHistory>>
  BY HostSessionsAssumption DEF HostInv, HostType, Publish, StartsOnce, None
<1>2. /\ rtsp' \in RtspType /\ rtsp'.gate = "free" /\ rtsp'.pending = rtsp.pending
      /\ rtsp'.listed = rtsp.listed \cup {c} /\ rtsp'.running = rtsp.running \cup {c}
  BY <1>1 DEF Publish, RtspType
<1>3. /\ stream_of' \in [Clients -> Streams] /\ stream_of'[c] = "running"
      /\ \A d \in Clients : d # c => stream_of'[d] = stream_of[d]
  BY <1>1 DEF Publish, Streams
<1>4. startup' \in StartupType /\ startup'.tasks = startup.tasks /\ startup'.busy = None
  <2> DEFINE posted == startup.posted + 1
  <2>1. posted \in Nat /\ startup' = [startup EXCEPT !.busy = None, !.posted = posted]
    BY <1>1 DEF StartupType, Publish, Completed
  <2> HIDE DEF posted
  <2> QED BY <1>1, <2>1 DEF StartupType
<1>5. runtime' \in RuntimeType /\ RuntimeMoves
  <2>1. Owned'
    BY <1>2 DEF Owned
  <2>2. CASE rtsp.running = {}
    BY <1>1, <2>1, <2>2, Arms DEF Publish, RuntimeType
  <2>3. CASE rtsp.running # {}
    <3>1. Wanted' => Wanted
      BY <2>3 DEF Wanted
    <3> QED BY <2>1, <2>3, <3>1, Keeps DEF Publish
  <2> QED BY <2>2, <2>3
<1>6. HostType'
  BY <1>1, <1>2, <1>3, <1>4, <1>5 DEF HostInv, HostType
<1>7. StartsOnce'
  <2>1. \A i \in 1..Len(startup.tasks) : startup.tasks[i] \in Clients /\ startup.tasks[i] # c
    BY <1>1 DEF HostInv, StartsOnce, StartupType
  <2>2. None \notin Clients /\ rtsp.pending \subseteq Clients
    BY <1>1, HostSessionsAssumption DEF None, RtspType
  <2> QED BY <1>2, <1>3, <1>4, <2>1, <2>2 DEF HostInv, StartsOnce
<1>8. JoinedByOne'
  <2>1. rtsp.running \subseteq Clients /\ c \notin rtsp.running
    BY <1>1 DEF HostInv, JoinedByOne, RtspType
  <2>2. \A t \in Threads : ~Takes(t, c)
    BY <2>1 DEF HostInv, JoinedByOne
  <2>3. ASSUME NEW t \in Threads, NEW d PROVE Takes(t, d)' <=> Takes(t, d)
    BY <1>1 DEF Takes
  <2> QED BY <1>1, <1>2, <1>3, <2>1, <2>2, <2>3 DEF HostInv, JoinedByOne
<1>9. DoomedIsGone' /\ TerminationHolds'
  <2>1. hostHistory.doomed \cup hostHistory.terminated \subseteq Clients /\ None \notin Clients
    BY HostSessionsAssumption DEF HostInv, HostType, HostHistoryType, None
  <2>2. TerminationHolds'
    BY <1>1, <1>2, <1>4, <2>1 DEF HostInv, TerminationHolds
  <2>3. \A d \in hostHistory.doomed \cup hostHistory.terminated : stream_of'[d] # "new"
    BY <1>3, <2>1 DEF HostInv, DoomedIsGone
  <2>4. cleaner["cancel"].at \in Collected \cup {"collecting"} =>
           hostHistory.doomed \cap (rtsp.pending \cup {None}) = {}
    BY <2>1 DEF HostInv, DoomedIsGone
  <2>5. cleaner["cancel"].at \in Collected => hostHistory.doomed \cap (rtsp.listed \cup {c}) = {}
    BY <1>1 DEF HostInv, DoomedIsGone
  <2> QED BY <1>1, <1>2, <1>4, <2>2, <2>3, <2>4, <2>5 DEF DoomedIsGone
<1>10. RuntimeHasOwner' /\ OwnedIsArmed' /\ CaptureIsArmed'
  BY <1>5, <1>6, RuntimeFollows DEF HostType
<1> QED BY <1>6, <1>7, <1>8, <1>9, <1>10 DEF HostInv

--------------------------------------------------------------------------------
(* A thread takes sessions off the list.                                                         *)
LEMMA CollectKeeps ==
    ASSUME HostInv, NEW t \in Threads, NEW collected, collected \subseteq rtsp.listed,
           cleaner[t].at # "stopping", Collect(t, collected),
           t = "cancel" => cleaner[t].at = "collecting" /\ collected = rtsp.listed,
           UNCHANGED <<startup, stream_of, webrtc, runtime, hostHistory>>
    PROVE  HostInv'
<1> DEFINE call == cleaner[t]
           at == IF collected = {} THEN AfterClear(t) ELSE "stopping"
           x == [call EXCEPT !.at = at, !.todo = collected]
<1>1. /\ rtsp \in RtspType /\ call \in CleanerType /\ call.todo = {} /\ call.joins = None
      /\ collected \subseteq Clients
  BY DEF HostInv, HostType, JoinedByOne, RtspType
<1>2. /\ at \in {"idle", "gone", "terminating", "stopping"} /\ (at # "stopping" => collected = {})
  BY DEF AfterClear
<1>3. cleaner' = [cleaner EXCEPT ![t] = x]
  BY DEF Collect, HostInv, HostType
<1>4. x \in CleanerType /\ x.at = at /\ x.todo = collected /\ x.joins = None
  <2> HIDE DEF call, at
  <2> QED BY <1>1, <1>2 DEF CleanerType
<1> HIDE DEF x, at
<1>5. /\ cleaner' \in [Threads -> CleanerType] /\ cleaner'[t] = x
      /\ \A u \in Threads : u # t => cleaner'[u] = cleaner[u]
  BY <1>3, <1>4, CleanerMoves
<1>6. /\ rtsp' \in RtspType /\ rtsp'.listed = rtsp.listed \ collected /\ rtsp'.pending = rtsp.pending
      /\ rtsp'.running = rtsp.running /\ rtsp'.gate = rtsp.gate
  BY <1>1 DEF Collect, RtspType
<1>7. HostType'
  BY <1>5, <1>6 DEF HostInv, HostType
<1>8. StartsOnce'
  BY <1>6 DEF HostInv, StartsOnce
<1>9. JoinedByOne'
  <2>1. None \notin Clients
    BY HostSessionsAssumption DEF None
  <2>2. \A c \in Clients : /\ ~Takes(t, c)
                           /\ (Takes(t, c)' <=> c \in collected)
                           /\ ~(c \in cleaner'[t].todo /\ cleaner'[t].joins = c)
    BY <1>1, <1>4, <1>5, <2>1 DEF Takes
  <2>3. \A u \in Threads : u # t => \A c \in Clients : /\ Takes(u, c)' <=> Takes(u, c)
                                                       /\ Takes(u, c) => c \notin rtsp.listed
                                                       /\ cleaner'[u] = cleaner[u]
    BY <1>5 DEF Takes, HostInv, JoinedByOne
  <2>4. /\ rtsp'.listed \subseteq rtsp'.running
        /\ \A c \in rtsp'.running : stream_of'[c] \in {"running", "stopping"}
        /\ collected \subseteq rtsp'.running /\ collected \cap rtsp'.listed = {}
    BY <1>6 DEF HostInv, JoinedByOne
  <2>5. ASSUME NEW u \in Threads, NEW c \in Clients, Takes(u, c)'
        PROVE  /\ c \in rtsp'.running /\ c \notin rtsp'.listed
               /\ ~(c \in cleaner'[u].todo /\ cleaner'[u].joins = c)
               /\ \A v \in Threads : Takes(v, c)' => u = v
    <3>1. CASE u = t
      BY <2>2, <2>3, <2>4, <2>5, <3>1
    <3>2. CASE u # t
      <4>1. Takes(u, c) /\ c \notin rtsp.listed /\ cleaner'[u] = cleaner[u]
        BY <2>3, <2>5, <3>2
      <4>2. /\ c \in rtsp.running /\ ~(c \in cleaner[u].todo /\ cleaner[u].joins = c)
            /\ \A v \in Threads : Takes(v, c) => u = v
        BY <4>1 DEF HostInv, JoinedByOne
      <4> QED BY <1>6, <2>2, <2>3, <4>1, <4>2
    <3> QED BY <3>1, <3>2
  <2>6. \A u \in Threads : cleaner'[u].at # "stopping" => cleaner'[u].todo = {} /\ cleaner'[u].joins = None
    BY <1>2, <1>4, <1>5 DEF HostInv, JoinedByOne
  <2> QED BY <2>4, <2>5, <2>6 DEF JoinedByOne
<1>10. DoomedIsGone' /\ TerminationHolds'
  <2>1. "cancel" \in Threads
    BY DEF Threads
  <2>2. CASE t = "cancel"
    BY <1>6, <2>2 DEF HostInv, DoomedIsGone, TerminationHolds
  <2>3. CASE t # "cancel"
    BY <1>5, <1>6, <2>1, <2>3 DEF HostInv, DoomedIsGone, TerminationHolds
  <2> QED BY <2>2, <2>3
<1>11. RuntimeHasOwner' /\ OwnedIsArmed' /\ CaptureIsArmed'
  <2>1. (Wanted' <=> Wanted) /\ (Owned' <=> Owned) /\ (GateFree' <=> GateFree)
    BY <1>6 DEF Wanted, Owned, startup_count, GateFree
  <2>2. RuntimeMoves
    BY <2>1 DEF RuntimeMoves
  <2> QED BY <1>7, <2>2, RuntimeFollows DEF HostType
<1> QED BY <1>7, <1>8, <1>9, <1>10, <1>11 DEF HostInv

LEMMA CollectingKeeps ==
    ASSUME HostInv,
           \/ \E t \in Threads : CollectAll(t) \/ Sweep(t)
           \/ \E c \in Clients : disconnect_client(c)
    PROVE  HostInv'
<1>1. ASSUME NEW t \in Threads, CollectAll(t) PROVE HostInv'
  BY <1>1, CollectKeeps DEF CollectAll
<1>2. ASSUME NEW t \in Threads, Sweep(t) PROVE HostInv'
  <2> DEFINE collected == {c \in rtsp.listed : stream_of[c] = "stopping"}
  <2>1. /\ collected \subseteq rtsp.listed /\ Collect(t, collected) /\ cleaner[t].at = "idle"
        /\ t # "cancel" /\ UNCHANGED <<startup, stream_of, webrtc, runtime, hostHistory>>
    BY <1>2 DEF Sweep, Unoccupied
  <2> HIDE DEF collected
  <2> QED BY <2>1, CollectKeeps
<1>3. ASSUME NEW c \in Clients, disconnect_client(c) PROVE HostInv'
  <2>1. /\ {c} \subseteq rtsp.listed /\ Collect("webui", {c}) /\ cleaner["webui"].at = "idle"
        /\ "webui" \in Threads /\ "webui" # "cancel"
        /\ UNCHANGED <<startup, stream_of, webrtc, runtime, hostHistory>>
    BY <1>3 DEF disconnect_client, Unoccupied, Threads
  <2> QED BY <2>1, CollectKeeps
<1> QED BY <1>1, <1>2, <1>3

(* It joins one of them.                                                                         *)
LEMMA BeginJoinKeeps ==
    ASSUME HostInv, NEW t \in Threads, NEW c \in Clients, BeginJoin(t, c) PROVE HostInv'
<1> DEFINE call == cleaner[t]
           todo == call.todo \ {c}
           x == [call EXCEPT !.todo = todo, !.joins = c]
<1>1. /\ call \in CleanerType /\ call.at = "stopping" /\ call.joins = None /\ c \in call.todo
      /\ stream_of \in [Clients -> Streams] /\ rtsp \in RtspType
      /\ UNCHANGED <<rtsp, startup, webrtc, runtime, hostHistory>>
  BY DEF HostInv, HostType, BeginJoin
<1>2. x \in CleanerType /\ x.at = call.at /\ x.todo = todo /\ x.joins = c
  <2>1. todo \in SUBSET Clients
    BY <1>1 DEF CleanerType
  <2> HIDE DEF call, todo
  <2> QED BY <1>1, <2>1 DEF CleanerType
<1>3. cleaner' = [cleaner EXCEPT ![t] = x]
  BY DEF BeginJoin, HostInv, HostType
<1> HIDE DEF x
<1>4. /\ cleaner' \in [Threads -> CleanerType] /\ cleaner'[t] = x
      /\ \A u \in Threads : u # t => cleaner'[u] = cleaner[u]
  BY <1>2, <1>3, CleanerMoves
<1>5. c \in rtsp.running /\ stream_of[c] \in {"running", "stopping"}
  BY <1>1 DEF HostInv, JoinedByOne, Takes
<1>6. /\ stream_of' \in [Clients -> Streams] /\ stream_of'[c] = "stopping"
      /\ \A d \in Clients : d # c => stream_of'[d] = stream_of[d]
  BY <1>1 DEF BeginJoin, Streams
<1>7. HostType'
  BY <1>1, <1>4, <1>6 DEF HostInv, HostType
<1>8. StartsOnce'
  <2>1. /\ \A i \in 1..Len(startup.tasks) : startup.tasks[i] \in Clients
        /\ startup.busy \in Clients \cup {None} /\ rtsp.pending \subseteq Clients
    BY DEF HostInv, HostType, StartupType, RtspType
  <2> QED BY <1>1, <1>5, <1>6, <2>1 DEF HostInv, StartsOnce
<1>9. JoinedByOne'
  <2>1. None \notin Clients /\ rtsp.running \subseteq Clients
    BY <1>1, HostSessionsAssumption DEF None, RtspType
  <2>2. \A d \in Clients : (Takes(t, d)' <=> Takes(t, d)) /\ ~(d \in cleaner'[t].todo /\ cleaner'[t].joins = d)
    BY <1>1, <1>2, <1>4, <2>1 DEF Takes
  <2>3. \A u \in Threads : u # t => cleaner'[u] = cleaner[u] /\ \A d \in Clients : Takes(u, d)' <=> Takes(u, d)
    BY <1>4 DEF Takes
  <2>4. \A d \in rtsp.running : stream_of'[d] \in {"running", "stopping"}
    BY <1>6, <2>1 DEF HostInv, JoinedByOne
  <2>5. ASSUME NEW u \in Threads, NEW d \in Clients, Takes(u, d)'
        PROVE  /\ d \in rtsp.running /\ d \notin rtsp.listed
               /\ ~(d \in cleaner'[u].todo /\ cleaner'[u].joins = d)
               /\ \A v \in Threads : Takes(v, d)' => u = v
    <3>1. Takes(u, d)
      BY <2>2, <2>3, <2>5
    <3> QED BY <2>2, <2>3, <3>1 DEF HostInv, JoinedByOne
  <2>6. \A u \in Threads : cleaner'[u].at # "stopping" => cleaner'[u].todo = {} /\ cleaner'[u].joins = None
    BY <1>1, <1>2, <1>4 DEF HostInv, JoinedByOne
  <2>7. rtsp.listed \subseteq rtsp.running
    BY DEF HostInv, JoinedByOne
  <2> QED BY <1>1, <2>4, <2>5, <2>6, <2>7 DEF JoinedByOne
<1>10. DoomedIsGone' /\ TerminationHolds'
  <2>1. hostHistory.doomed \cup hostHistory.terminated \subseteq Clients /\ "cancel" \in Threads
    BY DEF HostInv, HostType, HostHistoryType, Threads
  <2>2. cleaner'["cancel"].at = cleaner["cancel"].at
    BY <1>2, <1>4, <2>1
  <2> QED BY <1>1, <1>6, <2>1, <2>2 DEF HostInv, DoomedIsGone, TerminationHolds
<1>11. RuntimeHasOwner' /\ OwnedIsArmed' /\ CaptureIsArmed'
  <2>1. (Wanted' <=> Wanted) /\ (Owned' <=> Owned) /\ (GateFree' <=> GateFree)
    BY <1>1 DEF Wanted, Owned, startup_count, GateFree
  <2>2. RuntimeMoves
    BY <1>1, <2>1 DEF RuntimeMoves
  <2> QED BY <1>7, <2>2, RuntimeFollows DEF HostType
<1> QED BY <1>7, <1>8, <1>9, <1>10, <1>11 DEF HostInv

(* The session has been joined; whoever joined the last one has finalized.                       *)
LEMMA LeaveKeeps == ASSUME HostInv, NEW t \in Threads, Leave(t) PROVE HostInv'
<1> DEFINE call == cleaner[t]
           c == call.joins
           done == call.done \cup {c}
           x == [call EXCEPT !.joins = None, !.done = done]
<1>1. /\ call \in CleanerType /\ c # None /\ rtsp \in RtspType
      /\ rtsp' = [rtsp EXCEPT !.running = @ \ {c}] /\ FinalizeIf(rtsp.running = {c})
      /\ UNCHANGED <<startup, stream_of, webrtc, hostHistory>>
  BY DEF HostInv, HostType, Leave
<1>2. c \in Clients /\ call.at = "stopping" /\ c \in rtsp.running /\ c \notin rtsp.listed /\ c \notin call.todo
  <2>1. c \in Clients
    BY <1>1 DEF CleanerType
  <2> QED BY <1>1, <2>1 DEF HostInv, JoinedByOne, Takes
<1>3. x \in CleanerType /\ x.at = call.at /\ x.todo = call.todo /\ x.joins = None
  <2>1. done \in SUBSET Clients
    BY <1>1, <1>2 DEF CleanerType
  <2> HIDE DEF call, done
  <2> QED BY <1>1, <2>1 DEF CleanerType
<1>4. cleaner' = [cleaner EXCEPT ![t] = x]
  BY DEF Leave, HostInv, HostType
<1> HIDE DEF x
<1>5. /\ cleaner' \in [Threads -> CleanerType] /\ cleaner'[t] = x
      /\ \A u \in Threads : u # t => cleaner'[u] = cleaner[u]
  BY <1>3, <1>4, CleanerMoves
<1>6. /\ rtsp' \in RtspType /\ rtsp'.running = rtsp.running \ {c} /\ rtsp'.pending = rtsp.pending
      /\ rtsp'.listed = rtsp.listed /\ rtsp'.gate = rtsp.gate
  BY <1>1 DEF RtspType
<1>7. runtime' \in RuntimeType /\ RuntimeMoves
  <2>1. Wanted' => Wanted
    BY <1>1, <1>6 DEF Wanted
  <2>2. CASE FinalizeIfIdle
    BY <2>1, <2>2, Finalizes
  <2>3. CASE UNCHANGED runtime /\ rtsp.running # {c}
    <3>1. rtsp'.running # {}
      BY <1>2, <1>6, <2>3
    <3>2. Owned'
      BY <3>1 DEF Owned
    <3> QED BY <2>1, <2>3, <3>2, Keeps
  <2> QED BY <1>1, <2>2, <2>3 DEF FinalizeIf
<1>8. HostType'
  BY <1>1, <1>5, <1>6, <1>7 DEF HostInv, HostType
<1>9. StartsOnce'
  BY <1>1, <1>6 DEF HostInv, StartsOnce
<1>10. JoinedByOne'
  <2>1. None \notin Clients
    BY HostSessionsAssumption DEF None
  <2>2. \A d \in Clients : /\ Takes(t, d)' => Takes(t, d) /\ d # c
                           /\ ~(d \in cleaner'[t].todo /\ cleaner'[t].joins = d)
    BY <1>2, <1>3, <1>5, <2>1 DEF Takes
  <2>3. \A u \in Threads : u # t =>
           cleaner'[u] = cleaner[u] /\ \A d \in Clients : (Takes(u, d)' <=> Takes(u, d)) /\ (Takes(u, d) => d # c)
    BY <1>2, <1>5 DEF Takes, HostInv, JoinedByOne
  <2>4. ASSUME NEW u \in Threads, NEW d \in Clients, Takes(u, d)'
        PROVE  /\ d \in rtsp'.running /\ d \notin rtsp'.listed
               /\ ~(d \in cleaner'[u].todo /\ cleaner'[u].joins = d)
               /\ \A v \in Threads : Takes(v, d)' => u = v
    <3>1. Takes(u, d) /\ d # c
      BY <2>2, <2>3, <2>4
    <3>2. /\ d \in rtsp.running /\ d \notin rtsp.listed
          /\ ~(d \in cleaner[u].todo /\ cleaner[u].joins = d)
          /\ \A v \in Threads : Takes(v, d) => u = v
      BY <3>1 DEF HostInv, JoinedByOne
    <3> QED BY <1>6, <2>2, <2>3, <3>1, <3>2
  <2>5. \A u \in Threads : cleaner'[u].at # "stopping" => cleaner'[u].todo = {} /\ cleaner'[u].joins = None
    BY <1>2, <1>3, <1>5 DEF HostInv, JoinedByOne
  <2>6. /\ rtsp'.listed \subseteq rtsp'.running
        /\ \A d \in rtsp'.running : stream_of'[d] \in {"running", "stopping"}
    BY <1>1, <1>2, <1>6 DEF HostInv, JoinedByOne
  <2> QED BY <2>4, <2>5, <2>6 DEF JoinedByOne
<1>11. DoomedIsGone' /\ TerminationHolds'
  <2>1. "cancel" \in Threads
    BY DEF Threads
  <2>2. cleaner'["cancel"].at = cleaner["cancel"].at
    BY <1>3, <1>5, <2>1
  <2> QED BY <1>1, <1>6, <2>2 DEF HostInv, DoomedIsGone, TerminationHolds
<1>12. RuntimeHasOwner' /\ OwnedIsArmed' /\ CaptureIsArmed'
  BY <1>7, <1>8, RuntimeFollows DEF HostType
<1> QED BY <1>8, <1>9, <1>10, <1>11, <1>12 DEF HostInv

--------------------------------------------------------------------------------
(* A thread goes on in its loop, and cancel records what it found and what it has answered.      *)
LEMMA CleanersKeep ==
    ASSUME HostInv, CleanersStay, UNCHANGED <<rtsp, startup, stream_of, webrtc>>,
           runtime' \in RuntimeType, runtime'.armed = runtime.armed,
           hostHistory' \in HostHistoryType, DoomedIsGone', TerminationHolds'
    PROVE  HostInv'
<1>1. HostType' /\ StartsOnce'
  BY DEF HostInv, HostType, StartsOnce, CleanersStay
<1>2. JoinedByOne'
  <2>1. ASSUME NEW t \in Threads, NEW c PROVE Takes(t, c)' <=> Takes(t, c)
    BY DEF Takes, CleanersStay
  <2> QED BY <2>1 DEF HostInv, JoinedByOne, CleanersStay
<1>3. RuntimeHasOwner' /\ OwnedIsArmed' /\ CaptureIsArmed'
  <2>1. (Wanted' <=> Wanted) /\ (Owned' <=> Owned) /\ (GateFree' <=> GateFree)
    BY DEF Wanted, Owned, startup_count, GateFree
  <2>2. RuntimeMoves
    BY <2>1 DEF RuntimeMoves
  <2> QED BY <1>1, <2>2, RuntimeFollows DEF HostType
<1> QED BY <1>1, <1>2, <1>3 DEF HostInv

LEMMA CleanerGoesOn ==
    ASSUME HostInv, NEW t \in Threads, NEW x \in CleanerType, cleaner' = [cleaner EXCEPT ![t] = x],
           x.todo = cleaner[t].todo, x.joins = cleaner[t].joins,
           x.at # "stopping" => x.todo = {} /\ x.joins = None,
           t = "cancel" => x.at \notin Collected \cup {"collecting"} \/ cleaner[t].at \in Collected,
           UNCHANGED <<rtsp, startup, stream_of, webrtc, hostHistory>>,
           runtime' \in RuntimeType, runtime'.armed = runtime.armed
    PROVE  HostInv'
<1>1. CleanersStay
  BY CleanerProceeds
<1>2. cleaner'[t] = x /\ \A u \in Threads : u # t => cleaner'[u] = cleaner[u]
  BY CleanerMoves
<1>3. "cancel" \in Threads
  BY DEF Threads
<1>4. DoomedIsGone' /\ TerminationHolds'
  <2>1. CASE t = "cancel"
    BY <1>2, <1>3, <2>1 DEF HostInv, DoomedIsGone, TerminationHolds
  <2>2. CASE t # "cancel"
    BY <1>2, <1>3, <2>2 DEF HostInv, DoomedIsGone, TerminationHolds
  <2> QED BY <2>1, <2>2
<1> QED BY <1>1, <1>4, CleanersKeep DEF HostInv, HostType

LEMMA DropKeeps == ASSUME HostInv, NEW t \in Threads, Drop(t) PROVE HostInv'
<1> DEFINE call == cleaner[t]
           at == IF control.refs \subseteq call.done THEN "ending" ELSE AfterClear(t)
           x == [call EXCEPT !.at = at, !.done = {}]
<1>1. /\ call \in CleanerType /\ call.at = "stopping" /\ call.todo = {} /\ call.joins = None
      /\ UNCHANGED <<rtsp, startup, stream_of, webrtc, runtime, hostHistory>>
  BY DEF HostInv, HostType, Drop
<1>2. at \in {"ending", "gone", "terminating", "idle"}
  BY DEF AfterClear
<1>3. cleaner' = [cleaner EXCEPT ![t] = x]
  BY DEF Drop, HostInv, HostType
<1>4. x \in CleanerType /\ x.at = at /\ x.todo = {} /\ x.joins = None
  <2> HIDE DEF call, at
  <2> QED BY <1>1, <1>2 DEF CleanerType
<1>5. cleaner[t].at \in Collected
  BY <1>1 DEF Collected
<1>6. runtime' \in RuntimeType /\ runtime'.armed = runtime.armed
  BY <1>1 DEF HostInv, HostType
<1> HIDE DEF x, at
<1> QED BY <1>1, <1>3, <1>4, <1>5, <1>6, CleanerGoesOn

LEMMA LeaveEndedKeeps == ASSUME HostInv, NEW t \in Threads, LeaveEnded(t) PROVE HostInv'
<1> DEFINE call == cleaner[t]
           at == AfterClear(t)
           x == [call EXCEPT !.at = at]
<1>1. /\ call \in CleanerType /\ call.at = "ending" /\ call.todo = {} /\ call.joins = None
      /\ UNCHANGED <<rtsp, startup, stream_of, webrtc, runtime, hostHistory>>
  BY DEF HostInv, HostType, JoinedByOne, LeaveEnded
<1>2. at \in {"gone", "terminating", "idle"}
  BY DEF AfterClear
<1>3. cleaner' = [cleaner EXCEPT ![t] = x]
  BY DEF LeaveEnded, HostInv, HostType
<1>4. x \in CleanerType /\ x.at = at /\ x.todo = {} /\ x.joins = None
  <2> HIDE DEF call, at
  <2> QED BY <1>1, <1>2 DEF CleanerType
<1>5. cleaner[t].at \in Collected
  BY <1>1 DEF Collected
<1>6. runtime' \in RuntimeType /\ runtime'.armed = runtime.armed
  BY <1>1 DEF HostInv, HostType
<1> HIDE DEF x, at
<1> QED BY <1>1, <1>3, <1>4, <1>5, <1>6, CleanerGoesOn

(* Somebody begins to clear everything.                                                          *)
LEMMA ClearAllKeeps ==
    ASSUME HostInv, NEW t \in Threads, NEW final \in BOOLEAN, ClearAll(t, final)
    PROVE  /\ CleanersStay /\ cleaner'[t].at = "cancelling"
           /\ \A u \in Threads : u # t => cleaner'[u] = cleaner[u]
<1> DEFINE call == cleaner[t]
           x == [call EXCEPT !.at = "cancelling", !.final = final]
<1>1. call \in CleanerType /\ call.todo = {} /\ call.joins = None
  BY DEF HostInv, HostType, JoinedByOne, ClearAll, Unoccupied
<1>2. cleaner' = [cleaner EXCEPT ![t] = x]
  BY DEF ClearAll, HostInv, HostType
<1>3. x \in CleanerType /\ x.at = "cancelling" /\ x.todo = {} /\ x.joins = None
  <2> HIDE DEF call
  <2> QED BY <1>1 DEF CleanerType
<1> HIDE DEF x
<1>4. CleanersStay
  BY <1>1, <1>2, <1>3, CleanerProceeds
<1> QED BY <1>2, <1>3, <1>4, CleanerMoves

LEMMA OthersClearAll ==
    ASSUME HostInv, NEW t \in Threads, t # "cancel", NEW final \in BOOLEAN, ClearAll(t, final),
           UNCHANGED <<rtsp, startup, stream_of, webrtc, hostHistory>>,
           runtime' \in RuntimeType, runtime'.armed = runtime.armed
    PROVE  HostInv'
<1>1. CleanersStay /\ cleaner'["cancel"] = cleaner["cancel"]
  BY ClearAllKeeps DEF Threads
<1>2. DoomedIsGone' /\ TerminationHolds' /\ hostHistory' \in HostHistoryType
  BY <1>1 DEF HostInv, HostType, DoomedIsGone, TerminationHolds
<1> QED BY <1>1, <1>2, CleanersKeep

LEMMA RtspLoopKeeps == ASSUME HostInv, RtspLoop PROVE HostInv'
<1>1. PICK final \in BOOLEAN : ClearAll("rtsp", final)
  BY DEF RtspLoop
<1>2. /\ UNCHANGED <<rtsp, startup, stream_of, webrtc, hostHistory>>
      /\ runtime' \in RuntimeType /\ runtime'.armed = runtime.armed /\ "rtsp" \in Threads
  BY DEF RtspLoop, HostInv, HostType, Threads
<1> QED BY <1>1, <1>2, OthersClearAll

LEMMA DisruptionIsTyped ==
    ASSUME HostInv
    PROVE  Disruption \in RuntimeType /\ Disruption.armed = runtime.armed
<1> DEFINE n == runtime.disruptions + 1
<1>1. runtime \in RuntimeType /\ n \in Nat /\ Disruption = [runtime EXCEPT !.disruptions = n]
  BY DEF HostInv, HostType, RuntimeType, Disruption
<1> HIDE DEF n
<1> QED BY <1>1 DEF RuntimeType

(* Cancel dooms what it finds, and has answered for all of it.                                   *)
LEMMA CancelKeeps == ASSUME HostInv, cancel PROVE HostInv'
<1> DEFINE found == rtsp.pending \cup rtsp.listed
<1>1. /\ ClearAll("cancel", FALSE) /\ runtime' = Disruption
      /\ hostHistory' = [hostHistory EXCEPT !.doomed = found]
      /\ UNCHANGED <<rtsp, startup, stream_of, webrtc>>
  BY DEF cancel
<1>2. hostHistory \in HostHistoryType /\ found \in SUBSET Clients
  BY DEF HostInv, HostType, RtspType
<1>3. \A c \in found : stream_of[c] # "new"
  BY DEF HostInv, StartsOnce, JoinedByOne
<1> HIDE DEF found
<1>4. /\ hostHistory' \in HostHistoryType /\ hostHistory'.doomed = found
      /\ hostHistory'.terminated = hostHistory.terminated
  BY <1>1, <1>2 DEF HostHistoryType
<1>5. CleanersStay /\ cleaner'["cancel"].at = "cancelling"
  BY <1>1, ClearAllKeeps DEF Threads
<1>6. DoomedIsGone' /\ TerminationHolds'
  BY <1>1, <1>3, <1>4, <1>5 DEF HostInv, DoomedIsGone, TerminationHolds, Collected
<1>7. runtime' \in RuntimeType /\ runtime'.armed = runtime.armed
  BY <1>1, DisruptionIsTyped
<1> QED BY <1>1, <1>4, <1>5, <1>6, <1>7, CleanersKeep

LEMMA CancelTerminatesKeeps == ASSUME HostInv, CancelTerminates PROVE HostInv'
<1> DEFINE ended == hostHistory.terminated \cup hostHistory.doomed
<1>1. /\ cleaner["cancel"].at = "terminating" /\ GateFree
      /\ cleaner' = [cleaner EXCEPT !["cancel"] = Resting]
      /\ hostHistory' = [hostHistory EXCEPT !.terminated = ended, !.doomed = {}]
      /\ runtime' = [runtime EXCEPT !.app = None]
      /\ UNCHANGED <<rtsp, startup, stream_of, webrtc>>
  BY DEF CancelTerminates, HostInv, HostType
<1>2. /\ hostHistory \in HostHistoryType /\ runtime \in RuntimeType /\ ended \in SUBSET Clients
      /\ "cancel" \in Threads
  BY DEF HostInv, HostType, HostHistoryType, Threads
<1>3. \A c \in ended : stream_of[c] # "new"
  BY DEF HostInv, DoomedIsGone
<1>4. ended \cap (rtsp.pending \cup rtsp.listed \cup {startup.busy}) = {}
  BY <1>1 DEF HostInv, DoomedIsGone, TerminationHolds, Collected
<1> HIDE DEF ended
<1>5. hostHistory' \in HostHistoryType /\ hostHistory'.doomed = {} /\ hostHistory'.terminated = ended
  BY <1>1, <1>2 DEF HostHistoryType
<1>6. runtime' \in RuntimeType /\ runtime'.armed = runtime.armed
  BY <1>1, <1>2 DEF RuntimeType
<1>7. /\ Resting \in CleanerType /\ Resting.at = "idle" /\ Resting.todo = {} /\ Resting.joins = None
      /\ cleaner["cancel"].todo = {} /\ cleaner["cancel"].joins = None
  BY <1>1, <1>2 DEF Resting, CleanerType, HostInv, JoinedByOne
<1>8. CleanersStay
  BY <1>1, <1>2, <1>7, CleanerProceeds
<1>9. DoomedIsGone' /\ TerminationHolds'
  BY <1>1, <1>3, <1>4, <1>5 DEF DoomedIsGone, TerminationHolds
<1> QED BY <1>1, <1>5, <1>6, <1>8, <1>9, CleanersKeep

--------------------------------------------------------------------------------
(* The control thread, the application and the shutdown arm nothing and let nothing go.          *)
LEMMA ControlKeeps ==
    ASSUME HostInv,
           \/ \E c \in Clients : ControlConnect(c) \/ ControlReap(c)
           \/ ControlNotices \/ ControlTerminates \/ ControlQuits \/ EndBroadcast \/ AskIfRunning
    PROVE  HostInv'
<1>1. runtime \in RuntimeType
  BY DEF HostInv, HostType
<1>2. UNCHANGED <<rtsp, startup, stream_of, cleaner, webrtc, hostHistory>>
  BY DEF ControlConnect, ControlReap, ControlNotices, ControlTerminates, ControlQuits, EndBroadcast,
         AskIfRunning
<1>3. runtime' = runtime \/ runtime' = [runtime EXCEPT !.app = None]
  BY DEF ControlConnect, ControlReap, ControlNotices, ControlTerminates, ControlQuits, EndBroadcast,
         AskIfRunning
<1>4. runtime' \in RuntimeType /\ runtime'.armed = runtime.armed
  BY <1>1, <1>3 DEF RuntimeType
<1> QED BY <1>2, <1>4, BystandersKeep

LEMMA ShutdownKeeps == ASSUME HostInv, Shutdown \/ AppExits PROVE HostInv'
<1> DEFINE next == Disruption
<1>1. /\ runtime \in RuntimeType /\ next \in RuntimeType /\ next.armed = runtime.armed
      /\ UNCHANGED <<rtsp, startup, stream_of, webrtc, hostHistory>>
  BY DisruptionIsTyped DEF HostInv, HostType, Shutdown, AppExits
<1>2. CASE AppExits \/ (runtime' = [next EXCEPT !.shutdown = "raised"] /\ UNCHANGED cleaner)
  <2>1. /\ runtime' \in {[next EXCEPT !.shutdown = "raised"], [next EXCEPT !.app = "exited"]}
        /\ UNCHANGED cleaner
    BY <1>2 DEF AppExits
  <2> HIDE DEF next
  <2>2. runtime' \in RuntimeType /\ runtime'.armed = runtime.armed
    BY <1>1, <2>1 DEF RuntimeType
  <2> QED BY <1>1, <2>1, <2>2, BystandersKeep
<1>3. CASE Advance("raised", "draining") /\ UNCHANGED cleaner
  <2>1. runtime' \in RuntimeType /\ runtime'.armed = runtime.armed
    BY <1>1, <1>3 DEF Advance, RuntimeType
  <2> QED BY <1>1, <1>3, <2>1, BystandersKeep
<1>4. CASE Advance("draining", "stopped") /\ ClearAll("main", TRUE)
  <2>1. runtime' \in RuntimeType /\ runtime'.armed = runtime.armed
    BY <1>1, <1>4 DEF Advance, RuntimeType
  <2>2. "main" \in Threads /\ "main" # "cancel"
    BY DEF Threads
  <2> QED BY <1>1, <1>4, <2>1, <2>2, OthersClearAll
<1> QED BY <1>2, <1>3, <1>4 DEF Shutdown

--------------------------------------------------------------------------------
(* A step of the browsers' sessions and of the capture they share.                               *)
LEMMA WebKeeps ==
    ASSUME HostInv, UNCHANGED <<rtsp, startup, stream_of, cleaner, hostHistory>>,
           webrtc' \in WebType, runtime' \in RuntimeType, RuntimeMoves
    PROVE  HostInv'
<1>1. HostType' /\ StartsOnce' /\ DoomedIsGone' /\ TerminationHolds'
  BY DEF HostInv, HostType, StartsOnce, DoomedIsGone, TerminationHolds
<1>2. JoinedByOne'
  BY DEF HostInv, JoinedByOne, Takes
<1>3. RuntimeHasOwner' /\ OwnedIsArmed' /\ CaptureIsArmed'
  BY RuntimeFollows
<1> QED BY <1>1, <1>2, <1>3 DEF HostInv

LEMMA WebStartKeeps == ASSUME HostInv, NEW w \in Browsers, WebStart(w) PROVE HostInv'
<1>1. /\ webrtc \in WebType /\ runtime \in RuntimeType
      /\ UNCHANGED <<rtsp, startup, stream_of, cleaner, hostHistory>>
  BY DEF HostInv, HostType, WebStart
<1>2. /\ webrtc' \in WebType /\ w \in webrtc'.pending
  BY <1>1 DEF WebStart, WebType
<1>3. Owned'
  BY <1>2 DEF Owned
<1>4. runtime' \in RuntimeType /\ RuntimeMoves
  <2>1. CASE webrtc.capture
    <3>1. Wanted
      BY <1>1, <2>1 DEF Wanted, WebType
    <3> QED BY <1>3, <2>1, <3>1, Keeps DEF WebStart
  <2>2. CASE ~webrtc.capture
    <3>1. PICK app \in {runtime.app, "running"} : Arm(app)
      BY <2>2 DEF WebStart
    <3>2. app \in {None, "running", "exited"}
      BY <1>1 DEF RuntimeType
    <3> QED BY <1>3, <3>1, <3>2, Arms
  <2> QED BY <2>1, <2>2
<1> QED BY <1>1, <1>2, <1>4, WebKeeps

LEMMA WebCreateKeeps == ASSUME HostInv, NEW w \in Browsers, WebCreate(w) PROVE HostInv'
<1>1. /\ webrtc \in WebType /\ runtime \in RuntimeType /\ w \in webrtc.pending
      /\ UNCHANGED <<rtsp, startup, stream_of, cleaner, hostHistory>>
  BY DEF HostInv, HostType, WebCreate
<1>2. /\ webrtc' \in WebType /\ w \in webrtc'.active
  BY <1>1 DEF WebCreate, WebType
<1>3. Owned' /\ Wanted
  BY <1>1, <1>2 DEF Owned, Wanted
<1>4. runtime' \in RuntimeType /\ RuntimeMoves
  <2>1. CASE webrtc.active = {}
    <3>1. runtime.app \in {None, "running", "exited"} /\ Arm(runtime.app)
      BY <1>1, <2>1 DEF RuntimeType, WebCreate
    <3> QED BY <1>3, <3>1, Arms
  <2>2. CASE webrtc.active # {}
    BY <1>3, <2>2, Keeps DEF WebCreate
  <2> QED BY <2>1, <2>2
<1> QED BY <1>1, <1>2, <1>4, WebKeeps

LEMMA WebCloseKeeps == ASSUME HostInv, NEW w \in Browsers, WebClose(w) PROVE HostInv'
<1>1. /\ webrtc \in WebType /\ w \in webrtc.active
      /\ UNCHANGED <<rtsp, startup, stream_of, cleaner, runtime, hostHistory>>
  BY DEF HostInv, HostType, WebClose
<1>2. webrtc' \in WebType /\ w \in webrtc'.closing
  BY <1>1 DEF WebClose, WebType
<1>3. Owned' /\ Wanted
  BY <1>1, <1>2 DEF Owned, Wanted
<1>4. runtime' \in RuntimeType /\ RuntimeMoves
  BY <1>1, <1>3, Keeps
<1> QED BY <1>1, <1>2, <1>4, WebKeeps

(* The last one out stops the capture; the others leave an owner behind.                         *)
LEMMA WebStopCaptureKeeps == ASSUME HostInv, NEW w \in Browsers, WebStopCapture(w) PROVE HostInv'
<1>1. /\ webrtc \in WebType /\ StopIfIdle(w) /\ w # None
      /\ UNCHANGED <<rtsp, startup, stream_of, cleaner, runtime, hostHistory>>
  BY HostSessionsAssumption DEF HostInv, HostType, WebStopCapture, None
<1>2. CASE /\ WebOwners \ {w} # {} \/ webrtc.stopper # None
           /\ webrtc' = [webrtc EXCEPT !.pending = @ \ {w}, !.closing = @ \ {w}]
  <2>1. /\ webrtc' \in WebType /\ webrtc'.pending = webrtc.pending \ {w}
        /\ webrtc'.active = webrtc.active /\ webrtc'.stopper = webrtc.stopper
        /\ webrtc'.capture = webrtc.capture
    BY <1>1, <1>2 DEF WebType
  <2>2. Wanted' => Wanted
    BY <1>1, <2>1 DEF Wanted
  <2>3. Owned'
    BY <1>2, <2>1 DEF Owned, WebOwners
  <2>4. runtime' \in RuntimeType /\ RuntimeMoves
    BY <1>1, <2>2, <2>3, Keeps
  <2> QED BY <1>1, <2>1, <2>4, WebKeeps
<1>3. CASE webrtc' = [webrtc EXCEPT !.pending = @ \ {w}, !.stopper = w, !.capture = FALSE]
  <2>1. /\ webrtc' \in WebType /\ webrtc'.pending = webrtc.pending \ {w}
        /\ webrtc'.active = webrtc.active /\ webrtc'.stopper = w /\ webrtc'.capture = FALSE
    BY <1>1, <1>3 DEF WebType
  <2>2. Wanted' => Wanted
    BY <1>1, <2>1 DEF Wanted
  <2>3. Owned'
    BY <1>1, <2>1 DEF Owned
  <2>4. runtime' \in RuntimeType /\ RuntimeMoves
    BY <1>1, <2>2, <2>3, Keeps
  <2> QED BY <1>1, <2>1, <2>4, WebKeeps
<1> QED BY <1>1, <1>2, <1>3 DEF StopIfIdle

LEMMA WebFinishKeeps == ASSUME HostInv, WebFinish PROVE HostInv'
<1>1. /\ webrtc \in WebType /\ FinalizeIfIdle
      /\ UNCHANGED <<rtsp, startup, stream_of, cleaner, hostHistory>>
  BY DEF HostInv, HostType, WebFinish
<1>2. /\ webrtc' \in WebType /\ webrtc'.pending = webrtc.pending /\ webrtc'.active = webrtc.active
      /\ webrtc'.capture = webrtc.capture
  BY <1>1 DEF WebFinish, WebType
<1>3. Wanted' => Wanted
  BY <1>1, <1>2 DEF Wanted
<1> QED BY <1>1, <1>2, <1>3, Finalizes, WebKeeps

--------------------------------------------------------------------------------
LEMMA StepKeeps == ASSUME HostInv, HostSessionsNext PROVE HostInv'
<1>1. ASSUME NEW c \in Clients, ClientSteps(c) PROVE HostInv'
  <2>1. CASE Launch(c) \/ Resume(c)
    BY <2>1, RaiseKeeps DEF Launch, Resume
  <2>2. CASE Stops(c)
    BY <2>2, StopsKeep DEF Stops
  <2>3. CASE graceful_stop(c)
    BY <2>3, StopsKeep DEF graceful_stop
  <2> QED BY <1>1, <2>1, <2>2, <2>3, CollectingKeeps, TimerKeeps, AnnounceKeeps, PublishKeeps, ControlKeeps
          DEF ClientSteps
<1>2. ASSUME NEW t \in Threads, CleanerSteps(t) PROVE HostInv'
  BY <1>2, CancelPendingKeeps, CollectingKeeps, LeaveKeeps, DropKeeps, LeaveEndedKeeps, BeginJoinKeeps
     DEF CleanerSteps
<1>3. ASSUME NEW w \in Browsers, WebStart(w) \/ WebCreate(w) \/ WebClose(w) \/ WebStopCapture(w)
      PROVE  HostInv'
  BY <1>3, WebStartKeeps, WebCreateKeeps, WebCloseKeeps, WebStopCaptureKeeps
<1>4. CASE \/ WebFinish \/ finish_startup \/ Discard \/ BeginStart \/ FailStart \/ session_clear
  BY <1>4, WebFinishKeeps, FinishStartupKeeps, DiscardKeeps, BeginStartKeeps, FailStartKeeps,
     SessionClearKeeps
<1>5. CASE \/ AskIfRunning \/ ControlNotices \/ ControlTerminates \/ ControlQuits \/ EndBroadcast
  BY <1>5, ControlKeeps
<1>6. CASE cancel \/ CancelTerminates \/ RtspLoop \/ Shutdown \/ AppExits
  BY <1>6, CancelKeeps, CancelTerminatesKeeps, RtspLoopKeeps, ShutdownKeeps
<1> QED BY <1>1, <1>2, <1>3, <1>4, <1>5, <1>6 DEF HostSessionsNext

LEMMA StutterKeeps == ASSUME HostInv, UNCHANGED hostSessionVars PROVE HostInv'
<1>1. /\ UNCHANGED <<rtsp, startup, stream_of, cleaner, webrtc, hostHistory>>
      /\ runtime' \in RuntimeType /\ runtime'.armed = runtime.armed
  BY DEF hostSessionVars, HostInv, HostType
<1> QED BY <1>1, BystandersKeep

LEMMA HostInvHolds == HostSessionsSpec => []HostInv
<1>1. HostSessionsInit => HostInv
  BY InitEstablishes
<1>2. HostInv /\ [HostSessionsNext]_hostSessionVars => HostInv'
  BY StepKeeps, StutterKeeps
<1> QED BY <1>1, <1>2, PTL DEF HostSessionsSpec

(* Whenever the gate is free, a runtime that is prepared has an owner: the step that lets the    *)
(* last one go has finalized, whichever of launch timer, startup completion, session_clear,      *)
(* cancel_pending_launches, join and stop_webrtc_capture_if_idle it is                           *)
(* (finalize_shared_runtime_if_idle, has_shared_runtime_owner).                                  *)
THEOREM RuntimeIsOwned == HostSessionsSpec => []RuntimeHasOwner
<1>1. HostInv => RuntimeHasOwner
  BY DEF HostInv
<1> QED BY <1>1, HostInvHolds, PTL

(* A launch, a session that runs and a WebRTC session find the runtime prepared: no step of any  *)
(* other thread takes it down while one of them is there (has_shared_runtime_owner).             *)
THEOREM OwnersFindItArmed == HostSessionsSpec => []OwnedIsArmed
<1>1. HostInv => OwnedIsArmed
  BY DEF HostInv
<1> QED BY <1>1, HostInvHolds, PTL

(* What a cancel found has left the launches before the sessions are collected, has not reached  *)
(* the startup worker since, and is on no list when cancel has answered (clear, cmd_announce,    *)
(* terminate_sessions).                                                                          *)
THEOREM TerminationIsFinal == HostSessionsSpec => []TerminationHolds
<1>1. HostInv => TerminationHolds
  BY DEF HostInv
<1> QED BY <1>1, HostInvHolds, PTL

===================================================================================
