------------------------------- MODULE HostSessions -------------------------------
(* Streaming sessions in the host (rtsp.cpp, stream.cpp, webrtc_stream.cpp, nvhttp.cpp): *)
(* how a client's launch becomes a session, how sessions are stopped, joined and let go  *)
(* by several threads, and when the last owner takes the shared runtime (display, virtual *)
(* display, frame limiter) down.  stream_lifecycle_mutex is called the gate: a section    *)
(* under it that waits for nothing else is one step, so only the startup worker, which    *)
(* waits for the broadcast lock under it, is seen to hold it.                             *)
EXTENDS Naturals, Sequences, SequencesExt, FiniteSets

CONSTANTS
    Clients,   \* Moonlight clients: each launches once, and has at most one session
    Browsers,  \* WebRTC clients: each has at most one session
    MaxOwners, \* bound: launches and WebRTC sessions begun
    MaxDisruptions   \* bound: application exits, cancels, and the shutdown

ASSUME HostSessionsAssumption ==
    /\ {MaxOwners, MaxDisruptions} \subseteq Nat /\ IsFiniteSet(Clients) /\ IsFiniteSet(Browsers)
    /\ "none" \notin Clients \cup Browsers

VARIABLES
    rtsp,       \* the RTSP server's collections, and who holds the gate
    startup,    \* the startup pool and its completions: together startup_tasks
    stream_of,  \* session_t::state of each client's session
    control,    \* the broadcast context and its control thread
    cleaner,    \* the threads that run clear() or disconnect_client()
    webrtc,     \* webrtc_capture and the WebRTC sessions
    runtime,    \* shared_runtime_cleanup_armed, the application, the shutdown
    hostHistory \* for the properties: what a terminate request found, and has ended

hostSessionVars == <<rtsp, startup, stream_of, control, cleaner, webrtc, runtime, hostHistory>>

None == "none"
Threads == {"rtsp", "cancel", "webui", "main"}
Resting == [at |-> "idle", todo |-> {}, joins |-> None, done |-> {}, final |-> FALSE]

HostSessionsInit ==
    /\ rtsp = [pending |-> {}, listed |-> {}, running |-> {}, gate |-> "free"]
    /\ startup = [tasks |-> <<>>, busy |-> None, posted |-> 0]
    /\ stream_of = [c \in Clients |-> "new"]
    /\ control = [broadcast |-> "down", thread |-> None, matched |-> None, sessions |-> {},
                  peered |-> {}, ended |-> {}, refs |-> {}]
    /\ cleaner = [t \in Threads |-> Resting]
    /\ webrtc = [pending |-> {}, active |-> {}, closing |-> {}, stopper |-> None, capture |-> FALSE,
                 seen |-> {}]
    /\ runtime = [armed |-> FALSE, app |-> None, shutdown |-> "no", disruptions |-> 0]
    /\ hostHistory = [doomed |-> {}, terminated |-> {}]

GateFree == rtsp.gate = "free"
Serving == runtime.shutdown = "no"                  \* the HTTP servers take requests
Begun == {c \in Clients : stream_of[c] # "new"} \cup webrtc.seen
MayBegin == Serving /\ Cardinality(Begun) < MaxOwners
startup_count == Len(startup.tasks) + startup.posted + (IF startup.busy = None THEN 0 ELSE 1)
has_pending_launch_or_startup == rtsp.pending # {} \/ startup_count > 0

--------------------------------------------------------------------------------
(* The shared runtime.  A thread that finalizes ignores its own teardown: here the step    *)
(* has already taken the thread out of the teardown count when the owners are looked at.  *)
TeardownSessions == {t \in Threads : cleaner[t].joins # None}
WebTeardowns == webrtc.closing # {} \/ webrtc.stopper # None
MistakeIgnoresRunning ==
    \/ has_pending_launch_or_startup \/ rtsp.listed # {}
    \/ TeardownSessions # {} \/ webrtc.pending # {} \/ webrtc.active # {} \/ webrtc.capture \/ WebTeardowns
has_shared_runtime_owner ==
    \/ has_pending_launch_or_startup
    \/ rtsp.listed # {}
    \/ rtsp.running # {}
    \/ TeardownSessions # {}
    \/ webrtc.pending # {} \/ webrtc.active # {}
    \/ webrtc.capture
    \/ WebTeardowns

(* finalize_shared_runtime_if_idle, the last conjunct of a step that may have let go.     *)
FinalizeIfIdle == runtime' = [runtime EXCEPT !.armed = @ /\ has_shared_runtime_owner']
FinalizeIf(released) == IF released THEN FinalizeIfIdle ELSE UNCHANGED runtime
Arm(app) == runtime' = [runtime EXCEPT !.armed = TRUE, !.app = app]

--------------------------------------------------------------------------------
(* The HTTP side.  launch, resume and cancel exclude each other (launch_request_mutex).   *)
NoCancel == cleaner["cancel"].at = "idle"
Raise(c, app) ==
    /\ rtsp' = [rtsp EXCEPT !.pending = @ \cup {c}]
    /\ stream_of' = [stream_of EXCEPT ![c] = "launched"]
    /\ Arm(app)
    /\ UNCHANGED <<startup, control, cleaner, webrtc, hostHistory>>
Launch(c) ==
    /\ MayBegin /\ GateFree /\ NoCancel /\ stream_of[c] = "new"
    /\ ~has_pending_launch_or_startup
    /\ Raise(c, "running")
Resume(c) ==
    /\ MayBegin /\ GateFree /\ NoCancel /\ stream_of[c] = "new"
    /\ runtime.app = "running"
    /\ Raise(c, "running")

(* Every request first asks proc_t::running, which ends an application that has exited.    *)
AskIfRunning ==
    /\ Serving /\ GateFree /\ runtime.app = "exited"
    /\ runtime' = [runtime EXCEPT !.app = None]
    /\ UNCHANGED <<rtsp, startup, stream_of, control, cleaner, webrtc, hostHistory>>

(* A session stops: ping timeout, disconnect, a capture thread that ends.                  *)
Stops(c) ==
    /\ stream_of[c] = "running"
    /\ stream_of' = [stream_of EXCEPT ![c] = "stopping"]
    /\ UNCHANGED <<rtsp, startup, control, cleaner, webrtc, runtime, hostHistory>>
(* The web UI ends a session: controlEnd is raised here and not by the control thread.     *)
graceful_stop(c) ==
    /\ Serving /\ c \in rtsp.listed /\ stream_of[c] = "running"
    /\ stream_of' = [stream_of EXCEPT ![c] = "stopping"]
    /\ control' = [control EXCEPT !.ended = @ \cup {c}]
    /\ UNCHANGED <<rtsp, startup, cleaner, webrtc, runtime, hostHistory>>

--------------------------------------------------------------------------------
(* The RTSP thread: connections, ANNOUNCE, the launch timer, completions.  It runs one      *)
(* handler at a time, between its sweeps, until the io_context is stopped.                  *)
IoReady == cleaner["rtsp"].at = "idle" /\ runtime.shutdown # "stopped"
(* ANNOUNCE, with the reservation of its launch when the connection was made; refused once  *)
(* the server is stopping.                                                                   *)
cmd_announce(c) ==
    /\ IoReady /\ GateFree /\ c \in rtsp.pending /\ stream_of[c] = "launched"
    /\ stream_of' = [stream_of EXCEPT ![c] = "announced"]
    /\ startup' = IF runtime.shutdown = "draining" THEN startup
                  ELSE [startup EXCEPT !.tasks = Append(@, c)]
    /\ UNCHANGED <<rtsp, control, cleaner, webrtc, runtime, hostHistory>>
arm_launch_timer(c) ==                               \* a launch is overdue
    /\ IoReady /\ GateFree /\ c \in rtsp.pending
    /\ rtsp' = [rtsp EXCEPT !.pending = @ \ {c}]
    /\ UNCHANGED <<startup, stream_of, control, cleaner, webrtc, hostHistory>>
    /\ FinalizeIfIdle
finish_startup ==
    /\ IoReady /\ GateFree /\ startup.posted > 0
    /\ startup' = [startup EXCEPT !.posted = @ - 1]
    /\ UNCHANGED <<rtsp, stream_of, control, cleaner, webrtc, hostHistory>>
    /\ FinalizeIfIdle

--------------------------------------------------------------------------------
(* The startup worker: it takes the gate, looks whether the launch is still pending and not  *)
(* overdue (which it may be while it waits for its timer), and starts the session; the first *)
(* reference to the broadcast context constructs it.                                         *)
Completed == [startup EXCEPT !.busy = None, !.posted = @ + 1]
Discard ==
    /\ GateFree /\ startup.busy = None /\ startup.tasks # <<>>
    /\ startup' = [Completed EXCEPT !.tasks = Tail(@)]
    /\ UNCHANGED <<rtsp, stream_of, control, cleaner, webrtc, runtime, hostHistory>>
MistakeStartsAnyway ==
    /\ GateFree /\ startup.busy = None /\ startup.tasks # <<>>
    /\ rtsp' = [rtsp EXCEPT !.gate = "worker"]
    /\ startup' = [startup EXCEPT !.busy = Head(startup.tasks), !.tasks = Tail(@)]
    /\ UNCHANGED <<stream_of, control, cleaner, webrtc, runtime, hostHistory>>
BeginStart ==
    /\ GateFree /\ startup.busy = None /\ startup.tasks # <<>>
    /\ Head(startup.tasks) \in rtsp.pending
    /\ rtsp' = [rtsp EXCEPT !.gate = "worker"]
    /\ startup' = [startup EXCEPT !.busy = Head(startup.tasks), !.tasks = Tail(@)]
    /\ UNCHANGED <<stream_of, control, cleaner, webrtc, runtime, hostHistory>>
LockOfBroadcastFree == control.broadcast # "ending"
Publish(c) ==
    /\ startup.busy = c /\ LockOfBroadcastFree
    /\ rtsp' = [rtsp EXCEPT !.gate = "free", !.listed = @ \cup {c}, !.running = @ \cup {c}]
    /\ startup' = Completed
    /\ stream_of' = [stream_of EXCEPT ![c] = "running"]
    /\ control' =
         IF control.broadcast = "down"
         THEN [control EXCEPT !.broadcast = "up", !.thread = "looping", !.sessions = {c}, !.refs = {c},
                              !.peered = {}, !.ended = {}]
         ELSE [control EXCEPT !.sessions = @ \cup {c}, !.refs = @ \cup {c}]
    /\ UNCHANGED <<cleaner, webrtc, hostHistory>>
    /\ IF rtsp.running = {} THEN Arm(runtime.app) ELSE UNCHANGED runtime
FailStart ==                                         \* the broadcast context cannot be constructed
    /\ startup.busy # None /\ control.broadcast = "down"
    /\ rtsp' = [rtsp EXCEPT !.gate = "free"]
    /\ startup' = Completed
    /\ UNCHANGED <<stream_of, control, cleaner, webrtc, runtime, hostHistory>>

--------------------------------------------------------------------------------
(* controlBroadcastThread: one loop, of which a step is a turn over one session, a new      *)
(* peer, or a look at the application.  proc_t::running and session_clear wait for the gate. *)
Looping == control.thread = "looping"
ControlConnect(c) ==
    /\ Looping /\ c \in control.sessions \ control.peered
    /\ control' = [control EXCEPT !.peered = @ \cup {c}, !.thread = "clearing", !.matched = c]
    /\ UNCHANGED <<rtsp, startup, stream_of, cleaner, webrtc, runtime, hostHistory>>
MistakeClearsOnly ==
    /\ control.thread = "clearing" /\ GateFree
    /\ control' = [control EXCEPT !.thread = "looping", !.matched = None]
    /\ rtsp' = [rtsp EXCEPT !.pending = @ \ {control.matched}]
    /\ UNCHANGED <<startup, stream_of, cleaner, webrtc, runtime, hostHistory>>
session_clear ==
    /\ control.thread = "clearing" /\ GateFree
    /\ control' = [control EXCEPT !.thread = "looping", !.matched = None]
    /\ rtsp' = [rtsp EXCEPT !.pending = @ \ {control.matched}]
    /\ UNCHANGED <<startup, stream_of, cleaner, webrtc, hostHistory>>
    /\ FinalizeIf(control.matched \in rtsp.pending)
ControlReap(c) ==
    /\ Looping /\ c \in control.sessions /\ stream_of[c] = "stopping"
    /\ control' = [control EXCEPT !.sessions = @ \ {c}, !.peered = @ \ {c}, !.ended = @ \cup {c}]
    /\ UNCHANGED <<rtsp, startup, stream_of, cleaner, webrtc, runtime, hostHistory>>
ControlNotices ==
    /\ Looping /\ runtime.app = "exited"
    /\ control' = [control EXCEPT !.thread = "terminating"]
    /\ UNCHANGED <<rtsp, startup, stream_of, cleaner, webrtc, runtime, hostHistory>>
ControlTerminates ==                     \* whichever application there is by now
    /\ control.thread = "terminating" /\ GateFree
    /\ control' = [control EXCEPT !.thread = "looping"]
    /\ runtime' = [runtime EXCEPT !.app = None]
    /\ UNCHANGED <<rtsp, startup, stream_of, cleaner, webrtc, hostHistory>>
(* The end of the loop tells every session it has; a broadcast without a loop stays up      *)
(* while it has references.                                                                 *)
ControlQuits ==
    /\ Looping
    /\ \/ runtime.app = None /\ control.sessions \subseteq control.peered
       \/ ~Serving \/ control.broadcast = "ending"
    /\ control' = [control EXCEPT !.thread = "exited", !.ended = @ \cup control.sessions]
    /\ UNCHANGED <<rtsp, startup, stream_of, cleaner, webrtc, runtime, hostHistory>>
EndBroadcast ==
    /\ control.broadcast = "ending" /\ control.thread = "exited"
    /\ control' = [control EXCEPT !.broadcast = "down", !.thread = None, !.sessions = {}, !.peered = {}]
    /\ UNCHANGED <<rtsp, startup, stream_of, cleaner, webrtc, runtime, hostHistory>>

--------------------------------------------------------------------------------
(* clear() and disconnect_client(): cancel the pending launches (all), take sessions off    *)
(* the list, then stop and join them one by one, outside the locks; dropping the last       *)
(* reference to the broadcast context ends the broadcast under its lock.                    *)
Unoccupied(t) == cleaner[t].at = "idle"
AfterClear(t) == IF cleaner[t].final THEN "gone" ELSE IF t = "cancel" THEN "terminating" ELSE "idle"
Collect(t, collected) ==
    /\ rtsp' = [rtsp EXCEPT !.listed = @ \ collected]
    /\ cleaner' = [cleaner EXCEPT
          ![t].at = IF collected = {} THEN AfterClear(t) ELSE "stopping", ![t].todo = collected]

cancel_pending_launches(t) ==
    /\ cleaner[t].at = "cancelling" /\ GateFree
    /\ rtsp' = [rtsp EXCEPT !.pending = {}]
    /\ cleaner' = [cleaner EXCEPT ![t].at = "collecting"]
    /\ UNCHANGED <<startup, stream_of, control, webrtc, hostHistory>>
    /\ FinalizeIf(rtsp.pending # {})
CollectAll(t) ==
    /\ cleaner[t].at = "collecting"
    /\ Collect(t, rtsp.listed)
    /\ UNCHANGED <<startup, stream_of, control, webrtc, runtime, hostHistory>>
(* clear(false), by the RTSP loop and by every count the web UI takes.                      *)
Sweep(t) ==
    /\ t \in {"rtsp", "webui"} /\ Unoccupied(t)
    /\ \E c \in rtsp.listed : stream_of[c] = "stopping"
    /\ Collect(t, {c \in rtsp.listed : stream_of[c] = "stopping"})
    /\ UNCHANGED <<startup, stream_of, control, webrtc, runtime, hostHistory>>
disconnect_client(c) ==
    /\ Serving /\ Unoccupied("webui") /\ c \in rtsp.listed
    /\ Collect("webui", {c})
    /\ UNCHANGED <<startup, stream_of, control, webrtc, runtime, hostHistory>>

BeginJoin(t, c) ==
    /\ cleaner[t].at = "stopping" /\ cleaner[t].joins = None /\ c \in cleaner[t].todo
    /\ cleaner' = [cleaner EXCEPT ![t].todo = @ \ {c}, ![t].joins = c]
    /\ stream_of' = [stream_of EXCEPT ![c] = "stopping"]
    /\ UNCHANGED <<rtsp, startup, control, webrtc, runtime, hostHistory>>
(* The rest of join, once the session's threads and its control end are done.               *)
Leave(t) ==
    LET c == cleaner[t].joins
    IN  /\ c # None /\ c \in control.ended /\ GateFree
        /\ rtsp' = [rtsp EXCEPT !.running = @ \ {c}]
        /\ cleaner' = [cleaner EXCEPT ![t].joins = None, ![t].done = @ \cup {c}]
        /\ UNCHANGED <<startup, stream_of, control, webrtc, hostHistory>>
        /\ FinalizeIf(rtsp.running = {c})
Drop(t) ==
    /\ cleaner[t].at = "stopping" /\ cleaner[t].joins = None /\ cleaner[t].todo = {}
    /\ control.broadcast # "ending"
    /\ LET last == control.refs \subseteq cleaner[t].done
       IN  /\ control' = [control EXCEPT !.refs = @ \ cleaner[t].done,
                                         !.broadcast = IF last THEN "ending" ELSE @]
           /\ cleaner' = [cleaner EXCEPT ![t].at = IF last THEN "ending" ELSE AfterClear(t),
                                         ![t].done = {}]
    /\ UNCHANGED <<rtsp, startup, stream_of, webrtc, runtime, hostHistory>>
LeaveEnded(t) ==
    /\ cleaner[t].at = "ending" /\ control.broadcast # "ending"
    /\ cleaner' = [cleaner EXCEPT ![t].at = AfterClear(t)]
    /\ UNCHANGED <<rtsp, startup, stream_of, control, webrtc, runtime, hostHistory>>

(* Who clears everything: cancel, which then ends the application; the RTSP loop when it     *)
(* sees a broadcast end and when it leaves; main when the io_context has been stopped.       *)
ClearAll(t, final) ==
    /\ Unoccupied(t)
    /\ cleaner' = [cleaner EXCEPT ![t].at = "cancelling", ![t].final = final]
Disruption == [runtime EXCEPT !.disruptions = @ + 1]
cancel ==
    /\ runtime.disruptions < MaxDisruptions
    /\ Serving /\ ClearAll("cancel", FALSE)
    /\ hostHistory' = [hostHistory EXCEPT !.doomed = rtsp.pending \cup rtsp.listed]
    /\ runtime' = Disruption
    /\ UNCHANGED <<rtsp, startup, stream_of, control, webrtc>>
CancelTerminates ==
    /\ cleaner["cancel"].at = "terminating" /\ GateFree
    /\ cleaner' = [cleaner EXCEPT !["cancel"] = Resting]
    /\ hostHistory' = [hostHistory EXCEPT !.terminated = @ \cup hostHistory.doomed, !.doomed = {}]
    /\ runtime' = [runtime EXCEPT !.app = None]
    /\ UNCHANGED <<rtsp, startup, stream_of, control, webrtc>>
RtspLoop ==
    /\ \/ control.broadcast = "ending" /\ ClearAll("rtsp", FALSE)
       \/ ~Serving /\ startup_count = 0 /\ ClearAll("rtsp", TRUE)
    /\ UNCHANGED <<rtsp, startup, stream_of, control, webrtc, runtime, hostHistory>>

(* Shutdown: the event, then stop_startup_pool and stop, in the thread of start().           *)
Advance(from, to) == runtime.shutdown = from /\ runtime' = [runtime EXCEPT !.shutdown = to]
Shutdown ==
    /\ \/ /\ Serving /\ runtime.disruptions < MaxDisruptions
          /\ runtime' = [Disruption EXCEPT !.shutdown = "raised"] /\ UNCHANGED cleaner
       \/ Advance("raised", "draining") /\ UNCHANGED cleaner
       \/ /\ startup.tasks = <<>> /\ startup.busy = None
          /\ Advance("draining", "stopped") /\ ClearAll("main", TRUE)
    /\ UNCHANGED <<rtsp, startup, stream_of, control, webrtc, hostHistory>>
AppExits ==
    /\ runtime.app = "running" /\ runtime.disruptions < MaxDisruptions
    /\ runtime' = [Disruption EXCEPT !.app = "exited"]
    /\ UNCHANGED <<rtsp, startup, stream_of, control, cleaner, webrtc, hostHistory>>

--------------------------------------------------------------------------------
(* WebRTC sessions share one capture.  The last one out stops it, in two sections of the     *)
(* gate with the joins between them.                                                         *)
WebOwners == webrtc.pending \cup webrtc.active
WebStart(w) ==
    /\ MayBegin /\ GateFree /\ webrtc.stopper = None /\ w \notin webrtc.seen
    /\ ~has_pending_launch_or_startup
    /\ webrtc' = [webrtc EXCEPT !.pending = @ \cup {w}, !.seen = @ \cup {w}, !.capture = TRUE]
    /\ IF webrtc.capture THEN UNCHANGED runtime ELSE \E app \in {runtime.app, "running"} : Arm(app)
    /\ UNCHANGED <<rtsp, startup, stream_of, control, cleaner, hostHistory>>
WebCreate(w) ==
    /\ GateFree /\ w \in webrtc.pending
    /\ webrtc' = [webrtc EXCEPT !.pending = @ \ {w}, !.active = @ \cup {w}]
    /\ IF webrtc.active = {} THEN Arm(runtime.app) ELSE UNCHANGED runtime
    /\ UNCHANGED <<rtsp, startup, stream_of, control, cleaner, hostHistory>>
WebClose(w) ==
    /\ GateFree /\ w \in webrtc.active
    /\ webrtc' = [webrtc EXCEPT !.active = @ \ {w}, !.closing = @ \cup {w}]
    /\ UNCHANGED <<rtsp, startup, stream_of, control, cleaner, runtime, hostHistory>>
(* stop_webrtc_capture_if_idle, of a session that closes or of a creation that failed.       *)
StopIfIdle(w) ==
    webrtc' = IF WebOwners \ {w} # {} \/ webrtc.stopper # None
              THEN [webrtc EXCEPT !.pending = @ \ {w}, !.closing = @ \ {w}]
              ELSE [webrtc EXCEPT !.pending = @ \ {w}, !.stopper = w, !.capture = FALSE]
WebStopCapture(w) ==
    /\ GateFree /\ w \in webrtc.closing \cup webrtc.pending /\ w # webrtc.stopper
    /\ StopIfIdle(w)
    /\ UNCHANGED <<rtsp, startup, stream_of, control, cleaner, runtime, hostHistory>>
WebFinish ==
    /\ GateFree /\ webrtc.stopper # None
    /\ webrtc' = [webrtc EXCEPT !.closing = @ \ {webrtc.stopper}, !.stopper = None]
    /\ UNCHANGED <<rtsp, startup, stream_of, control, cleaner, hostHistory>>
    /\ FinalizeIfIdle

--------------------------------------------------------------------------------
ClientSteps(c) ==
    \/ Launch(c) \/ Resume(c) \/ Stops(c) \/ graceful_stop(c) \/ disconnect_client(c)
    \/ arm_launch_timer(c) \/ cmd_announce(c) \/ Publish(c)
    \/ ControlConnect(c) \/ ControlReap(c)
CleanerSteps(t) ==
    \/ cancel_pending_launches(t) \/ CollectAll(t) \/ Sweep(t) \/ Leave(t) \/ Drop(t) \/ LeaveEnded(t)
    \/ \E c \in Clients : BeginJoin(t, c)
HostSessionsNext ==
    \/ \E c \in Clients : ClientSteps(c)
    \/ \E t \in Threads : CleanerSteps(t)
    \/ \E w \in Browsers : WebStart(w) \/ WebCreate(w) \/ WebClose(w) \/ WebStopCapture(w)
    \/ WebFinish \/ AskIfRunning \/ finish_startup
    \/ Discard \/ BeginStart \/ FailStart
    \/ session_clear \/ ControlNotices \/ ControlTerminates \/ ControlQuits \/ EndBroadcast
    \/ cancel \/ CancelTerminates \/ RtspLoop \/ Shutdown \/ AppExits

HostSessionsSpec == HostSessionsInit /\ [][HostSessionsNext]_hostSessionVars

--------------------------------------------------------------------------------
(* The display, the virtual display and the limiter that sessions share are never left        *)
(* prepared without an owner who will let them go: whoever releases last has finalized,       *)
(* whichever of launch, startup, session, teardown and capture it was                         *)
(* (finalize_shared_runtime_if_idle).                                                        *)
RuntimeHasOwner == GateFree /\ runtime.armed => has_shared_runtime_owner

(* Nor are they taken down under somebody: a launch, a session that runs and a capture        *)
(* always find them prepared (has_shared_runtime_owner).                                      *)
OwnedIsArmed == rtsp.pending # {} \/ rtsp.running # {} \/ WebOwners # {} => runtime.armed

(* Once a cancel has answered, no launch or session it found is listed, waiting or starting,  *)
(* however it raced with the startup worker (cmd_announce, terminate_sessions).               *)
TerminationHolds ==
    hostHistory.terminated \cap (rtsp.pending \cup rtsp.listed \cup {startup.busy}) = {}

================================================================================
