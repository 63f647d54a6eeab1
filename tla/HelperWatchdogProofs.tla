--------------------------- MODULE HelperWatchdogProofs ---------------------------
(* The watchdog for every number of launches, hotkeys and system_errors.  First who owns a  *)
(* thread: the global jthread or the one caller that is joining; the invariant says besides *)
(* which of the four threads can be in a call at all.  Then what streams, what is shown and *)
(* what an idle host is left with.                                                        *)
EXTENDS HelperWatchdog, FiniteSetTheorems, TLAPS

(* The variables are records of these members; of most of them no more is needed.          *)
IsRecord(r, members) == r = [m \in members |-> r[m]]
WatchdogMembers == {"state", "thread", "reaping", "torndown", "generation", "epoch"}
CallMembers == {"op", "at", "force", "epoch", "generation", "worker"}
GateMembers == {"at", "launch", "live", "app", "started", "start_deferred", "revert_owed",
                "published", "forced", "kept"}
EnderMembers == {"hotkey", "presses", "main"}

WatchdogShape ==
    /\ IsRecord(watchdog, WatchdogMembers) /\ IsRecord(workers, {"alive", "asked"})
    /\ IsRecord(gate, GateMembers) /\ IsRecord(poller, {"at", "claimed"}) /\ IsRecord(enders, EnderMembers)
    /\ IsRecord(calls, WatchdogThreads)
    /\ \A c \in WatchdogThreads : IsRecord(calls[c], CallMembers)

(* A thread in a call is where its caller waits for the call; only a session start starts  *)
(* a watchdog.                                                                            *)
CallersWait ==
    /\ \A c \in WatchdogThreads : calls[c].op = "none" => calls[c].at = ""
    /\ \A c \in WatchdogThreads : calls[c].op = "start" => c = "gate" /\ gate.at = "starting"
    /\ calls["gate"].op # "none" => gate.at \in {"starting", "stopping"}
    /\ calls["control"].op # "none" => poller.at = "stopping"
    /\ calls["hotkey"].op # "none" => enders.hotkey = "stopping"
    /\ calls["main"].op # "none" => enders.main = "stopping" /\ calls["main"].force = TRUE

(* One caller joins at a time; while it does the global jthread is empty.                  *)
Joining(c) == calls[c].at = "join"
OneOwner ==
    /\ \A c \in WatchdogThreads : Joining(c) => watchdog.reaping = TRUE /\ watchdog.thread = 0
    /\ \A c, d \in WatchdogThreads : Joining(c) /\ Joining(d) => c = d
    /\ \A w \in workers.alive :
          w # 0 /\ (watchdog.thread = w \/ \E c \in WatchdogThreads : Joining(c) /\ calls[c].worker = w)

(* Once main has begun to stop nothing streams any more, and no worker is left when its    *)
(* call has returned.                                                                     *)
MainLast ==
    /\ enders.main # "running" => gate.at \in {"idle", "stopping"}
    /\ enders.main = "stopping" /\ calls["main"].op = "none" => workers.alive = {}
    /\ enders.main = "done" => workers.alive = {}

WatchdogInv == WatchdogShape /\ CallersWait /\ OneOwner /\ MainLast

--------------------------------------------------------------------------------
LEMMA InitEstablishes == ASSUME WatchdogInit PROVE WatchdogInv
<1>1. WatchdogShape
  BY DEF WatchdogInit, WatchdogShape, IsRecord, WatchdogMembers, GateMembers, EnderMembers, CallMembers,
         NoWatchdogCall
<1>2. CallersWait
  BY DEF WatchdogInit, CallersWait, NoWatchdogCall, WatchdogThreads
<1>3. OneOwner
  BY DEF WatchdogInit, OneOwner, Joining, NoWatchdogCall
<1>4. MainLast
  BY DEF WatchdogInit, MainLast
<1> QED BY <1>1, <1>2, <1>3, <1>4 DEF WatchdogInv

(* An assignment to a member keeps a record of the same members.                          *)
LEMMA UpdateIsRecord ==
    ASSUME NEW members, NEW r, IsRecord(r, members), NEW m \in members, NEW v
    PROVE  /\ IsRecord([r EXCEPT ![m] = v], members) /\ [r EXCEPT ![m] = v][m] = v
           /\ \A n \in members \ {m} : [r EXCEPT ![m] = v][n] = r[n]
  BY DEF IsRecord

(* A caller that returns, or begins, leaves the calls of the other threads.               *)
LEMMA CallChanges ==
    ASSUME WatchdogShape, NEW c \in WatchdogThreads, NEW call, IsRecord(call, CallMembers),
           calls' = [calls EXCEPT ![c] = call]
    PROVE  /\ IsRecord(calls', WatchdogThreads)
           /\ \A d \in WatchdogThreads : IsRecord(calls'[d], CallMembers)
           /\ calls'[c] = call
           /\ \A d \in WatchdogThreads \ {c} : calls'[d] = calls[d]
  BY DEF WatchdogShape, IsRecord

LEMMA CallShapes ==
    /\ IsRecord(NoWatchdogCall, CallMembers) /\ NoWatchdogCall.op = "none" /\ NoWatchdogCall.at = ""
    /\ IsRecord(StartCall, CallMembers) /\ StartCall.op = "start" /\ StartCall.at = "begin"
    /\ \A force : /\ IsRecord(StopCall(force), CallMembers) /\ StopCall(force).op = "stop"
                  /\ StopCall(force).at = "loop" /\ StopCall(force).force = force
  BY DEF NoWatchdogCall, StartCall, StopCall, IsRecord, CallMembers

(* Where nobody takes or gives back the thread its ownership does not change.             *)
LEMMA OwnersRest ==
    ASSUME OneOwner, watchdog'.thread = watchdog.thread, watchdog'.reaping = watchdog.reaping,
           workers'.alive \subseteq workers.alive,
           \A c \in WatchdogThreads : (Joining(c) <=> Joining(c)') /\ (Joining(c) => calls'[c].worker = calls[c].worker)
    PROVE  OneOwner'
  BY DEF OneOwner, Joining

LEMMA ReturnKeeps ==
    ASSUME WatchdogShape, NEW c \in WatchdogThreads, CallReturns(c)
    PROVE  /\ IsRecord(calls', WatchdogThreads) /\ (\A d \in WatchdogThreads : IsRecord(calls'[d], CallMembers))
           /\ calls'[c] = NoWatchdogCall /\ (\A d \in WatchdogThreads \ {c} : calls'[d] = calls[d])
           /\ calls'[c].op = "none" /\ calls'[c].at = ""
  BY CallChanges, CallShapes DEF CallReturns

(* When nobody joins and the global jthread is empty no worker is left.                   *)
LEMMA NobodyLeft ==
    ASSUME OneOwner,
           \/ watchdog.reaping # TRUE /\ watchdog.thread = 0
           \/ \E c \in WatchdogThreads : Joining(c) /\ MayJoin(c)
    PROVE  workers.alive = {}
  BY DEF OneOwner, Joining, MayJoin

(* A new worker is owned by the global jthread; one that could not be created is not there. *)
LEMMA NewWatchdogOwned ==
    ASSUME WatchdogShape, workers.alive = {}, watchdog.thread = 0,
           NEW torndown, NewWatchdog(torndown)
    PROVE  /\ IsRecord(watchdog', WatchdogMembers) /\ IsRecord(workers', {"alive", "asked"})
           /\ watchdog'.reaping = FALSE
           /\ \A w \in workers'.alive : w # 0 /\ watchdog'.thread = w
<1>1. CASE /\ watchdog' = [watchdog EXCEPT !.state = "running", !.thread = Fresh, !.reaping = FALSE,
                                          !.torndown = FALSE, !.generation = descriptor'.generation]
           /\ workers' = [workers EXCEPT !.alive = @ \cup {Fresh}]
  <2>1. Fresh # 0
    BY WatchdogAssumption DEF Fresh
  <2>2. /\ IsRecord(watchdog', WatchdogMembers) /\ watchdog'.thread = Fresh /\ watchdog'.reaping = FALSE
    BY <1>1 DEF WatchdogShape, IsRecord, WatchdogMembers
  <2>3. IsRecord(workers', {"alive", "asked"}) /\ workers'.alive = {Fresh}
    BY <1>1 DEF WatchdogShape, IsRecord
  <2> QED BY <2>1, <2>2, <2>3
<1>2. CASE /\ watchdog' = [watchdog EXCEPT !.state = "stopped", !.reaping = FALSE,
                                          !.torndown = torndown, !.generation = 0]
           /\ UNCHANGED workers
  BY <1>2 DEF WatchdogShape, IsRecord, WatchdogMembers
<1> QED BY <1>1, <1>2 DEF NewWatchdog

--------------------------------------------------------------------------------
(* start_watchdog and stop_watchdog.                                                      *)
LEMMA StartBeginKeeps ==
    ASSUME WatchdogInv, NEW c \in WatchdogThreads, StartBegin(c) PROVE WatchdogInv'
<1>0. WatchdogShape /\ CallersWait /\ OneOwner /\ MainLast
  BY DEF WatchdogInv
<1>1. /\ calls[c].op = "start" /\ calls[c].at = "begin"
      /\ UNCHANGED <<watchdog, workers, gate, poller, enders>>
  BY DEF StartBegin
<1>2. /\ IsRecord(calls', WatchdogThreads) /\ \A d \in WatchdogThreads : IsRecord(calls'[d], CallMembers)
      /\ calls'[c].op = "start" /\ calls'[c].at = "loop"
      /\ \A d \in WatchdogThreads \ {c} : calls'[d] = calls[d]
  BY <1>0 DEF StartBegin, WatchdogShape, IsRecord, CallMembers
<1>3. WatchdogShape'
  BY <1>0, <1>1, <1>2 DEF WatchdogShape
<1>4. CallersWait'
  BY ZenonT(60), <1>0, <1>1, <1>2 DEF CallersWait, WatchdogThreads
<1>5. OneOwner'
  BY <1>0, <1>1, <1>2, OwnersRest DEF Joining
<1>6. MainLast'
  BY <1>0, <1>1, <1>2 DEF MainLast, CallersWait, WatchdogThreads
<1> QED BY <1>3, <1>4, <1>5, <1>6 DEF WatchdogInv

(* The caller takes the thread out of the global jthread to join it.                      *)
LEMMA ReapsOwned ==
    ASSUME WatchdogShape, OneOwner, NEW c \in WatchdogThreads, ~Joining(c), Reaps(c),
           watchdog.reaping # TRUE, watchdog'.thread = 0, watchdog'.reaping = TRUE
    PROVE  /\ IsRecord(calls', WatchdogThreads) /\ (\A d \in WatchdogThreads : IsRecord(calls'[d], CallMembers))
           /\ calls'[c].op = calls[c].op /\ calls'[c].at = "join" /\ calls'[c].force = calls[c].force
           /\ \A d \in WatchdogThreads \ {c} : calls'[d] = calls[d]
           /\ IsRecord(workers', {"alive", "asked"}) /\ workers'.alive = workers.alive
           /\ OneOwner'
<1> DEFINE generation == IF calls[c].force THEN 0 ELSE watchdog.generation
<1>1. calls' = [calls EXCEPT ![c].at = "join", ![c].worker = watchdog.thread, ![c].generation = generation]
  BY DEF Reaps
<1> HIDE DEF generation
<1>2. /\ IsRecord(calls', WatchdogThreads) /\ \A d \in WatchdogThreads : IsRecord(calls'[d], CallMembers)
      /\ calls'[c].op = calls[c].op /\ calls'[c].at = "join" /\ calls'[c].force = calls[c].force
      /\ calls'[c].worker = watchdog.thread
      /\ \A d \in WatchdogThreads \ {c} : calls'[d] = calls[d]
  <2> DEFINE joins == [calls[c] EXCEPT !.at = "join", !.worker = watchdog.thread, !.generation = generation]
  <2>0. IsRecord(calls[c], CallMembers)
    BY DEF WatchdogShape
  <2>1. /\ IsRecord(joins, CallMembers) /\ joins.op = calls[c].op /\ joins.at = "join"
        /\ joins.force = calls[c].force /\ joins.worker = watchdog.thread
    BY <2>0 DEF IsRecord, CallMembers
  <2>2. calls' = [calls EXCEPT ![c] = joins]
    BY <1>1 DEF WatchdogShape, IsRecord
  <2> HIDE DEF joins
  <2> QED BY <2>1, <2>2, CallChanges
<1>3. IsRecord(workers', {"alive", "asked"}) /\ workers'.alive = workers.alive
  BY DEF Reaps, Ask, WatchdogShape, IsRecord
<1>4. OneOwner'
  <2>1. \A d \in WatchdogThreads : ~Joining(d)
    BY DEF OneOwner
  <2>2. \A d \in WatchdogThreads \ {c} : ~Joining(d)'
    BY <1>2, <2>1 DEF Joining
  <2>3. \A w \in workers'.alive : w # 0 /\ watchdog.thread = w
    BY <1>3, <2>1 DEF OneOwner
  <2>4. Joining(c)' /\ calls'[c].worker = watchdog.thread
    BY <1>2 DEF Joining
  <2> QED BY <2>2, <2>3, <2>4 DEF OneOwner
<1> QED BY <1>2, <1>3, <1>4

LEMMA ReturnWaits ==
    ASSUME CallersWait, NEW c \in WatchdogThreads, calls'[c].op = "none", calls'[c].at = "",
           \A d \in WatchdogThreads \ {c} : calls'[d] = calls[d],
           UNCHANGED <<gate, poller, enders>>
    PROVE  CallersWait'
  BY DEF CallersWait, WatchdogThreads

(* While a start is under way main runs.                                                  *)
LEMMA StartMeansRunning ==
    ASSUME CallersWait, MainLast, NEW c \in WatchdogThreads, calls[c].op = "start"
    PROVE  c = "gate" /\ enders.main = "running"
  BY DEF CallersWait, MainLast, WatchdogThreads

LEMMA StartLoopKeeps ==
    ASSUME WatchdogInv, NEW c \in WatchdogThreads, StartLoop(c) PROVE WatchdogInv'
<1>0. WatchdogShape /\ CallersWait /\ OneOwner /\ MainLast
  BY DEF WatchdogInv
<1>1. calls[c].op = "start" /\ calls[c].at = "loop" /\ UNCHANGED <<gate, poller, enders>>
  BY DEF StartLoop
<1>2. enders.main = "running" /\ MainLast'
  BY <1>0, <1>1, StartMeansRunning DEF MainLast
<1>3. CASE StartAdopts(c) /\ UNCHANGED workers
  <2>1. /\ IsRecord(watchdog', WatchdogMembers)
        /\ watchdog'.thread = watchdog.thread /\ watchdog'.reaping = watchdog.reaping
    BY <1>0, <1>3 DEF StartAdopts, WatchdogShape, IsRecord, WatchdogMembers
  <2>2. CallReturns(c)
    BY <1>3 DEF StartAdopts
  <2>3. WatchdogShape' /\ CallersWait'
    BY <1>0, <1>1, <1>3, <2>1, <2>2, ReturnKeeps, ReturnWaits DEF WatchdogShape
  <2>4. OneOwner'
    BY <1>0, <1>1, <1>3, <2>1, <2>2, ReturnKeeps, OwnersRest DEF Joining
  <2> QED BY <1>2, <2>3, <2>4 DEF WatchdogInv
<1>4. CASE /\ ~watchdog.reaping
           /\ watchdog' = [watchdog EXCEPT !.state = "stopping", !.thread = 0, !.reaping = TRUE]
           /\ Reaps(c)
  <2>1. /\ IsRecord(watchdog', WatchdogMembers) /\ watchdog'.thread = 0 /\ watchdog'.reaping = TRUE
    BY <1>0, <1>4 DEF WatchdogShape, IsRecord, WatchdogMembers
  <2>2. ~Joining(c) /\ watchdog.reaping # TRUE
    BY <1>1, <1>4 DEF Joining
  <2>3. WatchdogShape' /\ OneOwner'
    BY <1>0, <1>1, <1>4, <2>1, <2>2, ReapsOwned DEF WatchdogShape
  <2>4. CallersWait'
    <3>1. calls'[c].op = "start" /\ \A d \in WatchdogThreads \ {c} : calls'[d] = calls[d]
      BY <1>0, <1>1, <1>4, <2>1, <2>2, ReapsOwned
    <3> QED BY <1>0, <1>1, <3>1, StartMeansRunning DEF CallersWait, WatchdogThreads
  <2> QED BY <1>2, <2>3, <2>4 DEF WatchdogInv
<1>5. CASE /\ ~watchdog.reaping /\ watchdog.thread = 0 /\ CallReturns(c)
           /\ UNCHANGED <<watchdog, workers>>
  <2>1. WatchdogShape' /\ CallersWait'
    BY <1>0, <1>1, <1>5, ReturnKeeps, ReturnWaits DEF WatchdogShape
  <2>2. OneOwner'
    BY <1>0, <1>1, <1>5, ReturnKeeps, OwnersRest DEF Joining
  <2> QED BY <1>2, <2>1, <2>2 DEF WatchdogInv
<1>6. CASE ~watchdog.reaping /\ watchdog.thread = 0 /\ CallReturns(c) /\ NewWatchdog(watchdog.torndown)
  <2>1. workers.alive = {}
    BY <1>0, <1>6, NobodyLeft
  <2>2. WatchdogShape' /\ CallersWait'
    BY <1>0, <1>1, <1>6, <2>1, ReturnKeeps, ReturnWaits, NewWatchdogOwned DEF WatchdogShape
  <2>3. \A d \in WatchdogThreads : ~Joining(d)'
    <3>1. calls'[c].at = "" /\ \A d \in WatchdogThreads \ {c} : calls'[d] = calls[d]
      BY <1>0, <1>6, ReturnKeeps
    <3>2. \A d \in WatchdogThreads : ~Joining(d)
      BY <1>0, <1>6 DEF OneOwner
    <3> QED BY <3>1, <3>2 DEF Joining
  <2>4. OneOwner'
    BY <1>0, <1>6, <2>1, <2>3, NewWatchdogOwned DEF OneOwner
  <2> QED BY <1>2, <2>2, <2>4 DEF WatchdogInv
<1> QED BY <1>3, <1>4, <1>5, <1>6 DEF StartLoop

(* The joined worker is gone; a new one takes its place, or none.                         *)
LEMMA StartJoinedKeeps ==
    ASSUME WatchdogInv, NEW c \in WatchdogThreads, StartJoined(c) PROVE WatchdogInv'
<1>0. WatchdogShape /\ CallersWait /\ OneOwner /\ MainLast
  BY DEF WatchdogInv
<1>1. /\ calls[c].op = "start" /\ Joining(c) /\ MayJoin(c) /\ CallReturns(c)
      /\ UNCHANGED <<gate, poller, enders>>
  BY DEF StartJoined, Joining
<1>2. MainLast'
  BY <1>0, <1>1, StartMeansRunning DEF MainLast
<1>3. workers.alive = {} /\ watchdog.thread = 0
  BY <1>0, <1>1, NobodyLeft DEF OneOwner
<1>4. \A d \in WatchdogThreads : ~Joining(d)'
  <2>1. calls'[c].at = "" /\ \A d \in WatchdogThreads \ {c} : calls'[d] = calls[d]
    BY <1>0, <1>1, ReturnKeeps
  <2>2. \A d \in WatchdogThreads \ {c} : ~Joining(d)
    BY <1>0, <1>1 DEF OneOwner
  <2> QED BY <2>1, <2>2 DEF Joining
<1>5. /\ IsRecord(watchdog', WatchdogMembers) /\ IsRecord(workers', {"alive", "asked"})
      /\ \A w \in workers'.alive : w # 0 /\ watchdog'.thread = w
  <2>1. CASE NewWatchdog(TRUE)
    BY <1>0, <1>3, <2>1, NewWatchdogOwned
  <2>2. CASE /\ watchdog' = [watchdog EXCEPT !.state = "stopped", !.reaping = FALSE,
                                            !.torndown = TRUE, !.generation = 0]
             /\ UNCHANGED workers
    BY <1>0, <1>3, <2>2 DEF WatchdogShape, IsRecord, WatchdogMembers
  <2> QED BY <2>1, <2>2 DEF StartJoined
<1>6. WatchdogShape' /\ CallersWait'
  BY <1>0, <1>1, <1>5, ReturnKeeps, ReturnWaits DEF WatchdogShape
<1>7. OneOwner'
  BY <1>4, <1>5 DEF OneOwner
<1> QED BY <1>2, <1>6, <1>7 DEF WatchdogInv

(* A join that throws gives the thread back: the only joiner's.                           *)
LEMMA JoinFailsKeeps ==
    ASSUME WatchdogInv, NEW c \in WatchdogThreads, JoinFails(c) PROVE WatchdogInv'
<1>0. WatchdogShape /\ CallersWait /\ OneOwner /\ MainLast
  BY DEF WatchdogInv
<1>1. /\ Joining(c) /\ CallReturns(c) /\ UNCHANGED <<workers, gate, poller>>
      /\ enders' = IF c = "main" THEN [enders EXCEPT !.main = "failed"] ELSE enders
  BY DEF JoinFails, Joining
<1>2. /\ IsRecord(watchdog', WatchdogMembers) /\ watchdog'.reaping = FALSE
      /\ watchdog'.thread = calls[c].worker
  BY <1>0 DEF JoinFails, WatchdogShape, IsRecord, WatchdogMembers
<1>3. /\ IsRecord(calls', WatchdogThreads) /\ \A d \in WatchdogThreads : IsRecord(calls'[d], CallMembers)
      /\ calls'[c].op = "none" /\ calls'[c].at = ""
      /\ \A d \in WatchdogThreads \ {c} : calls'[d] = calls[d]
  BY <1>0, <1>1, ReturnKeeps
<1>4. /\ IsRecord(enders', EnderMembers) /\ enders'.hotkey = enders.hotkey
      /\ enders'.main = IF c = "main" THEN "failed" ELSE enders.main
  BY <1>0, <1>1 DEF WatchdogShape, IsRecord, EnderMembers
<1>5. WatchdogShape'
  BY <1>0, <1>1, <1>2, <1>3, <1>4 DEF WatchdogShape
<1>6. CallersWait'
  <2>1. UNCHANGED <<gate, poller>>
    BY <1>1
  <2>2. CASE c = "main"
    BY ZenonT(60), <1>0, <1>3, <1>4, <2>1, <2>2 DEF CallersWait, WatchdogThreads
  <2>3. CASE c # "main"
    BY <1>0, <1>3, <1>4, <2>1, <2>3 DEF CallersWait, WatchdogThreads
  <2> QED BY <2>2, <2>3
<1>7. OneOwner'
  <2>0. \A d \in WatchdogThreads \ {c} : ~Joining(d)
    BY <1>0, <1>1 DEF OneOwner
  <2>1. \A d \in WatchdogThreads : ~Joining(d)'
    BY <1>3, <2>0 DEF Joining
  <2>2. \A w \in workers.alive : w # 0 /\ w = calls[c].worker
    BY <1>0, <1>1 DEF OneOwner, Joining
  <2> QED BY <1>1, <1>2, <2>1, <2>2 DEF OneOwner
<1>8. MainLast'
  <2>1. CASE c = "main"
    <3>1. enders.main = "stopping"
      BY <1>0, <1>1, <2>1 DEF CallersWait, Joining, WatchdogThreads
    <3> QED BY <1>0, <1>1, <1>4, <2>1, <3>1 DEF MainLast
  <2>2. CASE c # "main"
    BY <1>0, <1>1, <1>3, <1>4, <2>2 DEF MainLast, WatchdogThreads
  <2> QED BY <2>1, <2>2
<1> QED BY <1>5, <1>6, <1>7, <1>8 DEF WatchdogInv

(* main's stop is forced, so that it returns only when there is no worker.                *)
LEMMA MainStillLast ==
    ASSUME MainLast, NEW c \in WatchdogThreads, \A d \in WatchdogThreads \ {c} : calls'[d] = calls[d],
           UNCHANGED <<gate, enders>>, workers'.alive \subseteq workers.alive,
           c = "main" => calls'[c].op # "none" \/ workers.alive = {}
    PROVE  MainLast'
  BY DEF MainLast, WatchdogThreads

LEMMA StopLoopKeeps ==
    ASSUME WatchdogInv, NEW c \in WatchdogThreads, StopLoop(c) PROVE WatchdogInv'
<1> DEFINE stopping == [watchdog EXCEPT !.epoch = @ + 1, !.state = "stopping"]
<1>0. WatchdogShape /\ CallersWait /\ OneOwner /\ MainLast
  BY DEF WatchdogInv
<1>1. calls[c].op = "stop" /\ calls[c].at = "loop" /\ UNCHANGED <<gate, poller, enders>>
  BY DEF StopLoop
<1>2. ~Joining(c) /\ (c = "main" => ~StaleStop(c))
  BY <1>0, <1>1 DEF Joining, CallersWait, StaleStop, WatchdogThreads
<1>3. /\ IsRecord(stopping, WatchdogMembers) /\ stopping.thread = watchdog.thread
      /\ stopping.reaping = watchdog.reaping
  BY <1>0 DEF WatchdogShape, IsRecord, WatchdogMembers
<1>4. CASE /\ (watchdog.thread = 0 /\ ~watchdog.reaping) \/ StaleStop(c)
           /\ CallReturns(c) /\ UNCHANGED <<watchdog, workers>>
  <2>1. /\ IsRecord(calls', WatchdogThreads) /\ \A d \in WatchdogThreads : IsRecord(calls'[d], CallMembers)
        /\ calls'[c].op = "none" /\ calls'[c].at = ""
        /\ \A d \in WatchdogThreads \ {c} : calls'[d] = calls[d]
    BY <1>0, <1>4, ReturnKeeps
  <2>2. WatchdogShape'
    BY <1>0, <1>1, <1>4, <2>1 DEF WatchdogShape
  <2>3. CallersWait'
    BY <1>0, <1>1, <2>1, ReturnWaits
  <2>4. OneOwner'
    BY <1>0, <1>2, <1>4, <2>1, OwnersRest DEF Joining
  <2>5. c = "main" => workers.alive = {}
    BY <1>0, <1>2, <1>4, NobodyLeft
  <2>6. MainLast'
    BY <1>0, <1>1, <1>4, <2>1, <2>5, MainStillLast
  <2> QED BY <2>2, <2>3, <2>4, <2>6 DEF WatchdogInv
<1>5. CASE watchdog' = stopping /\ calls' = [calls EXCEPT ![c].at = "wait"] /\ UNCHANGED workers
  <2>1. /\ IsRecord(calls', WatchdogThreads) /\ \A d \in WatchdogThreads : IsRecord(calls'[d], CallMembers)
        /\ calls'[c].op = "stop" /\ calls'[c].at = "wait" /\ calls'[c].force = calls[c].force
        /\ \A d \in WatchdogThreads \ {c} : calls'[d] = calls[d]
    BY <1>0, <1>1, <1>5 DEF WatchdogShape, IsRecord, CallMembers
  <2> HIDE DEF stopping
  <2>2. WatchdogShape'
    BY <1>0, <1>1, <1>3, <1>5, <2>1 DEF WatchdogShape
  <2>3. CallersWait'
    BY ZenonT(60), <1>0, <1>1, <2>1 DEF CallersWait, WatchdogThreads
  <2>4. OneOwner'
    BY <1>0, <1>2, <1>3, <1>5, <2>1, OwnersRest DEF Joining
  <2>5. MainLast'
    BY <1>0, <1>1, <1>5, <2>1, MainStillLast
  <2> QED BY <2>2, <2>3, <2>4, <2>5 DEF WatchdogInv
<1>6. CASE /\ ~watchdog.reaping /\ watchdog.thread = 0
           /\ watchdog' = [stopping EXCEPT !.state = "stopped", !.torndown = TRUE, !.generation = 0]
           /\ CallReturns(c) /\ UNCHANGED workers
  <2> HIDE DEF stopping
  <2>1. /\ IsRecord(watchdog', WatchdogMembers) /\ watchdog'.thread = watchdog.thread
        /\ watchdog'.reaping = watchdog.reaping
    BY <1>3, <1>6 DEF IsRecord, WatchdogMembers
  <2>2. /\ IsRecord(calls', WatchdogThreads) /\ \A d \in WatchdogThreads : IsRecord(calls'[d], CallMembers)
        /\ calls'[c].op = "none" /\ calls'[c].at = ""
        /\ \A d \in WatchdogThreads \ {c} : calls'[d] = calls[d]
    BY <1>0, <1>6, ReturnKeeps
  <2>3. WatchdogShape'
    BY <1>0, <1>1, <1>6, <2>1, <2>2 DEF WatchdogShape
  <2>4. CallersWait'
    BY <1>0, <1>1, <2>2, ReturnWaits
  <2>5. OneOwner'
    BY <1>0, <1>2, <1>6, <2>1, <2>2, OwnersRest DEF Joining
  <2>6. workers.alive = {}
    BY <1>0, <1>6, NobodyLeft
  <2>7. MainLast'
    BY <1>0, <1>1, <1>6, <2>2, <2>6, MainStillLast
  <2> QED BY <2>3, <2>4, <2>5, <2>7 DEF WatchdogInv
<1>7. CASE /\ ~watchdog.reaping
           /\ watchdog' = [stopping EXCEPT !.thread = 0, !.reaping = TRUE]
           /\ Reaps(c)
  <2> HIDE DEF stopping
  <2>1. IsRecord(watchdog', WatchdogMembers) /\ watchdog'.thread = 0 /\ watchdog'.reaping = TRUE
    BY <1>3, <1>7 DEF IsRecord, WatchdogMembers
  <2>2. /\ IsRecord(calls', WatchdogThreads) /\ (\A d \in WatchdogThreads : IsRecord(calls'[d], CallMembers))
        /\ calls'[c].op = calls[c].op /\ calls'[c].at = "join" /\ calls'[c].force = calls[c].force
        /\ \A d \in WatchdogThreads \ {c} : calls'[d] = calls[d]
        /\ IsRecord(workers', {"alive", "asked"}) /\ workers'.alive = workers.alive
        /\ OneOwner'
    BY <1>0, <1>2, <1>7, <2>1, ReapsOwned
  <2>3. WatchdogShape'
    BY <1>0, <1>1, <2>1, <2>2 DEF WatchdogShape
  <2>4. CallersWait'
    BY ZenonT(60), <1>0, <1>1, <2>2 DEF CallersWait, WatchdogThreads
  <2>5. MainLast'
    BY <1>0, <1>1, <2>2, MainStillLast
  <2> QED BY <2>2, <2>3, <2>4, <2>5 DEF WatchdogInv
<1> QED BY <1>4, <1>5, <1>6, <1>7 DEF StopLoop

LEMMA StopWaitKeeps ==
    ASSUME WatchdogInv, NEW c \in WatchdogThreads, StopWait(c) PROVE WatchdogInv'
<1>0. WatchdogShape /\ CallersWait /\ OneOwner /\ MainLast
  BY DEF WatchdogInv
<1>1. /\ calls[c].at = "wait" /\ ~Joining(c) /\ calls[c].op # "none"
      /\ UNCHANGED <<watchdog, workers, gate, poller, enders>>
  BY <1>0 DEF StopWait, Joining, CallersWait
<1>2. CASE calls' = [calls EXCEPT ![c].at = "loop"]
  <2>1. /\ IsRecord(calls', WatchdogThreads) /\ \A d \in WatchdogThreads : IsRecord(calls'[d], CallMembers)
        /\ calls'[c].op = calls[c].op /\ calls'[c].at = "loop" /\ calls'[c].force = calls[c].force
        /\ \A d \in WatchdogThreads \ {c} : calls'[d] = calls[d]
    BY ZenonT(60), <1>0, <1>2 DEF WatchdogShape, IsRecord, CallMembers
  <2>2. WatchdogShape'
    BY <1>0, <1>1, <2>1 DEF WatchdogShape
  <2>3. CallersWait'
    BY ZenonT(60), <1>0, <1>1, <2>1 DEF CallersWait, WatchdogThreads
  <2>4. OneOwner'
    BY <1>0, <1>1, <2>1, OwnersRest DEF Joining
  <2>5. MainLast'
    BY <1>0, <1>1, <2>1, MainStillLast
  <2> QED BY <2>2, <2>3, <2>4, <2>5 DEF WatchdogInv
<1>3. CASE CallReturns(c) /\ ~calls[c].force
  <2>1. /\ IsRecord(calls', WatchdogThreads) /\ \A d \in WatchdogThreads : IsRecord(calls'[d], CallMembers)
        /\ calls'[c].op = "none" /\ calls'[c].at = ""
        /\ \A d \in WatchdogThreads \ {c} : calls'[d] = calls[d]
    BY <1>0, <1>3, ReturnKeeps
  <2>2. c # "main"
    BY <1>0, <1>1, <1>3 DEF CallersWait
  <2>3. WatchdogShape'
    BY <1>0, <1>1, <2>1 DEF WatchdogShape
  <2>4. CallersWait'
    BY <1>0, <1>1, <2>1, ReturnWaits
  <2>5. OneOwner'
    BY <1>0, <1>1, <2>1, OwnersRest DEF Joining
  <2>6. MainLast'
    BY <1>0, <1>1, <2>1, <2>2, MainStillLast
  <2> QED BY <2>3, <2>4, <2>5, <2>6 DEF WatchdogInv
<1> QED BY <1>2, <1>3 DEF StopWait, StopWaited

LEMMA StopJoinedKeeps ==
    ASSUME WatchdogInv, NEW c \in WatchdogThreads, StopJoined(c) PROVE WatchdogInv'
<1>0. WatchdogShape /\ CallersWait /\ OneOwner /\ MainLast
  BY DEF WatchdogInv
<1>1. Joining(c) /\ MayJoin(c) /\ CallReturns(c) /\ UNCHANGED <<workers, gate, poller, enders>>
  BY DEF StopJoined, Joining
<1>2. IsRecord(watchdog', WatchdogMembers)
  BY <1>0 DEF StopJoined, WatchdogShape, IsRecord, WatchdogMembers
<1>3. /\ IsRecord(calls', WatchdogThreads) /\ \A d \in WatchdogThreads : IsRecord(calls'[d], CallMembers)
      /\ calls'[c].op = "none" /\ calls'[c].at = ""
      /\ \A d \in WatchdogThreads \ {c} : calls'[d] = calls[d]
  BY <1>0, <1>1, ReturnKeeps
<1>4. workers.alive = {}
  BY <1>0, <1>1, NobodyLeft
<1>5. WatchdogShape'
  BY <1>0, <1>1, <1>2, <1>3 DEF WatchdogShape
<1>6. CallersWait'
  BY <1>0, <1>1, <1>3, ReturnWaits
<1>7. OneOwner'
  <2>1. \A d \in WatchdogThreads \ {c} : ~Joining(d)
    BY <1>0, <1>1 DEF OneOwner
  <2> QED BY <1>1, <1>3, <1>4, <2>1 DEF OneOwner, Joining
<1>8. MainLast'
  BY <1>0, <1>1, <1>3, <1>4, MainStillLast
<1> QED BY <1>5, <1>6, <1>7, <1>8 DEF WatchdogInv

LEMMA WorkerExitsKeeps ==
    ASSUME WatchdogInv, NEW w \in 1..MaxWorkers, WorkerExits(w) PROVE WatchdogInv'
<1>0. WatchdogShape /\ CallersWait /\ OneOwner /\ MainLast
  BY DEF WatchdogInv
<1>1. UNCHANGED <<watchdog, calls, gate, poller, enders>>
  BY DEF WorkerExits
<1>2. IsRecord(workers', {"alive", "asked"}) /\ workers'.alive \subseteq workers.alive
  BY DEF WorkerExits, IsRecord
<1>3. WatchdogShape' /\ CallersWait'
  BY <1>0, <1>1, <1>2 DEF WatchdogShape, CallersWait
<1>4. OneOwner'
  BY <1>0, <1>1, <1>2, OwnersRest DEF Joining
<1>5. MainLast'
  BY <1>0, <1>1, <1>2 DEF MainLast
<1> QED BY <1>3, <1>4, <1>5 DEF WatchdogInv

--------------------------------------------------------------------------------
(* The four threads around the watchdog.  A step of one of them that begins no call.      *)
LEMMA QuietKeeps ==
    ASSUME WatchdogInv, UNCHANGED <<workers, calls>>,
           IsRecord(watchdog', WatchdogMembers), watchdog'.thread = watchdog.thread,
           watchdog'.reaping = watchdog.reaping,
           IsRecord(gate', GateMembers), IsRecord(poller', {"at", "claimed"}), IsRecord(enders', EnderMembers),
           \/ gate'.at = gate.at
           \/ calls["gate"].op = "none" /\ (enders.main = "running" \/ gate'.at \in {"idle", "stopping"}),
           poller'.at = poller.at \/ calls["control"].op = "none",
           enders'.hotkey = enders.hotkey \/ calls["hotkey"].op = "none",
           \/ enders'.main = enders.main
           \/ enders.main = "stopping" /\ calls["main"].op = "none" /\ enders'.main = "done"
    PROVE  WatchdogInv'
<1>0. WatchdogShape /\ CallersWait /\ OneOwner /\ MainLast
  BY DEF WatchdogInv
<1>1. WatchdogShape'
  BY <1>0 DEF WatchdogShape
<1>2. CallersWait'
  BY <1>0 DEF CallersWait, WatchdogThreads
<1>3. OneOwner'
  BY <1>0, OwnersRest DEF Joining
<1>4. MainLast'
  BY <1>0 DEF MainLast
<1> QED BY <1>1, <1>2, <1>3, <1>4 DEF WatchdogInv

(* A step that begins a call, and waits for it.                                           *)
LEMMA BeginKeeps ==
    ASSUME WatchdogInv, UNCHANGED <<watchdog, workers>>,
           NEW c \in WatchdogThreads, NEW call, IsRecord(call, CallMembers), calls[c].op = "none",
           call.op \in {"start", "stop"}, call.at \in {"begin", "loop"},
           calls' = [calls EXCEPT ![c] = call],
           IsRecord(gate', GateMembers), IsRecord(poller', {"at", "claimed"}), IsRecord(enders', EnderMembers),
           c # "gate" => gate'.at = gate.at /\ call.op = "stop",
           c = "gate" => \/ call.op = "start" /\ gate'.at = "starting" /\ enders.main = "running"
                         \/ call.op = "stop" /\ gate'.at = "stopping",
           c # "control" => poller'.at = poller.at,
           c = "control" => poller'.at = "stopping",
           c # "hotkey" => enders'.hotkey = enders.hotkey,
           c = "hotkey" => enders'.hotkey = "stopping",
           c # "main" => enders'.main = enders.main,
           c = "main" => enders'.main = "stopping" /\ call.force = TRUE /\ gate.at = "idle"
    PROVE  WatchdogInv'
<1>0. WatchdogShape /\ CallersWait /\ OneOwner /\ MainLast
  BY DEF WatchdogInv
<1>1. /\ IsRecord(calls', WatchdogThreads) /\ \A d \in WatchdogThreads : IsRecord(calls'[d], CallMembers)
      /\ calls'[c] = call /\ \A d \in WatchdogThreads \ {c} : calls'[d] = calls[d]
  BY <1>0, CallChanges
<1>2. WatchdogShape'
  BY <1>0, <1>1 DEF WatchdogShape
<1>3. CallersWait'
  <2>1. \A d \in WatchdogThreads : calls'[d].op = "none" => calls'[d].at = ""
    BY ZenonT(60), <1>0, <1>1 DEF CallersWait
  <2>2. \A d \in WatchdogThreads : calls'[d].op = "start" => d = "gate" /\ gate'.at = "starting"
    <3>1. call.op = "start" => c = "gate" /\ gate'.at = "starting"
      OBVIOUS
    <3>2. \A d \in WatchdogThreads \ {c} : calls[d].op = "start" => d = "gate" /\ gate'.at = "starting"
      BY <1>0 DEF CallersWait
    <3> QED BY <1>1, <3>1, <3>2
  <2>3. calls'["gate"].op # "none" => gate'.at \in {"starting", "stopping"}
    BY <1>0, <1>1 DEF CallersWait, WatchdogThreads
  <2>4. calls'["control"].op # "none" => poller'.at = "stopping"
    BY <1>0, <1>1 DEF CallersWait, WatchdogThreads
  <2>5. calls'["hotkey"].op # "none" => enders'.hotkey = "stopping"
    BY <1>0, <1>1 DEF CallersWait, WatchdogThreads
  <2>6. calls'["main"].op # "none" => enders'.main = "stopping" /\ calls'["main"].force = TRUE
    BY ZenonT(60), <1>0, <1>1 DEF CallersWait, WatchdogThreads
  <2> QED BY <2>1, <2>2, <2>3, <2>4, <2>5, <2>6 DEF CallersWait
<1>4. OneOwner'
  <2>1. \A d \in WatchdogThreads : ~Joining(c) /\ ~Joining(c)' /\ (d # c => calls'[d] = calls[d])
    BY <1>0, <1>1 DEF Joining, CallersWait
  <2> QED BY <1>0, <2>1, OwnersRest DEF Joining
<1>5. MainLast'
  BY <1>0, <1>1 DEF MainLast, WatchdogThreads
<1> QED BY <1>2, <1>3, <1>4, <1>5 DEF WatchdogInv

(* What the steps do to the records of their threads.                                     *)
LEMMA SurroundingsKeep ==
    ASSUME WatchdogInv,
           \/ \E outcome \in ApplyOutcomes : LaunchApplies(outcome)
           \/ LaunchExpires \/ StreamEnds \/ GateReturns \/ HotkeyPressed \/ HotkeyReturns \/ MainReturns
           \/ Poll \/ Claim \/ AdoptGeneration \/ LeaveExecution \/ ControlReturns
           \/ \E outcome \in DeferredOutcomes : Execute(outcome)
    PROVE  WatchdogInv'
<1>0. /\ IsRecord(watchdog, WatchdogMembers) /\ IsRecord(gate, GateMembers)
      /\ IsRecord(poller, {"at", "claimed"}) /\ IsRecord(enders, EnderMembers)
      /\ CallersWait /\ MainLast
  BY DEF WatchdogInv, WatchdogShape
<1>1. ASSUME NEW outcome \in ApplyOutcomes, LaunchApplies(outcome) PROVE WatchdogInv'
  <2>1. /\ UNCHANGED <<watchdog, workers, calls, poller, enders>>
        /\ gate.at = "idle" /\ enders.main = "running"
        /\ \E launch, applied, forced :
              gate' = [gate EXCEPT !.at = "launched", !.launch = launch, !.app = TRUE,
                                   !.published = applied, !.forced = forced]
    BY <1>1 DEF LaunchApplies
  <2>2. IsRecord(gate', GateMembers) /\ gate'.at = "launched"
    BY <1>0, <2>1 DEF IsRecord, GateMembers
  <2>3. calls["gate"].op = "none"
    BY <1>0, <2>1 DEF CallersWait
  <2> QED BY <1>0, <2>1, <2>2, <2>3, QuietKeeps
<1>2. CASE LaunchExpires
  <2>1. /\ UNCHANGED <<watchdog, workers, calls, poller, enders>> /\ gate.at = "launched"
        /\ IsRecord(gate', GateMembers)
    BY <1>0, <1>2 DEF LaunchExpires, IsRecord, GateMembers
  <2>2. calls["gate"].op = "none" /\ enders.main = "running"
    BY <1>0, <2>1 DEF CallersWait, MainLast
  <2> QED BY <1>0, <2>1, <2>2, QuietKeeps
<1>3. CASE StreamEnds
  <2>1. /\ UNCHANGED <<watchdog, workers, calls, poller, enders>> /\ gate.at = "streaming"
        /\ IsRecord(gate', GateMembers)
    BY <1>0, <1>3 DEF StreamEnds, IsRecord, GateMembers
  <2>2. calls["gate"].op = "none" /\ enders.main = "running"
    BY <1>0, <2>1 DEF CallersWait, MainLast
  <2> QED BY <1>0, <2>1, <2>2, QuietKeeps
<1>4. CASE GateReturns
  <2>1. /\ UNCHANGED <<watchdog, workers, calls, poller, enders>> /\ calls["gate"].op = "none"
        /\ IsRecord(gate', GateMembers)
        /\ (gate.at = "starting" \/ gate'.at = "idle")
    BY <1>0, <1>4 DEF GateReturns, IsRecord, GateMembers
  <2>2. enders.main = "running" \/ gate'.at = "idle"
    BY <1>0, <2>1 DEF MainLast
  <2> QED BY <1>0, <2>1, <2>2, QuietKeeps
<1>5. CASE HotkeyPressed
  <2>1. /\ UNCHANGED <<watchdog, workers, calls, poller>> /\ enders.hotkey = "idle"
        /\ IsRecord(gate', GateMembers) /\ gate'.at = gate.at
        /\ IsRecord(enders', EnderMembers) /\ enders'.main = enders.main
    BY <1>0, <1>5 DEF HotkeyPressed, IsRecord, GateMembers, EnderMembers
  <2>2. calls["hotkey"].op = "none"
    BY <1>0, <2>1 DEF CallersWait
  <2> QED BY <1>0, <2>1, <2>2, QuietKeeps
<1>6. CASE HotkeyReturns
  <2>1. /\ UNCHANGED <<watchdog, workers, calls, gate, poller>> /\ calls["hotkey"].op = "none"
        /\ IsRecord(enders', EnderMembers) /\ enders'.main = enders.main
    BY <1>0, <1>6 DEF HotkeyReturns, IsRecord, EnderMembers
  <2> QED BY <1>0, <2>1, QuietKeeps
<1>7. CASE MainReturns
  <2>1. /\ UNCHANGED <<watchdog, workers, calls, gate, poller>>
        /\ enders.main = "stopping" /\ calls["main"].op = "none"
        /\ IsRecord(enders', EnderMembers) /\ enders'.main = "done" /\ enders'.hotkey = enders.hotkey
    BY <1>0, <1>7 DEF MainReturns, IsRecord, EnderMembers
  <2> QED BY <1>0, <2>1, QuietKeeps
<1>8. CASE Poll \/ Claim \/ LeaveExecution \/ ControlReturns
  <2>1. /\ UNCHANGED <<watchdog, workers, calls, gate, enders>>
        /\ poller.at \in {"idle", "poll", "leaving"} \/ calls["control"].op = "none"
        /\ IsRecord(poller', {"at", "claimed"})
    BY <1>0, <1>8 DEF Poll, Claim, LeaveExecution, ControlReturns, IsRecord
  <2>2. calls["control"].op = "none"
    BY <1>0, <2>1 DEF CallersWait
  <2> QED BY <1>0, <2>1, <2>2, QuietKeeps
<1>9. CASE AdoptGeneration
  <2>1. /\ UNCHANGED <<workers, calls, gate, enders>> /\ poller.at = "adopting"
        /\ IsRecord(poller', {"at", "claimed"}) /\ IsRecord(watchdog', WatchdogMembers)
        /\ watchdog'.thread = watchdog.thread /\ watchdog'.reaping = watchdog.reaping
    BY <1>0, <1>9 DEF AdoptGeneration, IsRecord, WatchdogMembers
  <2>2. calls["control"].op = "none"
    BY <1>0, <2>1 DEF CallersWait
  <2> QED BY <1>0, <2>1, <2>2, QuietKeeps
<1>10. ASSUME NEW outcome \in DeferredOutcomes, Execute(outcome) PROVE WatchdogInv'
  <2>1. /\ UNCHANGED <<watchdog, workers, calls, enders>> /\ poller.at = "applying"
        /\ IsRecord(poller', {"at", "claimed"})
        /\ gate' = gate \/ \E published : gate' = [gate EXCEPT !.published = published]
    BY <1>0, <1>10 DEF Execute, IsRecord
  <2>2. IsRecord(gate', GateMembers) /\ gate'.at = gate.at
    BY <1>0, <2>1 DEF IsRecord, GateMembers
  <2>3. calls["control"].op = "none"
    BY <1>0, <2>1 DEF CallersWait
  <2> QED BY <1>0, <2>1, <2>2, <2>3, QuietKeeps
<1> QED BY <1>1, <1>2, <1>3, <1>4, <1>5, <1>6, <1>7, <1>8, <1>9, <1>10

LEMMA BeginningsKeep ==
    ASSUME WatchdogInv,
           \/ StreamStarts \/ DeferredStart \/ IdleStop \/ MainStops
           \/ \E restores \in BOOLEAN, outcome \in RevertOutcomes : Finalize(restores, outcome)
           \/ \E outcome \in RevertOutcomes : WatchedAppExits(outcome) \/ HotkeyReverts(outcome)
    PROVE  WatchdogInv'
<1>0. /\ IsRecord(watchdog, WatchdogMembers) /\ IsRecord(gate, GateMembers)
      /\ IsRecord(poller, {"at", "claimed"}) /\ IsRecord(enders, EnderMembers)
      /\ CallersWait /\ MainLast
  BY DEF WatchdogInv, WatchdogShape
<1>1. CASE StreamStarts
  <2>1. /\ UNCHANGED <<watchdog, workers, poller, enders>> /\ gate.at = "launched"
        /\ IsRecord(gate', GateMembers)
        /\ \/ gate'.at = "starting" /\ calls' = [calls EXCEPT !["gate"] = StartCall]
           \/ gate'.at = "streaming" /\ UNCHANGED calls
    BY <1>0, <1>1 DEF StreamStarts, StartPlatform, IsRecord, GateMembers
  <2>2. calls["gate"].op = "none" /\ enders.main = "running"
    BY <1>0, <2>1 DEF CallersWait, MainLast
  <2>3. CASE UNCHANGED calls
    BY <1>0, <2>1, <2>2, <2>3, QuietKeeps
  <2>4. CASE gate'.at = "starting" /\ calls' = [calls EXCEPT !["gate"] = StartCall]
    BY <1>0, <2>1, <2>2, <2>4, BeginKeeps, CallShapes DEF WatchdogThreads
  <2> QED BY <2>1, <2>3, <2>4
<1>2. CASE DeferredStart
  <2>1. /\ UNCHANGED <<watchdog, workers, poller, enders>> /\ gate.at = "streaming"
        /\ IsRecord(gate', GateMembers)
        /\ gate'.at = "starting" /\ calls' = [calls EXCEPT !["gate"] = StartCall]
    BY <1>0, <1>2 DEF DeferredStart, StartPlatform, IsRecord, GateMembers
  <2>2. calls["gate"].op = "none" /\ enders.main = "running"
    BY <1>0, <2>1 DEF CallersWait, MainLast
  <2> QED BY <1>0, <2>1, <2>2, BeginKeeps, CallShapes DEF WatchdogThreads
<1>3. CASE IdleStop
  <2>1. /\ UNCHANGED <<watchdog, workers, gate, enders>> /\ poller.at = "idle_check"
        /\ IsRecord(poller', {"at", "claimed"})
        /\ \/ poller'.at = "stopping" /\ calls' = [calls EXCEPT !["control"] = StopCall(FALSE)]
           \/ UNCHANGED calls
    BY <1>0, <1>3 DEF IdleStop, IsRecord
  <2>2. calls["control"].op = "none"
    BY <1>0, <2>1 DEF CallersWait
  <2>3. CASE UNCHANGED calls
    BY <1>0, <2>1, <2>2, <2>3, QuietKeeps
  <2>4. CASE poller'.at = "stopping" /\ calls' = [calls EXCEPT !["control"] = StopCall(FALSE)]
    BY <1>0, <2>1, <2>2, <2>4, BeginKeeps, CallShapes DEF WatchdogThreads
  <2> QED BY <2>1, <2>3, <2>4
<1>4. CASE MainStops
  <2>1. /\ UNCHANGED <<watchdog, workers, gate, poller>> /\ gate.at = "idle" /\ enders.main = "running"
        /\ IsRecord(enders', EnderMembers) /\ enders'.main = "stopping" /\ enders'.hotkey = enders.hotkey
        /\ calls' = [calls EXCEPT !["main"] = StopCall(TRUE)]
    BY <1>0, <1>4 DEF MainStops, IsRecord, EnderMembers
  <2>2. calls["main"].op = "none"
    BY <1>0, <2>1 DEF CallersWait
  <2> QED BY <1>0, <2>1, <2>2, BeginKeeps, CallShapes DEF WatchdogThreads
<1>5. ASSUME NEW restores \in BOOLEAN, NEW outcome \in RevertOutcomes, Finalize(restores, outcome)
      PROVE  WatchdogInv'
  <2>1. /\ UNCHANGED <<watchdog, workers, poller, enders>> /\ gate.at = "ending"
        /\ IsRecord(gate', GateMembers)
        /\ \/ gate'.at = "stopping" /\ calls' = [calls EXCEPT !["gate"] = StopCall(FALSE)]
           \/ gate'.at = "idle" /\ UNCHANGED calls
    <3>1. \E stops, owed \in BOOLEAN :
             /\ gate' = [gate EXCEPT !.at = IF stops THEN "stopping" ELSE "idle", !.started = FALSE,
                                     !.start_deferred = FALSE, !.revert_owed = owed,
                                     !.published = FALSE, !.kept = ~stops]
             /\ calls' = IF stops THEN [calls EXCEPT !["gate"] = StopCall(FALSE)] ELSE calls
      BY <1>5 DEF Finalize
    <3> QED BY <1>0, <1>5, <3>1 DEF Finalize, IsRecord, GateMembers
  <2>2. calls["gate"].op = "none" /\ enders.main = "running"
    BY <1>0, <2>1 DEF CallersWait, MainLast
  <2>3. CASE gate'.at = "idle" /\ UNCHANGED calls
    BY <1>0, <2>1, <2>2, <2>3, QuietKeeps
  <2>4. CASE gate'.at = "stopping" /\ calls' = [calls EXCEPT !["gate"] = StopCall(FALSE)]
    BY <1>0, <2>1, <2>2, <2>4, BeginKeeps, CallShapes DEF WatchdogThreads
  <2> QED BY <2>1, <2>3, <2>4
<1>6. ASSUME NEW outcome \in RevertOutcomes, WatchedAppExits(outcome) PROVE WatchdogInv'
  <2>1. /\ UNCHANGED <<watchdog, workers, poller, enders>> /\ IsRecord(gate', GateMembers)
        /\ gate.at \in {"idle", "launched", "streaming"}
        /\ \/ gate'.at \in {gate.at, "idle"} /\ UNCHANGED calls
           \/ gate'.at = "stopping" /\ calls' = [calls EXCEPT !["gate"] = StopCall(FALSE)]
    <3>1. CASE gate.at # "idle"
      BY <1>0, <1>6, <3>1 DEF WatchedAppExits, IsRecord, GateMembers
    <3>2. CASE gate.at = "idle"
      BY <1>0, <1>6, <3>2 DEF WatchedAppExits, IsRecord, GateMembers
    <3> QED BY <3>1, <3>2
  <2>2. calls["gate"].op = "none"
    BY <1>0, <2>1 DEF CallersWait
  <2>3. CASE gate'.at \in {gate.at, "idle"} /\ UNCHANGED calls
    BY <1>0, <2>1, <2>2, <2>3, QuietKeeps
  <2>4. CASE gate'.at = "stopping" /\ calls' = [calls EXCEPT !["gate"] = StopCall(FALSE)]
    BY <1>0, <2>1, <2>2, <2>4, BeginKeeps, CallShapes DEF WatchdogThreads
  <2> QED BY <2>1, <2>3, <2>4
<1>7. ASSUME NEW outcome \in RevertOutcomes, HotkeyReverts(outcome) PROVE WatchdogInv'
  <2>1. /\ UNCHANGED <<watchdog, workers, gate, poller>> /\ enders.hotkey = "reverting"
        /\ IsRecord(enders', EnderMembers) /\ enders'.hotkey = "stopping" /\ enders'.main = enders.main
        /\ calls' = [calls EXCEPT !["hotkey"] = StopCall(TRUE)]
    BY <1>0, <1>7 DEF HotkeyReverts, IsRecord, EnderMembers
  <2>2. calls["hotkey"].op = "none"
    BY <1>0, <2>1 DEF CallersWait
  <2> QED BY <1>0, <2>1, <2>2, BeginKeeps, CallShapes DEF WatchdogThreads
<1> QED BY <1>1, <1>2, <1>3, <1>4, <1>5, <1>6, <1>7

--------------------------------------------------------------------------------
LEMMA WatchdogInvHolds == WatchdogSpec => []WatchdogInv
<1>1. WatchdogInit => WatchdogInv
  BY InitEstablishes
<1>2. WatchdogInv /\ [WatchdogNext]_watchdogVars => WatchdogInv'
  <2> SUFFICES ASSUME WatchdogInv, [WatchdogNext]_watchdogVars PROVE WatchdogInv'
    OBVIOUS
  <2>1. CASE UNCHANGED watchdogVars
    BY <2>1 DEF watchdogVars, WatchdogInv, WatchdogShape, CallersWait, OneOwner, Joining, MainLast
  <2>2. CASE \E c \in WatchdogThreads : StartBegin(c) \/ StartLoop(c) \/ StartJoined(c) \/ JoinFails(c)
                                        \/ StopLoop(c) \/ StopWait(c) \/ StopJoined(c)
    BY <2>2, StartBeginKeeps, StartLoopKeeps, StartJoinedKeeps, JoinFailsKeeps, StopLoopKeeps,
       StopWaitKeeps, StopJoinedKeeps
  <2> QED
    BY <2>1, <2>2, WorkerExitsKeeps, SurroundingsKeep, BeginningsKeep DEF WatchdogNext
<1> QED BY <1>1, <1>2, PTL DEF WatchdogSpec

(* Every worker that has not returned has an owner that will join it, and there is never a  *)
(* second one (start_watchdog, stop_watchdog and the hand-over of the jthread between them). *)
THEOREM WorkersAreOwned == WatchdogSpec => []WorkerIsOwned
<1>1. ASSUME WatchdogInv PROVE WorkerIsOwned
  <2>0. OneOwner
    BY <1>1 DEF WatchdogInv
  <2>1. \A w \in workers.alive :
           watchdog.thread = w \/ \E c \in WatchdogThreads : calls[c].at = "join" /\ calls[c].worker = w
    BY <2>0 DEF OneOwner, Joining
  <2>2. \A v, w \in workers.alive : v = w
    BY <2>0 DEF OneOwner, Joining
  <2>3. Cardinality(workers.alive) <= 1
    <3>1. CASE workers.alive = {}
      <4>1. Cardinality({}) = 0
        BY FS_EmptySet
      <4> QED BY <3>1, <4>1
    <3>2. CASE workers.alive # {}
      <4>1. PICK w : w \in workers.alive
        BY <3>2
      <4>2. workers.alive = {w}
        BY <4>1, <2>2
      <4>3. Cardinality({w}) = 1
        BY FS_Singleton
      <4> QED BY <4>2, <4>3
    <3> QED BY <3>1, <3>2
  <2> QED BY <2>1, <2>3 DEF WorkerIsOwned
<1> QED BY <1>1, WatchdogInvHolds, PTL

(* When main's stop has returned no watchdog thread is left for the CRT's teardown, also    *)
(* when the hotkey's stop held the thread and its join threw (stop_watchdog(true)).         *)
THEOREM ShutdownCompletes == WatchdogSpec => []ShutdownIsComplete
<1>1. WatchdogInv => ShutdownIsComplete
  BY DEF WatchdogInv, MainLast, ShutdownIsComplete
<1> QED BY <1>1, WatchdogInvHolds, PTL

--------------------------------------------------------------------------------
(* What streams is watched, and what is over is quiet: the invariant of the other three     *)
(* properties.  First the records and the numbers: a publication takes the newest          *)
(* generation, so that every older watchdog and every older cleanup differs from it.       *)
ApplyMembers == {"launch", "attempts", "delayed"}
StreamShape ==
    /\ IsRecord(descriptor, {"launch", "generation", "last"})
    /\ IsRecord(deferred, {"pending", "executing"}) /\ IsRecord(faults, {"count", "unstarted"})
    /\ IsRecord(deferred.pending, ApplyMembers) /\ IsRecord(poller.claimed, ApplyMembers)
    /\ faults.count \in Nat /\ gate.launch \in Nat
    /\ deferred.pending.launch \in Nat /\ deferred.pending.launch <= gate.launch
    /\ poller.claimed.launch \in Nat /\ poller.claimed.launch <= gate.launch
Numbers ==
    /\ descriptor.launch \in Nat /\ descriptor.launch <= gate.launch
    /\ descriptor.last \in Nat /\ descriptor.generation \in 0..descriptor.last
    /\ descriptor.launch # 0 => descriptor.generation # 0
    /\ watchdog.generation \in 0..descriptor.last
    /\ \A c \in WatchdogThreads : calls[c].generation \in 0..descriptor.last

(* The gate's record, and the deferred APPLY between the queue and the control thread.      *)
Executing == poller.at \in {"applying", "adopting", "leaving"}
GateSound ==
    /\ gate.live <=> gate.at \in {"starting", "streaming"}
    /\ gate.at \in {"launched", "starting", "streaming"} => gate.launch # 0
    /\ enders.hotkey # "idle" => gate.forced
    /\ gate.started => gate.at \in {"streaming", "ending"}
    /\ gate.at \in {"launched", "starting", "streaming", "ending"} => gate.app \/ gate.revert_owed
    /\ gate.at = "stopping" => ~gate.app
ClaimsSound ==
    /\ deferred.executing <=> Executing
    /\ Executing \/ gate.at \in {"idle", "stopping"} => deferred.pending = NoApply
    /\ Executing => gate.at \notin {"idle", "stopping"}
    /\ Executing /\ gate.at = "launched" => poller.claimed.launch # gate.launch
    /\ gate.published => /\ deferred.pending # NoApply => deferred.pending.launch = gate.launch
                         /\ poller.at = "applying" => poller.claimed.launch = gate.launch

(* The calls of start_watchdog and stop_watchdog, and the watchdog's state.                 *)
CallsSound ==
    /\ \A c \in WatchdogThreads : calls[c].op \in {"none", "start", "stop"}
    /\ calls["gate"].op = "stop" => gate.at = "stopping"
    /\ \A c \in {"gate", "control"} : calls[c].force = FALSE
    /\ \A c \in WatchdogThreads : calls[c].at = "wait" => calls[c].op = "stop"
    /\ \A c \in WatchdogThreads : calls[c].op = "stop" => calls[c].at \in {"loop", "wait", "join"}
RunningSound ==
    /\ workers.asked \subseteq workers.alive
    /\ watchdog.state = "running" => /\ ~watchdog.reaping /\ ~watchdog.torndown
                                     /\ watchdog.thread \in workers.alive \ workers.asked
    /\ watchdog.reaping => watchdog.thread = 0
    /\ \A c \in WatchdogThreads :
         Joining(c) /\ ~calls[c].force => calls[c].generation = watchdog.generation
FaultsSound ==
    faults.count = 0 => ~faults.unstarted /\ (watchdog.thread # 0 => watchdog.state = "running")

(* Nobody but the gate's holder and the control thread stops the watchdog of a session that *)
(* no hotkey has disturbed, and while it streams both of them find their stop out of date.  *)
StartSound ==
    gate.at = "starting" /\ ~gate.forced =>
      /\ calls["gate"].op = "start" /\ calls["gate"].at # "begin" => calls["gate"].epoch = watchdog.epoch
      /\ calls["gate"].op = "none" /\ ~faults.unstarted => watchdog.state = "running"

(* The generation of a session that is shown is not that of a cleanup to come ...           *)
InSession == gate.at \in {"launched", "starting", "streaming"} /\ ~gate.forced
ShownIsNew ==
    InSession /\ descriptor.launch = gate.launch =>
      /\ (watchdog.state # "running" \/ gate.at = "launched") =>
           watchdog.generation # descriptor.generation
      /\ \A c \in WatchdogThreads : Joining(c) => calls[c].generation # descriptor.generation

(* ... until it ends, when it is that of the watchdog, so that this one's cleanup counts.   *)
Ends == gate.started \/ gate.at = "stopping"
Adopting == poller.at = "adopting" /\ poller.claimed.launch = descriptor.launch
Returned ==
    \/ gate.at = "stopping" /\ calls["gate"].op = "none"
    \/ gate.at = "idle" /\ ~gate.kept
OwnGeneration ==
    /\ Ends \/ (gate.at = "starting" /\ calls["gate"].op = "none")
    /\ watchdog.thread # 0 /\ descriptor.launch # 0
    => watchdog.generation = descriptor.generation \/ Adopting
CleanupComes ==
    Ends /\ ~gate.forced /\ descriptor.launch # 0 =>
      \/ watchdog.state = "running"
      \/ \E c \in {"gate", "control"} :
           Joining(c) /\ calls[c].generation = descriptor.generation /\ ~watchdog.torndown
ExecutesWatched == gate.started /\ ~gate.forced /\ Executing => watchdog.state = "running"
NoThreadLeft ==
    Returned \/ (gate.at = "stopping" /\ calls["gate"].at \in {"wait", "join"}) => watchdog.thread = 0
NothingShown == Returned /\ ~gate.forced => descriptor.launch = 0
MainJoins ==
    Joining("main") =>
      \/ gate.at = "idle" /\ gate.kept
      \/ gate.at = "stopping" /\ calls["gate"].op = "stop" /\ calls["gate"].at \in {"loop", "wait"}
MainFindsNothing == enders.main # "running" /\ gate.at = "stopping" => descriptor.launch = 0
EndSound ==
    faults.count = 0 => /\ OwnGeneration /\ CleanupComes /\ ExecutesWatched /\ NoThreadLeft
                        /\ NothingShown /\ MainJoins /\ MainFindsNothing

StreamInv ==
    /\ WatchdogInv /\ StreamShape /\ Numbers /\ GateSound /\ ClaimsSound /\ CallsSound
    /\ RunningSound /\ FaultsSound /\ StartSound /\ StreamIsWatched
    /\ ShownIsNew /\ DescriptorKept /\ EndSound

--------------------------------------------------------------------------------
LEMMA InitStreams == ASSUME WatchdogInit PROVE StreamInv
<1>1. WatchdogInv
  BY InitEstablishes
<1>2. StreamShape
  <2>1. IsRecord(NoApply, ApplyMembers) /\ NoApply.launch = 0
    BY DEF IsRecord, ApplyMembers, NoApply
  <2>2. /\ deferred.pending = NoApply /\ poller.claimed = NoApply /\ gate.launch = 0 /\ faults.count = 0
        /\ IsRecord(descriptor, {"launch", "generation", "last"})
        /\ IsRecord(deferred, {"pending", "executing"}) /\ IsRecord(faults, {"count", "unstarted"})
    BY DEF WatchdogInit, IsRecord
  <2> QED BY <2>1, <2>2 DEF StreamShape
<1>7. Numbers
  <2>1. /\ gate.launch = 0 /\ watchdog.generation = 0
        /\ descriptor.launch = 0 /\ descriptor.generation = 0 /\ descriptor.last = 0
        /\ \A c \in WatchdogThreads : calls[c].generation = 0
    BY DEF WatchdogInit, NoWatchdogCall
  <2> QED BY <2>1 DEF Numbers
<1>3. GateSound /\ ClaimsSound
  BY DEF WatchdogInit, GateSound, ClaimsSound, Executing
<1>4. CallsSound /\ RunningSound /\ FaultsSound
  BY DEF WatchdogInit, CallsSound, RunningSound, FaultsSound, Joining, NoWatchdogCall, WatchdogThreads
<1>5. StartSound /\ StreamIsWatched /\ ShownIsNew /\ DescriptorKept
  BY DEF WatchdogInit, StartSound, StreamIsWatched, ShownIsNew, DescriptorKept, InSession
<1>6. EndSound
  BY DEF WatchdogInit, EndSound, OwnGeneration, CleanupComes, ExecutesWatched, NoThreadLeft,
         NothingShown, MainJoins, MainFindsNothing, Ends, Returned, Joining, NoWatchdogCall, WatchdogThreads
<1> QED BY <1>1, <1>2, <1>3, <1>4, <1>5, <1>6, <1>7 DEF StreamInv

LEMMA LaunchExpiresStreams ==
    ASSUME StreamInv, LaunchExpires PROVE StreamInv'
<1>1. WatchdogInv'
  BY SurroundingsKeep DEF StreamInv
<1>2. /\ gate.at = "launched" /\ gate'.at = "ending" /\ gate'.launch = gate.launch
      /\ gate'.live = gate.live /\ gate'.app = gate.app /\ gate'.started = gate.started
      /\ gate'.start_deferred = gate.start_deferred /\ gate'.revert_owed = gate.revert_owed
      /\ gate'.published = gate.published /\ gate'.forced = gate.forced /\ gate'.kept = gate.kept
      /\ UNCHANGED <<watchdog, workers, calls, descriptor, deferred, poller, enders, faults>>
  BY DEF StreamInv, WatchdogInv, WatchdogShape, LaunchExpires, IsRecord, GateMembers
<1>3. StreamShape' /\ Numbers'
  BY <1>2 DEF StreamInv, StreamShape, Numbers
<1>4. GateSound' /\ ClaimsSound'
  BY <1>2 DEF StreamInv, GateSound, ClaimsSound, Executing
<1>5. CallsSound' /\ RunningSound' /\ FaultsSound'
  BY <1>2 DEF StreamInv, CallsSound, RunningSound, FaultsSound, Joining, WatchdogInv, CallersWait
<1>6. StartSound' /\ StreamIsWatched' /\ ShownIsNew' /\ DescriptorKept'
  BY <1>2 DEF StreamInv, StartSound, StreamIsWatched, ShownIsNew, DescriptorKept, InSession, Joining
<1>7. EndSound'
  BY <1>2 DEF StreamInv, EndSound, OwnGeneration, CleanupComes, ExecutesWatched, NoThreadLeft,
         NothingShown, MainJoins, MainFindsNothing, Ends, Returned, Joining, Adopting, Executing
<1> QED BY <1>1, <1>3, <1>4, <1>5, <1>6, <1>7 DEF StreamInv

LEMMA StreamEndsStreams ==
    ASSUME StreamInv, StreamEnds PROVE StreamInv'
<1>1. WatchdogInv'
  BY SurroundingsKeep DEF StreamInv
<1>2. /\ gate.at = "streaming" /\ gate'.at = "ending" /\ gate'.launch = gate.launch
      /\ gate'.live = FALSE /\ gate'.app = gate.app /\ gate'.started = gate.started
      /\ gate'.start_deferred = gate.start_deferred /\ gate'.revert_owed = gate.revert_owed
      /\ gate'.published = gate.published /\ gate'.forced = gate.forced /\ gate'.kept = gate.kept
      /\ UNCHANGED <<watchdog, workers, calls, descriptor, deferred, poller, enders, faults>>
  BY DEF StreamInv, WatchdogInv, WatchdogShape, StreamEnds, IsRecord, GateMembers
<1>3. StreamShape' /\ Numbers'
  BY <1>2 DEF StreamInv, StreamShape, Numbers
<1>4. GateSound' /\ ClaimsSound'
  BY <1>2 DEF StreamInv, GateSound, ClaimsSound, Executing
<1>5. CallsSound' /\ RunningSound' /\ FaultsSound'
  BY <1>2 DEF StreamInv, CallsSound, RunningSound, FaultsSound, Joining, WatchdogInv, CallersWait
<1>6. StartSound' /\ StreamIsWatched' /\ ShownIsNew' /\ DescriptorKept'
  BY <1>2 DEF StreamInv, StartSound, StreamIsWatched, ShownIsNew, DescriptorKept, InSession, Joining
<1>7. EndSound'
  BY <1>2 DEF StreamInv, EndSound, OwnGeneration, CleanupComes, ExecutesWatched, NoThreadLeft,
         NothingShown, MainJoins, MainFindsNothing, Ends, Returned, Joining, Adopting, Executing
<1> QED BY <1>1, <1>3, <1>4, <1>5, <1>6, <1>7 DEF StreamInv

LEMMA HotkeyPressedStreams ==
    ASSUME StreamInv, HotkeyPressed PROVE StreamInv'
<1>1. WatchdogInv'
  BY SurroundingsKeep DEF StreamInv
<1>2. /\ gate'.at = gate.at /\ gate'.launch = gate.launch /\ gate'.live = gate.live
      /\ gate'.app = gate.app /\ gate'.started = gate.started
      /\ gate'.start_deferred = gate.start_deferred /\ gate'.revert_owed = gate.revert_owed
      /\ gate'.published = gate.published /\ gate'.forced = TRUE /\ gate'.kept = gate.kept
      /\ enders'.main = enders.main
      /\ UNCHANGED <<watchdog, workers, calls, descriptor, deferred, poller, faults>>
  BY DEF StreamInv, WatchdogInv, WatchdogShape, HotkeyPressed, IsRecord, GateMembers, EnderMembers
<1>3. StreamShape' /\ Numbers'
  BY <1>2 DEF StreamInv, StreamShape, Numbers
<1>4. GateSound' /\ ClaimsSound'
  BY <1>2 DEF StreamInv, GateSound, ClaimsSound, Executing
<1>5. CallsSound' /\ RunningSound' /\ FaultsSound'
  BY <1>2 DEF StreamInv, CallsSound, RunningSound, FaultsSound, Joining, WatchdogInv, CallersWait
<1>6. StartSound' /\ StreamIsWatched' /\ ShownIsNew' /\ DescriptorKept'
  BY <1>2 DEF StreamInv, StartSound, StreamIsWatched, ShownIsNew, DescriptorKept, InSession, Joining
<1>7. EndSound'
  BY <1>2 DEF StreamInv, EndSound, OwnGeneration, CleanupComes, ExecutesWatched, NoThreadLeft,
         NothingShown, MainJoins, MainFindsNothing, Ends, Returned, Joining, Adopting, Executing
<1> QED BY <1>1, <1>3, <1>4, <1>5, <1>6, <1>7 DEF StreamInv

LEMMA HotkeyReturnsStreams ==
    ASSUME StreamInv, HotkeyReturns PROVE StreamInv'
<1>1. WatchdogInv'
  BY SurroundingsKeep DEF StreamInv
<1>2. /\ enders'.hotkey = "idle" /\ enders'.main = enders.main
      /\ UNCHANGED <<watchdog, workers, calls, descriptor, deferred, gate, poller, faults>>
  BY DEF StreamInv, WatchdogInv, WatchdogShape, HotkeyReturns, IsRecord, EnderMembers
<1>3. StreamShape' /\ Numbers'
  BY <1>2 DEF StreamInv, StreamShape, Numbers
<1>4. GateSound' /\ ClaimsSound'
  BY <1>2 DEF StreamInv, GateSound, ClaimsSound, Executing
<1>5. CallsSound' /\ RunningSound' /\ FaultsSound'
  BY <1>2 DEF StreamInv, CallsSound, RunningSound, FaultsSound, Joining, WatchdogInv, CallersWait
<1>6. StartSound' /\ StreamIsWatched' /\ ShownIsNew' /\ DescriptorKept'
  BY <1>2 DEF StreamInv, StartSound, StreamIsWatched, ShownIsNew, DescriptorKept, InSession, Joining
<1>7. EndSound'
  BY <1>2 DEF StreamInv, EndSound, OwnGeneration, CleanupComes, ExecutesWatched, NoThreadLeft,
         NothingShown, MainJoins, MainFindsNothing, Ends, Returned, Joining, Adopting, Executing
<1> QED BY <1>1, <1>3, <1>4, <1>5, <1>6, <1>7 DEF StreamInv

LEMMA MainReturnsStreams ==
    ASSUME StreamInv, MainReturns PROVE StreamInv'
<1>1. WatchdogInv'
  BY SurroundingsKeep DEF StreamInv
<1>2. /\ enders.main = "stopping" /\ enders'.hotkey = enders.hotkey /\ enders'.main = "done"
      /\ UNCHANGED <<watchdog, workers, calls, descriptor, deferred, gate, poller, faults>>
  BY DEF StreamInv, WatchdogInv, WatchdogShape, MainReturns, IsRecord, EnderMembers
<1>3. StreamShape' /\ Numbers'
  BY <1>2 DEF StreamInv, StreamShape, Numbers
<1>4. GateSound' /\ ClaimsSound'
  BY <1>2 DEF StreamInv, GateSound, ClaimsSound, Executing
<1>5. CallsSound' /\ RunningSound' /\ FaultsSound'
  BY <1>2 DEF StreamInv, CallsSound, RunningSound, FaultsSound, Joining, WatchdogInv, CallersWait
<1>6. StartSound' /\ StreamIsWatched' /\ ShownIsNew' /\ DescriptorKept'
  BY <1>2 DEF StreamInv, StartSound, StreamIsWatched, ShownIsNew, DescriptorKept, InSession, Joining
<1>7. EndSound'
  BY <1>2 DEF StreamInv, EndSound, OwnGeneration, CleanupComes, ExecutesWatched, NoThreadLeft,
         NothingShown, MainJoins, MainFindsNothing, Ends, Returned, Joining, Adopting, Executing
<1> QED BY <1>1, <1>3, <1>4, <1>5, <1>6, <1>7 DEF StreamInv

LEMMA GateReturnsStreams ==
    ASSUME StreamInv, GateReturns PROVE StreamInv'
<1>1. WatchdogInv'
  BY SurroundingsKeep DEF StreamInv
<1>2. /\ calls["gate"].op = "none" /\ gate'.launch = gate.launch /\ gate'.live = gate.live
      /\ gate'.app = gate.app /\ gate'.start_deferred = gate.start_deferred
      /\ gate'.revert_owed = gate.revert_owed /\ gate'.published = gate.published
      /\ gate'.forced = gate.forced /\ gate'.kept = gate.kept
      /\ \/ gate.at = "starting" /\ gate'.at = "streaming" /\ gate'.started = TRUE
         \/ gate.at = "stopping" /\ gate'.at = "idle" /\ gate'.started = gate.started
      /\ UNCHANGED <<watchdog, workers, calls, descriptor, deferred, poller, enders, faults>>
  BY DEF StreamInv, WatchdogInv, WatchdogShape, GateReturns, IsRecord, GateMembers
<1>3. StreamShape' /\ Numbers'
  BY <1>2 DEF StreamInv, StreamShape, Numbers
<1>4. GateSound' /\ ClaimsSound'
  BY <1>2 DEF StreamInv, GateSound, ClaimsSound, Executing
<1>5. CallsSound' /\ RunningSound' /\ FaultsSound'
  BY <1>2 DEF StreamInv, CallsSound, RunningSound, FaultsSound, Joining, WatchdogInv, CallersWait
<1>6. StartSound' /\ StreamIsWatched' /\ ShownIsNew' /\ DescriptorKept'
  BY <1>2 DEF StreamInv, StartSound, RunningSound, StreamIsWatched, ShownIsNew, DescriptorKept, InSession, Joining
<1>7. EndSound'
  BY <1>2 DEF StreamInv, StartSound, FaultsSound, EndSound, OwnGeneration, CleanupComes, ExecutesWatched, NoThreadLeft,
         NothingShown, MainJoins, MainFindsNothing, Ends, Returned, Joining, Adopting, Executing
<1> QED BY <1>1, <1>3, <1>4, <1>5, <1>6, <1>7 DEF StreamInv

LEMMA PollStreams ==
    ASSUME StreamInv, Poll PROVE StreamInv'
<1>1. WatchdogInv'
  BY SurroundingsKeep DEF StreamInv
<1>2. /\ poller.at = "idle" /\ poller'.at = "poll" /\ poller'.claimed = poller.claimed
      /\ UNCHANGED <<watchdog, workers, calls, descriptor, deferred, gate, enders, faults>>
  BY DEF StreamInv, WatchdogInv, WatchdogShape, Poll, IsRecord
<1>3. StreamShape' /\ Numbers'
  BY <1>2 DEF StreamInv, StreamShape, Numbers
<1>4. GateSound' /\ ClaimsSound'
  BY <1>2 DEF StreamInv, GateSound, ClaimsSound, Executing
<1>5. CallsSound' /\ RunningSound' /\ FaultsSound'
  BY <1>2 DEF StreamInv, CallsSound, RunningSound, FaultsSound, Joining, WatchdogInv, CallersWait
<1>6. StartSound' /\ StreamIsWatched' /\ ShownIsNew' /\ DescriptorKept'
  BY <1>2 DEF StreamInv, StartSound, StreamIsWatched, ShownIsNew, DescriptorKept, InSession, Joining
<1>7. EndSound'
  BY <1>2 DEF StreamInv, EndSound, OwnGeneration, CleanupComes, ExecutesWatched, NoThreadLeft,
         NothingShown, MainJoins, MainFindsNothing, Ends, Returned, Joining, Adopting, Executing
<1> QED BY <1>1, <1>3, <1>4, <1>5, <1>6, <1>7 DEF StreamInv

LEMMA ControlReturnsStreams ==
    ASSUME StreamInv, ControlReturns PROVE StreamInv'
<1>1. WatchdogInv'
  BY SurroundingsKeep DEF StreamInv
<1>2. /\ poller.at = "stopping" /\ calls["control"].op = "none" /\ poller'.at = "idle"
      /\ poller'.claimed = poller.claimed
      /\ UNCHANGED <<watchdog, workers, calls, descriptor, deferred, gate, enders, faults>>
  BY DEF StreamInv, WatchdogInv, WatchdogShape, ControlReturns, IsRecord
<1>3. StreamShape' /\ Numbers'
  BY <1>2 DEF StreamInv, StreamShape, Numbers
<1>4. GateSound' /\ ClaimsSound'
  BY <1>2 DEF StreamInv, GateSound, ClaimsSound, Executing
<1>5. CallsSound' /\ RunningSound' /\ FaultsSound'
  BY <1>2 DEF StreamInv, CallsSound, RunningSound, FaultsSound, Joining, WatchdogInv, CallersWait
<1>6. StartSound' /\ StreamIsWatched' /\ ShownIsNew' /\ DescriptorKept'
  BY <1>2 DEF StreamInv, StartSound, StreamIsWatched, ShownIsNew, DescriptorKept, InSession, Joining
<1>7. EndSound'
  BY <1>2 DEF StreamInv, EndSound, OwnGeneration, CleanupComes, ExecutesWatched, NoThreadLeft,
         NothingShown, MainJoins, MainFindsNothing, Ends, Returned, Joining, Adopting, Executing
<1> QED BY <1>1, <1>3, <1>4, <1>5, <1>6, <1>7 DEF StreamInv

LEMMA ApplyShapes ==
    /\ IsRecord(NoApply, ApplyMembers) /\ NoApply.launch = 0
    /\ \A launch : IsRecord(DeferredApply(launch), ApplyMembers) /\ DeferredApply(launch).launch = launch
  BY DEF NoApply, DeferredApply, IsRecord, ApplyMembers

(* A launch takes a new number, and a new generation if its APPLY is published.            *)
LEMMA LaunchAppliesStreams ==
    ASSUME StreamInv, NEW outcome \in ApplyOutcomes, LaunchApplies(outcome) PROVE StreamInv'
<1>1. WatchdogInv'
  BY SurroundingsKeep DEF StreamInv
<1>2. /\ gate.at = "idle" /\ ~gate.live /\ enders.main = "running"
      /\ gate'.at = "launched" /\ gate'.launch = gate.launch + 1 /\ gate'.live = gate.live
      /\ gate'.app = TRUE /\ gate'.started = gate.started /\ gate'.revert_owed = gate.revert_owed
      /\ (gate'.forced <=> enders.hotkey # "idle") /\ gate'.kept = gate.kept
      /\ UNCHANGED <<watchdog, workers, calls, poller, enders, faults>>
  BY DEF StreamInv, WatchdogInv, WatchdogShape, LaunchApplies, IsRecord, GateMembers
<1>3. /\ IsRecord(descriptor', {"launch", "generation", "last"})
      /\ \/ ~gate'.published /\ UNCHANGED descriptor
         \/ /\ gate'.published /\ descriptor'.launch = gate'.launch
            /\ descriptor'.generation = descriptor.last + 1 /\ descriptor'.last = descriptor.last + 1
  <2>1. gate'.published <=> outcome \in {"applied", "applied_deferred"}
    BY DEF StreamInv, WatchdogInv, WatchdogShape, LaunchApplies, IsRecord, GateMembers
  <2>2. descriptor.launch # gate.launch + 1 /\ IsRecord(descriptor, {"launch", "generation", "last"})
    BY DEF StreamInv, StreamShape, Numbers
  <2>3. descriptor' = IF outcome \in {"applied", "applied_deferred"} THEN Published(gate.launch + 1)
                      ELSE descriptor
    BY DEF LaunchApplies
  <2> QED BY <1>2, <2>1, <2>2, <2>3 DEF Published, IsRecord
<1>4. /\ IsRecord(deferred', {"pending", "executing"}) /\ IsRecord(deferred'.pending, ApplyMembers)
      /\ deferred'.executing = deferred.executing
      /\ \/ ~gate'.published /\ UNCHANGED deferred
         \/ /\ ~deferred.executing
            /\ deferred'.pending = NoApply \/ deferred'.pending.launch = gate'.launch
  <2>1. gate'.published <=> outcome \in {"applied", "applied_deferred"}
    BY DEF StreamInv, WatchdogInv, WatchdogShape, LaunchApplies, IsRecord, GateMembers
  <2>2. /\ IsRecord(deferred, {"pending", "executing"}) /\ IsRecord(deferred.pending, ApplyMembers)
        /\ outcome # "skipped" => ~deferred.executing
    BY DEF StreamInv, StreamShape, LaunchApplies, OwnsExecution
  <2>3. CASE outcome = "skipped"
    BY <2>1, <2>2, <2>3 DEF LaunchApplies
  <2>4. CASE outcome \in {"deferred", "applied_deferred"}
    <3>1. deferred' = [deferred EXCEPT !.pending = DeferredApply(gate.launch + 1)]
      BY <2>4 DEF LaunchApplies
    <3> QED BY <1>2, <2>2, <2>4, <3>1, ApplyShapes DEF IsRecord
  <2>5. CASE outcome \in {"applied", "failed"}
    <3>1. deferred' = [deferred EXCEPT !.pending = NoApply]
      BY <2>5 DEF LaunchApplies
    <3> QED BY <2>2, <2>5, <3>1, ApplyShapes DEF IsRecord
  <2> QED BY <2>3, <2>4, <2>5 DEF ApplyOutcomes
<1>5. StreamShape' /\ Numbers'
  BY <1>2, <1>3, <1>4, ApplyShapes DEF StreamInv, StreamShape, Numbers
<1>6. GateSound' /\ ClaimsSound'
  BY <1>2, <1>4, ApplyShapes DEF StreamInv, StreamShape, GateSound, ClaimsSound, Executing
<1>7. CallsSound' /\ RunningSound' /\ FaultsSound'
  BY <1>2 DEF StreamInv, CallsSound, RunningSound, FaultsSound, Joining, WatchdogInv, CallersWait
<1>8. StartSound' /\ StreamIsWatched' /\ DescriptorKept'
  BY <1>2, <1>3 DEF StreamInv, GateSound, StartSound, StreamIsWatched, DescriptorKept
<1>9. ShownIsNew'
  BY <1>2, <1>3 DEF StreamInv, StreamShape, Numbers, ShownIsNew, InSession, Joining
<1>10. EndSound'
  <2>1. ~Joining("main")
    BY <1>2 DEF StreamInv, WatchdogInv, CallersWait, Joining, WatchdogThreads
  <2> QED BY <1>2, <2>1 DEF StreamInv, GateSound, EndSound, OwnGeneration, CleanupComes, ExecutesWatched,
         NoThreadLeft, NothingShown, MainJoins, MainFindsNothing, Ends, Returned, Joining, Adopting, Executing
<1> QED BY <1>1, <1>5, <1>6, <1>7, <1>8, <1>9, <1>10 DEF StreamInv

(* What a call begins with, and leaves.                                                    *)
LEMMA CallNumbers ==
    /\ NoWatchdogCall.generation = 0 /\ NoWatchdogCall.force = FALSE
    /\ StartCall.generation = 0 /\ StartCall.force = FALSE
    /\ \A force : StopCall(force).generation = 0
  BY DEF NoWatchdogCall, StartCall, StopCall

(* A stream comes up, its platform at once or when a user has logged in.                   *)
LEMMA StreamStartsStreams == ASSUME StreamInv, StreamStarts PROVE StreamInv'
<1>1. WatchdogInv'
  BY BeginningsKeep DEF StreamInv
<1>2. /\ gate.at = "launched" /\ gate'.live = TRUE
      /\ gate'.launch = gate.launch /\ gate'.app = gate.app /\ gate'.started = gate.started
      /\ gate'.revert_owed = gate.revert_owed /\ gate'.published = gate.published
      /\ gate'.forced = gate.forced /\ gate'.kept = gate.kept
      /\ UNCHANGED <<watchdog, workers, descriptor, deferred, poller, enders, faults>>
      /\ gate'.at = "starting" \/ (gate'.at = "streaming" /\ UNCHANGED calls)
  BY DEF StreamInv, WatchdogInv, WatchdogShape, StreamStarts, IsRecord, GateMembers
<1>3. gate'.at = "starting" =>
        /\ calls'["gate"].op = "start" /\ calls'["gate"].at = "begin" /\ calls'["gate"].force = FALSE
        /\ calls'["gate"].generation = 0
        /\ \A d \in WatchdogThreads \ {"gate"} : calls'[d] = calls[d]
  <2>1. gate'.at = "starting" => calls' = [calls EXCEPT !["gate"] = StartCall]
    BY DEF StreamInv, WatchdogInv, WatchdogShape, StreamStarts, StartPlatform, IsRecord, GateMembers
  <2>2. gate'.at = "starting" => calls'["gate"] = StartCall /\ \A d \in WatchdogThreads \ {"gate"} : calls'[d] = calls[d]
    BY <2>1 DEF StreamInv, WatchdogInv, WatchdogShape, IsRecord, WatchdogThreads
  <2> QED BY <2>2, CallShapes, CallNumbers
<1>4. /\ ~Joining("gate") /\ ~Joining("gate")' /\ calls'["gate"].at # "wait"
      /\ \A d \in WatchdogThreads : calls'[d] # calls[d] => d = "gate"
  BY <1>2, <1>3 DEF StreamInv, WatchdogInv, CallersWait, Joining, WatchdogThreads
<1>5. StreamShape' /\ Numbers'
  BY <1>2, <1>3 DEF StreamInv, StreamShape, Numbers, WatchdogThreads
<1>6. GateSound' /\ ClaimsSound'
  BY <1>2 DEF StreamInv, GateSound, ClaimsSound, Executing
<1>7. CallsSound' /\ RunningSound' /\ FaultsSound'
  BY <1>2, <1>3, <1>4 DEF StreamInv, CallsSound, RunningSound, FaultsSound, Joining, WatchdogThreads
<1>8. StartSound' /\ StreamIsWatched' /\ DescriptorKept'
  BY <1>2, <1>3 DEF StreamInv, GateSound, StartSound, StreamIsWatched, DescriptorKept
<1>9. ShownIsNew'
  BY <1>2, <1>3, <1>4 DEF StreamInv, ShownIsNew, InSession, Joining
<1>10. EndSound'
  BY <1>2, <1>3, <1>4 DEF StreamInv, GateSound, EndSound, OwnGeneration, CleanupComes, ExecutesWatched,
         NoThreadLeft, NothingShown, MainJoins, MainFindsNothing, Ends, Returned, Joining, Adopting, Executing,
         WatchdogThreads
<1> QED BY <1>1, <1>5, <1>6, <1>7, <1>8, <1>9, <1>10 DEF StreamInv

LEMMA DeferredStartStreams == ASSUME StreamInv, DeferredStart PROVE StreamInv'
<1>1. WatchdogInv'
  BY BeginningsKeep DEF StreamInv
<1>2. /\ gate.at = "streaming" /\ ~gate.started /\ gate'.at = "starting" /\ gate'.live = gate.live
      /\ gate'.launch = gate.launch /\ gate'.app = gate.app /\ gate'.started = gate.started
      /\ gate'.revert_owed = gate.revert_owed /\ gate'.published = gate.published
      /\ gate'.forced = gate.forced /\ gate'.kept = gate.kept
      /\ UNCHANGED <<watchdog, workers, descriptor, deferred, poller, enders, faults>>
  BY DEF StreamInv, WatchdogInv, WatchdogShape, DeferredStart, StartPlatform, IsRecord, GateMembers
<1>3. calls'["gate"] = StartCall /\ \A d \in WatchdogThreads \ {"gate"} : calls'[d] = calls[d]
  BY CallShapes, CallChanges DEF StreamInv, WatchdogInv, DeferredStart, StartPlatform, WatchdogThreads
<1>4. /\ calls'["gate"].op = "start" /\ calls'["gate"].at = "begin" /\ calls'["gate"].force = FALSE
      /\ calls'["gate"].generation = 0 /\ ~Joining("gate") /\ ~Joining("gate")'
  BY <1>2, <1>3, CallShapes, CallNumbers DEF StreamInv, WatchdogInv, CallersWait, Joining, WatchdogThreads
<1>5. StreamShape' /\ Numbers'
  BY <1>2, <1>3, <1>4 DEF StreamInv, StreamShape, Numbers, WatchdogThreads
<1>6. GateSound' /\ ClaimsSound'
  BY <1>2 DEF StreamInv, GateSound, ClaimsSound, Executing
<1>7. CallsSound' /\ RunningSound' /\ FaultsSound'
  BY <1>2, <1>3, <1>4 DEF StreamInv, CallsSound, RunningSound, FaultsSound, Joining, WatchdogThreads
<1>8. StartSound' /\ StreamIsWatched' /\ DescriptorKept'
  BY <1>2, <1>4 DEF StreamInv, StartSound, StreamIsWatched, DescriptorKept
<1>9. ShownIsNew'
  BY <1>2, <1>3, <1>4 DEF StreamInv, ShownIsNew, InSession, Joining
<1>10. EndSound'
  BY <1>2, <1>3, <1>4 DEF StreamInv, EndSound, OwnGeneration, CleanupComes, ExecutesWatched,
         NoThreadLeft, NothingShown, MainJoins, MainFindsNothing, Ends, Returned, Joining, Adopting, Executing, WatchdogThreads
<1> QED BY <1>1, <1>5, <1>6, <1>7, <1>8, <1>9, <1>10 DEF StreamInv

(* A cleanup, a call and an adoption take the numbers there are.                           *)
LEMMA NumbersKept ==
    ASSUME Numbers, gate.launch \in Nat, gate'.launch = gate.launch, descriptor'.last = descriptor.last,
           \/ UNCHANGED descriptor
           \/ descriptor'.launch = 0 /\ descriptor'.generation = 0,
           watchdog'.generation \in {0, watchdog.generation, descriptor'.generation},
           \A d \in WatchdogThreads : calls'[d].generation \in {0, calls[d].generation, watchdog.generation}
    PROVE  Numbers'
<1>1. /\ descriptor'.launch \in Nat /\ descriptor'.launch <= gate'.launch /\ descriptor'.last \in Nat
      /\ descriptor'.generation \in 0..descriptor'.last
      /\ descriptor'.launch # 0 => descriptor'.generation # 0
  <2>1. CASE UNCHANGED descriptor
    BY <2>1 DEF Numbers
  <2>2. CASE descriptor'.launch = 0 /\ descriptor'.generation = 0
    BY <2>2 DEF Numbers
  <2> QED BY <2>1, <2>2
<1>2. watchdog'.generation \in 0..descriptor'.last
  BY <1>1 DEF Numbers
<1>3. \A d \in WatchdogThreads : calls'[d].generation \in 0..descriptor'.last
  BY DEF Numbers
<1> QED BY <1>1, <1>2, <1>3 DEF Numbers

(* A call that returns, or is one of a stop, leaves the calls as they should be.           *)
LEMMA ReturnStaysSound ==
    ASSUME CallsSound, NEW c \in WatchdogThreads, calls'[c].op = "none", calls'[c].at = "",
           calls'[c].force = FALSE, \A d \in WatchdogThreads : d = c \/ calls'[d] = calls[d],
           gate'.at = gate.at
    PROVE  CallsSound'
<1>1. \A d \in WatchdogThreads :
        /\ calls'[d].op \in {"none", "start", "stop"}
        /\ calls'[d].at = "wait" => calls'[d].op = "stop"
        /\ calls'[d].op = "stop" => calls'[d].at \in {"loop", "wait", "join"}
  BY DEF CallsSound
<1>2. \A d \in {"gate", "control"} : calls'[d].force = FALSE
  BY DEF CallsSound, WatchdogThreads
<1>3. calls'["gate"].op = "stop" => gate'.at = "stopping"
  BY DEF CallsSound, WatchdogThreads
<1> QED BY <1>1, <1>2, <1>3 DEF CallsSound

LEMMA StopStaysSound ==
    ASSUME CallsSound, NEW c \in WatchdogThreads, calls'[c].op = "stop", calls'[c].at \in {"loop", "wait", "join"},
           c \in {"gate", "control"} => calls'[c].force = FALSE,
           \A d \in WatchdogThreads : d = c \/ calls'[d] = calls[d],
           IF c = "gate" THEN gate'.at = "stopping" ELSE gate'.at = gate.at
    PROVE  CallsSound'
<1>1. \A d \in WatchdogThreads :
        /\ calls'[d].op \in {"none", "start", "stop"}
        /\ calls'[d].at = "wait" => calls'[d].op = "stop"
        /\ calls'[d].op = "stop" => calls'[d].at \in {"loop", "wait", "join"}
  BY DEF CallsSound
<1>2. \A d \in {"gate", "control"} : calls'[d].force = FALSE
  BY DEF CallsSound, WatchdogThreads
<1>3. calls'["gate"].op = "stop" => gate'.at = "stopping"
  BY DEF CallsSound, WatchdogThreads
<1> QED BY <1>1, <1>2, <1>3 DEF CallsSound

(* What a REVERT leaves of the descriptor and of the deferred APPLY.                       *)
LEMMA RevertLeaves ==
    ASSUME StreamShape, NEW outcome, Revert(outcome)
    PROVE  /\ IsRecord(deferred', {"pending", "executing"}) /\ deferred'.pending = NoApply
           /\ deferred'.executing = deferred.executing /\ ~deferred.executing
           /\ \/ outcome = "unavailable" /\ UNCHANGED descriptor
              \/ /\ IsRecord(descriptor', {"launch", "generation", "last"})
                 /\ descriptor'.launch = 0 /\ descriptor'.generation = 0
                 /\ descriptor'.last = descriptor.last
  BY DEF StreamShape, Revert, OwnsExecution, Cleared, IsRecord

(* The restore hotkey takes the descriptor away from a session that it has disturbed.      *)
LEMMA HotkeyRevertsStreams ==
    ASSUME StreamInv, NEW outcome \in RevertOutcomes, HotkeyReverts(outcome) PROVE StreamInv'
<1>1. WatchdogInv'
  BY BeginningsKeep DEF StreamInv
<1>2. /\ enders.hotkey = "reverting" /\ enders'.hotkey = "stopping" /\ enders'.main = enders.main
      /\ UNCHANGED <<watchdog, workers, gate, poller, faults>> /\ gate.forced
      /\ IsRecord(deferred', {"pending", "executing"}) /\ deferred'.pending = NoApply
      /\ deferred'.executing = deferred.executing /\ ~deferred.executing
      /\ \/ UNCHANGED descriptor
         \/ /\ IsRecord(descriptor', {"launch", "generation", "last"})
            /\ descriptor'.launch = 0 /\ descriptor'.generation = 0 /\ descriptor'.last = descriptor.last
  BY RevertLeaves DEF StreamInv, WatchdogInv, WatchdogShape, GateSound, HotkeyReverts, IsRecord, EnderMembers
<1>3. calls'["hotkey"] = StopCall(TRUE) /\ \A d \in WatchdogThreads \ {"hotkey"} : calls'[d] = calls[d]
  BY CallShapes, CallChanges DEF StreamInv, WatchdogInv, HotkeyReverts, WatchdogThreads
<1>4. /\ calls'["hotkey"].op = "stop" /\ calls'["hotkey"].at = "loop"
      /\ calls'["hotkey"].generation = 0 /\ ~Joining("hotkey") /\ ~Joining("hotkey")'
  <2>1. StopCall(TRUE).op = "stop" /\ StopCall(TRUE).at = "loop" /\ StopCall(TRUE).generation = 0
    BY CallShapes, CallNumbers
  <2>2. ~Joining("hotkey")
    BY <1>2 DEF StreamInv, WatchdogInv, CallersWait, Joining, WatchdogThreads
  <2> QED BY <1>3, <2>1, <2>2 DEF Joining
<1>5. StreamShape' /\ Numbers'
  <2>1. \A d \in WatchdogThreads : calls'[d].generation \in {0, calls[d].generation}
    BY <1>3, <1>4
  <2>2. descriptor'.last = descriptor.last /\ watchdog' = watchdog /\ gate' = gate
    BY <1>2
  <2>3. StreamShape'
    BY <1>2, ApplyShapes DEF StreamInv, StreamShape
  <2>4. Numbers'
    BY <1>2, <2>1, <2>2, NumbersKept DEF StreamInv, StreamShape
  <2> QED BY <2>3, <2>4
<1>6. GateSound' /\ ClaimsSound'
  BY <1>2 DEF StreamInv, GateSound, ClaimsSound, Executing
<1>7. CallsSound' /\ RunningSound' /\ FaultsSound'
  <2>1. CallsSound'
    BY <1>2, <1>3, <1>4, StopStaysSound DEF StreamInv, WatchdogThreads
  <2>2. RunningSound' /\ FaultsSound'
    BY <1>2, <1>3, <1>4 DEF StreamInv, RunningSound, FaultsSound, Joining
  <2> QED BY <2>1, <2>2
<1>8. StartSound' /\ StreamIsWatched' /\ DescriptorKept' /\ ShownIsNew'
  BY <1>2 DEF StreamInv, StartSound, StreamIsWatched, DescriptorKept, ShownIsNew, InSession
<1>9. EndSound'
  BY <1>2, <1>3, <1>4 DEF StreamInv, ClaimsSound, EndSound, OwnGeneration, CleanupComes, ExecutesWatched,
         NoThreadLeft, NothingShown, MainJoins, MainFindsNothing, Ends, Returned, Joining, Adopting, Executing, WatchdogThreads
<1> QED BY <1>1, <1>5, <1>6, <1>7, <1>8, <1>9 DEF StreamInv

(* main begins to stop while nothing streams.                                              *)
LEMMA MainStopsStreams == ASSUME StreamInv, MainStops PROVE StreamInv'
<1>1. WatchdogInv'
  BY BeginningsKeep DEF StreamInv
<1>2. /\ gate.at = "idle" /\ enders.main = "running" /\ enders'.hotkey = enders.hotkey
      /\ UNCHANGED <<watchdog, workers, descriptor, deferred, gate, poller, faults>>
  BY DEF StreamInv, WatchdogInv, WatchdogShape, MainStops, IsRecord, EnderMembers
<1>3. calls'["main"] = StopCall(TRUE) /\ \A d \in WatchdogThreads \ {"main"} : calls'[d] = calls[d]
  BY CallShapes, CallChanges DEF StreamInv, WatchdogInv, MainStops, WatchdogThreads
<1>4. /\ calls'["main"].op = "stop" /\ calls'["main"].at = "loop"
      /\ calls'["main"].generation = 0 /\ ~Joining("main") /\ ~Joining("main")'
  <2>1. StopCall(TRUE).op = "stop" /\ StopCall(TRUE).at = "loop" /\ StopCall(TRUE).generation = 0
    BY CallShapes, CallNumbers
  <2>2. ~Joining("main")
    BY <1>2 DEF StreamInv, WatchdogInv, CallersWait, Joining, WatchdogThreads
  <2> QED BY <1>3, <2>1, <2>2 DEF Joining
<1>5. StreamShape' /\ Numbers'
  <2>1. \A d \in WatchdogThreads : calls'[d].generation \in {0, calls[d].generation}
    BY <1>3, <1>4
  <2> QED BY <1>2, <2>1 DEF StreamInv, StreamShape, Numbers
<1>6. GateSound' /\ ClaimsSound'
  BY <1>2 DEF StreamInv, GateSound, ClaimsSound, Executing
<1>7. CallsSound' /\ RunningSound' /\ FaultsSound'
  <2>1. CallsSound'
    BY <1>2, <1>3, <1>4, StopStaysSound DEF StreamInv, WatchdogThreads
  <2> QED BY <1>2, <1>3, <1>4, <2>1 DEF StreamInv, RunningSound, FaultsSound, Joining, WatchdogThreads
<1>8. StartSound' /\ StreamIsWatched' /\ DescriptorKept' /\ ShownIsNew'
  BY <1>2 DEF StreamInv, StartSound, StreamIsWatched, DescriptorKept, ShownIsNew, InSession
<1>9. EndSound'
  BY <1>2, <1>3, <1>4 DEF StreamInv, EndSound, OwnGeneration, CleanupComes, ExecutesWatched,
         NoThreadLeft, NothingShown, MainJoins, MainFindsNothing, Ends, Returned, Joining, Adopting, Executing, WatchdogThreads
<1> QED BY <1>1, <1>5, <1>6, <1>7, <1>8, <1>9 DEF StreamInv

(* A worker that has been asked to goes.                                                   *)
LEMMA WorkerExitsStreams ==
    ASSUME StreamInv, NEW w \in 1..MaxWorkers, WorkerExits(w) PROVE StreamInv'
<1>1. WatchdogInv'
  BY WorkerExitsKeeps DEF StreamInv
<1>2. /\ UNCHANGED <<watchdog, calls, descriptor, deferred, gate, poller, enders, faults>>
      /\ w \in workers.asked
      /\ workers'.alive = workers.alive \ {w} /\ workers'.asked = workers.asked \ {w}
  BY DEF WorkerExits
<1>3. StreamShape' /\ Numbers' /\ GateSound' /\ ClaimsSound' /\ CallsSound' /\ FaultsSound'
  BY <1>2 DEF StreamInv, StreamShape, Numbers, GateSound, ClaimsSound, CallsSound, FaultsSound, Executing
<1>4. RunningSound'
  BY <1>2 DEF StreamInv, RunningSound, Joining
<1>5. StartSound' /\ StreamIsWatched' /\ DescriptorKept' /\ ShownIsNew'
  BY <1>2, <1>4 DEF StreamInv, RunningSound, StartSound, StreamIsWatched, DescriptorKept, ShownIsNew, InSession,
     Joining
<1>6. EndSound'
  BY <1>2 DEF StreamInv, EndSound, OwnGeneration, CleanupComes, ExecutesWatched,
         NoThreadLeft, NothingShown, MainJoins, MainFindsNothing, Ends, Returned, Joining, Adopting, Executing
<1> QED BY <1>1, <1>3, <1>4, <1>5, <1>6 DEF StreamInv

(* The end of a session waits for the deferred APPLY under way; the stop that follows       *)
(* belongs to the watchdog of this session.                                               *)
LEMMA FinalizeStreams ==
    ASSUME StreamInv, NEW restores \in BOOLEAN, NEW outcome \in RevertOutcomes, Finalize(restores, outcome)
    PROVE  StreamInv'
<1>1. WatchdogInv'
  BY BeginningsKeep DEF StreamInv
<1> DEFINE stops == gate.started /\ ~gate.app
<1>2. /\ gate.at = "ending" /\ gate'.live = gate.live /\ gate'.launch = gate.launch
      /\ gate'.app = gate.app /\ gate'.started = FALSE /\ gate'.published = FALSE
      /\ gate'.forced = gate.forced /\ (gate'.kept <=> ~stops)
      /\ gate'.at = IF stops THEN "stopping" ELSE "idle"
      /\ UNCHANGED <<watchdog, workers, poller, enders, faults>>
  BY DEF StreamInv, WatchdogInv, WatchdogShape, Finalize, IsRecord, GateMembers
<1>3. /\ \A d \in WatchdogThreads : (d = "gate" /\ stops) \/ calls'[d] = calls[d]
      /\ stops => /\ calls'["gate"].op = "stop" /\ calls'["gate"].at = "loop"
                  /\ calls'["gate"].generation = 0 /\ calls'["gate"].force = FALSE
  <2>1. CASE stops
    <3>1. calls' = [calls EXCEPT !["gate"] = StopCall(FALSE)]
      BY <2>1 DEF Finalize
    <3>2. IsRecord(StopCall(FALSE), CallMembers) /\ StopCall(FALSE).op = "stop" /\ StopCall(FALSE).at = "loop"
          /\ StopCall(FALSE).generation = 0 /\ StopCall(FALSE).force = FALSE
      BY CallShapes, CallNumbers
    <3>3. calls'["gate"] = StopCall(FALSE) /\ \A d \in WatchdogThreads \ {"gate"} : calls'[d] = calls[d]
      BY <3>1, <3>2, CallChanges DEF StreamInv, WatchdogInv, WatchdogThreads
    <3> QED BY <2>1, <3>2, <3>3
  <2>2. CASE ~stops
    BY <2>2 DEF Finalize
  <2> QED BY <2>1, <2>2
<1>4. ~Joining("gate") /\ ~Joining("gate")' /\ calls["gate"].op = "none" /\ calls["gate"].at = ""
  BY <1>2, <1>3 DEF StreamInv, WatchdogInv, CallersWait, Joining, WatchdogThreads
<1>5. /\ IsRecord(deferred', {"pending", "executing"}) /\ deferred'.pending = NoApply
      /\ deferred'.executing = deferred.executing /\ ~deferred.executing
      /\ \/ UNCHANGED descriptor
         \/ /\ IsRecord(descriptor', {"launch", "generation", "last"})
            /\ descriptor'.launch = 0 /\ descriptor'.generation = 0 /\ descriptor'.last = descriptor.last
  <2>1. CASE restores
    BY <2>1, RevertLeaves DEF StreamInv, Finalize
  <2>2. CASE ~restores
    BY <2>2 DEF StreamInv, StreamShape, Finalize, OwnsExecution, IsRecord
  <2> QED BY <2>1, <2>2
<1> HIDE DEF stops
<1>6. StreamShape' /\ Numbers'
  <2>1. \A d \in WatchdogThreads : calls'[d].generation \in {0, calls[d].generation}
    BY <1>3
  <2>2. StreamShape'
    BY <1>2, <1>5, ApplyShapes DEF StreamInv, StreamShape
  <2>3. Numbers'
    BY <1>2, <1>5, <2>1, NumbersKept DEF StreamInv, StreamShape
  <2> QED BY <2>2, <2>3
<1>7. GateSound' /\ ClaimsSound'
  BY <1>2, <1>5 DEF StreamInv, GateSound, ClaimsSound, Executing, stops
<1>8. CallsSound' /\ RunningSound' /\ FaultsSound'
  <2>1. CASE stops
    <3>1. CallsSound'
      BY <1>2, <1>3, <2>1, StopStaysSound DEF StreamInv, WatchdogThreads
    <3> QED BY <1>2, <1>3, <1>4, <3>1 DEF StreamInv, RunningSound, FaultsSound, Joining
  <2>2. CASE ~stops
    <3>1. \A d \in WatchdogThreads : calls'[d] = calls[d]
      BY <1>3, <2>2
    <3>2. calls'["gate"].op # "stop"
      BY <1>4, <3>1 DEF WatchdogThreads
    <3>3. CallsSound'
      BY <3>1, <3>2 DEF StreamInv, CallsSound, WatchdogThreads
    <3> QED BY <1>2, <3>1, <3>3 DEF StreamInv, RunningSound, FaultsSound, Joining
  <2> QED BY <2>1, <2>2
<1>9. StartSound' /\ StreamIsWatched' /\ DescriptorKept' /\ ShownIsNew'
  BY <1>2 DEF StreamInv, StartSound, StreamIsWatched, DescriptorKept, ShownIsNew, InSession
<1>10. EndSound'
  <2>1. ~Joining("main") /\ enders.main = "running"
    BY <1>2 DEF StreamInv, WatchdogInv, CallersWait, MainLast, Joining, WatchdogThreads
  <2>2. stops => gate.started
    BY DEF stops
  <2> QED BY <1>2, <1>3, <1>4, <1>5, <2>1, <2>2 DEF StreamInv, ClaimsSound, EndSound, OwnGeneration, CleanupComes, ExecutesWatched,
         NoThreadLeft, NothingShown, MainJoins, MainFindsNothing, Ends, Returned, Joining, Adopting, Executing, WatchdogThreads
<1> QED BY <1>1, <1>6, <1>7, <1>8, <1>9, <1>10 DEF StreamInv

(* The application ends; where nothing streams the restore is sent and the watchdog stops.  *)
LEMMA WatchedAppExitsStreams ==
    ASSUME StreamInv, NEW outcome \in RevertOutcomes, WatchedAppExits(outcome) PROVE StreamInv'
<1>1. WatchdogInv'
  BY BeginningsKeep DEF StreamInv
<1>2. /\ gate.app /\ gate.at \in {"idle", "launched", "streaming"}
      /\ gate'.live = gate.live /\ gate'.launch = gate.launch /\ gate'.app = FALSE
      /\ gate'.started = gate.started /\ gate'.published = gate.published /\ gate'.forced = gate.forced
      /\ UNCHANGED <<watchdog, workers, poller, enders, faults>>
  <2>1. IsRecord(gate, GateMembers)
    BY DEF StreamInv, WatchdogInv, WatchdogShape
  <2>2. /\ gate.app /\ gate.at \in {"idle", "launched", "streaming"}
        /\ UNCHANGED <<watchdog, workers, poller, enders, faults>>
        /\ \E owed, at, kept : gate' = [gate EXCEPT !.app = FALSE, !.revert_owed = owed, !.at = at, !.kept = kept]
    <3>1. CASE gate.at # "idle"
      <4>1. gate' = [gate EXCEPT !.app = FALSE, !.revert_owed = TRUE, !.at = gate.at, !.kept = gate.kept]
        BY <2>1, <3>1 DEF WatchedAppExits, IsRecord, GateMembers
      <4> QED BY <4>1 DEF WatchedAppExits
    <3>2. CASE gate.at = "idle"
      <4>1. gate' = [gate EXCEPT !.app = FALSE, !.revert_owed = FALSE,
                                 !.at = IF outcome = "sent" THEN "stopping" ELSE "idle",
                                 !.kept = outcome # "sent"]
        BY <3>2 DEF WatchedAppExits
      <4> QED BY <3>2, <4>1 DEF WatchedAppExits
    <3> QED BY <3>1, <3>2
  <2> QED BY <2>1, <2>2 DEF IsRecord, GateMembers
<1>3. CASE gate.at # "idle"
  <2>1. /\ UNCHANGED <<calls, descriptor, deferred>>
        /\ gate'.at = gate.at /\ gate'.revert_owed = TRUE /\ gate'.kept = gate.kept
    BY <1>3 DEF StreamInv, WatchdogInv, WatchdogShape, WatchedAppExits, IsRecord, GateMembers
  <2>2. StreamShape' /\ Numbers'
    BY <1>2, <2>1 DEF StreamInv, StreamShape, Numbers
  <2>3. GateSound' /\ ClaimsSound'
    BY <1>2, <1>3, <2>1 DEF StreamInv, GateSound, ClaimsSound, Executing
  <2>4. CallsSound' /\ RunningSound' /\ FaultsSound'
    BY <1>2, <2>1 DEF StreamInv, CallsSound, RunningSound, FaultsSound, Joining
  <2>5. StartSound' /\ StreamIsWatched' /\ DescriptorKept' /\ ShownIsNew'
    BY <1>2, <2>1 DEF StreamInv, StartSound, StreamIsWatched, DescriptorKept, ShownIsNew, InSession, Joining
  <2>6. EndSound'
    BY <1>2, <1>3, <2>1 DEF StreamInv, EndSound, OwnGeneration, CleanupComes, ExecutesWatched,
         NoThreadLeft, NothingShown, MainJoins, MainFindsNothing, Ends, Returned, Joining, Adopting, Executing
  <2> QED BY <1>1, <2>2, <2>3, <2>4, <2>5, <2>6 DEF StreamInv
<1>4. CASE gate.at = "idle"
  <2>1. /\ gate'.at = IF outcome = "sent" THEN "stopping" ELSE "idle"
        /\ gate'.kept <=> outcome # "sent"
    BY <1>4 DEF StreamInv, WatchdogInv, WatchdogShape, WatchedAppExits, IsRecord, GateMembers
  <2>2. /\ \A d \in WatchdogThreads : (d = "gate" /\ outcome = "sent") \/ calls'[d] = calls[d]
        /\ outcome = "sent" =>
             /\ calls'["gate"].op = "stop" /\ calls'["gate"].at = "loop"
             /\ calls'["gate"].generation = 0 /\ calls'["gate"].force = FALSE
    <3>1. CASE outcome = "sent"
      <4>1. calls' = [calls EXCEPT !["gate"] = StopCall(FALSE)]
        BY <1>4, <3>1 DEF WatchedAppExits
      <4>2. IsRecord(StopCall(FALSE), CallMembers) /\ StopCall(FALSE).op = "stop" /\ StopCall(FALSE).at = "loop"
            /\ StopCall(FALSE).generation = 0 /\ StopCall(FALSE).force = FALSE
        BY CallShapes, CallNumbers
      <4>3. calls'["gate"] = StopCall(FALSE) /\ \A d \in WatchdogThreads \ {"gate"} : calls'[d] = calls[d]
        BY <4>1, <4>2, CallChanges DEF StreamInv, WatchdogInv, WatchdogThreads
      <4> QED BY <3>1, <4>2, <4>3
    <3>2. CASE outcome # "sent"
      BY <1>4, <3>2 DEF WatchedAppExits
    <3> QED BY <3>1, <3>2
  <2>3. ~Joining("gate") /\ ~Joining("gate")' /\ calls["gate"].op = "none" /\ calls["gate"].at = ""
    BY <1>4, <2>2 DEF StreamInv, WatchdogInv, CallersWait, Joining, WatchdogThreads
  <2>4. /\ IsRecord(deferred', {"pending", "executing"}) /\ deferred'.pending = NoApply
        /\ deferred'.executing = deferred.executing /\ ~deferred.executing
        /\ \/ outcome = "unavailable" /\ UNCHANGED descriptor
           \/ /\ IsRecord(descriptor', {"launch", "generation", "last"})
              /\ descriptor'.launch = 0 /\ descriptor'.generation = 0 /\ descriptor'.last = descriptor.last
    BY <1>4, RevertLeaves DEF StreamInv, WatchedAppExits
  <2>5. StreamShape' /\ Numbers'
    <3>1. \A d \in WatchdogThreads : calls'[d].generation \in {0, calls[d].generation}
      BY <2>2
    <3>2. StreamShape'
      BY <1>2, <2>4, ApplyShapes DEF StreamInv, StreamShape
    <3>3. Numbers'
      BY <1>2, <2>4, <3>1, NumbersKept DEF StreamInv, StreamShape
    <3> QED BY <3>2, <3>3
  <2>6. GateSound' /\ ClaimsSound'
    BY <1>2, <1>4, <2>1, <2>4 DEF StreamInv, GateSound, ClaimsSound, Executing
  <2>7. CallsSound' /\ RunningSound' /\ FaultsSound'
    <3>1. CallsSound'
      <4>1. CASE outcome = "sent"
        BY <2>1, <2>2, <4>1, StopStaysSound DEF StreamInv, WatchdogThreads
      <4>2. CASE outcome # "sent"
        <5>1. \A d \in WatchdogThreads : calls'[d] = calls[d]
          BY <2>2, <4>2
        <5>2. calls'["gate"].op # "stop"
          BY <2>3, <5>1 DEF WatchdogThreads
        <5> QED BY <5>1, <5>2 DEF StreamInv, CallsSound, WatchdogThreads
      <4> QED BY <4>1, <4>2
    <3>2. RunningSound' /\ FaultsSound'
      BY <1>2, <2>2, <2>3 DEF StreamInv, RunningSound, FaultsSound, Joining
    <3> QED BY <3>1, <3>2
  <2>8. StartSound' /\ StreamIsWatched' /\ DescriptorKept' /\ ShownIsNew'
    BY <2>1 DEF StreamInv, StartSound, StreamIsWatched, DescriptorKept, ShownIsNew, InSession
  <2>9. EndSound'
    BY <1>2, <1>4, <2>1, <2>2, <2>3, <2>4 DEF StreamInv, GateSound, ClaimsSound, EndSound, OwnGeneration, CleanupComes, ExecutesWatched,
         NoThreadLeft, NothingShown, MainJoins, MainFindsNothing, Ends, Returned, Joining, Adopting, Executing, WatchdogThreads
  <2> QED BY <1>1, <2>5, <2>6, <2>7, <2>8, <2>9 DEF StreamInv
<1> QED BY <1>3, <1>4

(* Steps of the control thread that neither publish, adopt nor stop.                       *)
LEMMA ClaimMoves ==
    ASSUME StreamInv,
           UNCHANGED <<watchdog, workers, calls, descriptor, gate, enders, faults>>, WatchdogInv',
           StreamShape', ClaimsSound',
           poller.at # "adopting", poller'.at # "adopting",
           Executing' => Executing \/ gate.live
    PROVE  StreamInv'
<1>1. Numbers' /\ GateSound'
  BY DEF StreamInv, Numbers, GateSound
<1>2. CallsSound' /\ RunningSound' /\ FaultsSound'
  BY DEF StreamInv, CallsSound, RunningSound, FaultsSound, Joining
<1>3. StartSound' /\ StreamIsWatched' /\ ShownIsNew' /\ DescriptorKept'
  BY DEF StreamInv, StartSound, StreamIsWatched, ShownIsNew, DescriptorKept, InSession, Joining
<1>4. EndSound'
  <2>1. faults.count = 0 => ExecutesWatched'
    <3>1. gate.live /\ gate.started => gate.at = "streaming"
      BY DEF StreamInv, GateSound
    <3> QED BY <3>1 DEF StreamInv, FaultsSound, StreamIsWatched, EndSound, ExecutesWatched
  <2>2. faults.count = 0 => OwnGeneration'
    BY DEF StreamInv, EndSound, OwnGeneration, Ends, Adopting
  <2>3. faults.count = 0 => CleanupComes' /\ NoThreadLeft' /\ NothingShown' /\ MainJoins' /\ MainFindsNothing'
    BY DEF StreamInv, EndSound, CleanupComes, NoThreadLeft, NothingShown, MainJoins, MainFindsNothing,
           Ends, Returned, Joining
  <2> QED BY <2>1, <2>2, <2>3 DEF EndSound
<1> QED BY <1>1, <1>2, <1>3, <1>4 DEF StreamInv

LEMMA ClaimStreams == ASSUME StreamInv, Claim PROVE StreamInv'
<1>1. WatchdogInv'
  BY SurroundingsKeep DEF StreamInv
<1>2. /\ poller.at = "poll" /\ ~deferred.executing
      /\ UNCHANGED <<watchdog, workers, calls, descriptor, gate, enders, faults>>
      /\ IsRecord(deferred, {"pending", "executing"}) /\ IsRecord(deferred.pending, ApplyMembers)
      /\ IsRecord(poller, {"at", "claimed"}) /\ IsRecord(poller.claimed, ApplyMembers)
  BY DEF StreamInv, StreamShape, WatchdogInv, WatchdogShape, Claim, OwnsExecution
<1>3. CASE /\ poller' = [poller EXCEPT !.at = "idle"]
           /\ UNCHANGED deferred \/ deferred' = [deferred EXCEPT !.pending = NoApply]
  <2>1. /\ poller'.at = "idle" /\ poller'.claimed = poller.claimed
        /\ IsRecord(deferred', {"pending", "executing"}) /\ deferred'.executing = deferred.executing
        /\ deferred'.pending = deferred.pending \/ deferred'.pending = NoApply
    BY <1>2, <1>3 DEF IsRecord
  <2>2. StreamShape' /\ ClaimsSound'
    BY <1>2, <2>1, ApplyShapes DEF StreamInv, StreamShape, ClaimsSound, Executing
  <2> QED BY <1>1, <1>2, <2>1, <2>2, ClaimMoves DEF Executing
<1>4. CASE /\ poller' = [poller EXCEPT !.at = "idle"] /\ deferred.pending # NoApply
           /\ deferred' = [deferred EXCEPT !.pending.delayed = TRUE]
  <2>1. /\ poller'.at = "idle" /\ poller'.claimed = poller.claimed
        /\ deferred' = [deferred EXCEPT !.pending = [deferred.pending EXCEPT !.delayed = TRUE]]
    BY <1>2, <1>4 DEF IsRecord
  <2>2. /\ IsRecord([deferred.pending EXCEPT !.delayed = TRUE], ApplyMembers)
        /\ [deferred.pending EXCEPT !.delayed = TRUE].launch = deferred.pending.launch
    BY <1>2 DEF IsRecord, ApplyMembers
  <2>3. /\ IsRecord(deferred', {"pending", "executing"}) /\ deferred'.executing = deferred.executing
        /\ IsRecord(deferred'.pending, ApplyMembers) /\ deferred'.pending.launch = deferred.pending.launch
    BY <1>2, <2>1, <2>2 DEF IsRecord
  <2>4. StreamShape' /\ ClaimsSound'
    BY <1>2, <1>4, <2>1, <2>3 DEF StreamInv, StreamShape, ClaimsSound, Executing
  <2> QED BY <1>1, <1>2, <2>1, <2>4, ClaimMoves DEF Executing
<1>5. CASE /\ deferred.pending.delayed /\ gate.live
           /\ deferred' = [pending |-> NoApply, executing |-> TRUE]
           /\ poller' = [at |-> "applying", claimed |-> deferred.pending]
  <2>1. deferred.pending # NoApply
    BY <1>5 DEF NoApply
  <2>2. /\ poller'.at = "applying" /\ poller'.claimed = deferred.pending
        /\ IsRecord(deferred', {"pending", "executing"}) /\ deferred'.executing = TRUE
        /\ deferred'.pending = NoApply
    BY <1>5 DEF IsRecord
  <2>3. gate.at \in {"starting", "streaming"}
    BY <1>5 DEF StreamInv, GateSound
  <2>4. StreamShape' /\ ClaimsSound'
    BY <1>2, <2>1, <2>2, <2>3, ApplyShapes DEF StreamInv, StreamShape, ClaimsSound, Executing
  <2> QED BY <1>1, <1>2, <1>5, <2>2, <2>4, ClaimMoves DEF Executing
<1> QED BY <1>3, <1>4, <1>5 DEF Claim

LEMMA LeaveExecutionStreams == ASSUME StreamInv, LeaveExecution PROVE StreamInv'
<1>1. WatchdogInv'
  BY SurroundingsKeep DEF StreamInv
<1>2. /\ poller.at = "leaving" /\ poller'.at \in {"idle", "idle_check"} /\ poller'.claimed = NoApply
      /\ IsRecord(deferred', {"pending", "executing"}) /\ deferred'.executing = FALSE
      /\ deferred'.pending = deferred.pending
      /\ UNCHANGED <<watchdog, workers, calls, descriptor, gate, enders, faults>>
  BY DEF StreamInv, StreamShape, LeaveExecution, IsRecord
<1>3. StreamShape' /\ ClaimsSound'
  BY <1>2, ApplyShapes DEF StreamInv, StreamShape, ClaimsSound, Executing
<1> QED BY <1>1, <1>2, <1>3, ClaimMoves DEF Executing

(* The deferred APPLY fails and is put back ...                                            *)
LEMMA ExecuteFailsStreams ==
    ASSUME StreamInv, NEW outcome \in DeferredOutcomes, outcome # "applied", Execute(outcome)
    PROVE  StreamInv'
<1>1. WatchdogInv'
  BY SurroundingsKeep DEF StreamInv
<1> DEFINE retry == [poller.claimed EXCEPT !.attempts = @ + 1]
<1>2. /\ poller.at = "applying" /\ poller'.at = "idle" /\ poller'.claimed = NoApply
      /\ UNCHANGED <<watchdog, workers, calls, descriptor, gate, enders, faults>>
      /\ IsRecord(deferred', {"pending", "executing"}) /\ deferred'.executing = FALSE
      /\ deferred'.pending \in {DeferredApply(poller.claimed.launch), deferred.pending, retry}
      /\ deferred.pending = NoApply
  BY DEF StreamInv, ClaimsSound, Executing, Execute, IsRecord
<1>3. IsRecord(retry, ApplyMembers) /\ retry.launch = poller.claimed.launch
  BY DEF StreamInv, StreamShape, IsRecord, ApplyMembers
<1> HIDE DEF retry
<1>4. /\ IsRecord(deferred'.pending, ApplyMembers)
      /\ deferred'.pending = NoApply \/ deferred'.pending.launch = poller.claimed.launch
  BY <1>2, <1>3, ApplyShapes
<1>5. StreamShape' /\ ClaimsSound'
  <2>1. StreamShape'
    BY <1>2, <1>4, ApplyShapes DEF StreamInv, StreamShape
  <2>2. ClaimsSound'
    BY <1>2, <1>4 DEF StreamInv, ClaimsSound, Executing
  <2> QED BY <2>1, <2>2
<1> QED BY <1>1, <1>2, <1>5, ClaimMoves DEF Executing

(* ... or is published, under a new generation unless its launch is shown already.         *)
LEMMA ExecuteAppliesStreams ==
    ASSUME StreamInv, Execute("applied") PROVE StreamInv'
<1>1. WatchdogInv'
  BY SurroundingsKeep DEF StreamInv, DeferredOutcomes
<1>2. /\ poller.at = "applying" /\ poller'.at = "adopting" /\ poller'.claimed = poller.claimed
      /\ UNCHANGED <<watchdog, workers, calls, deferred, enders, faults>>
      /\ gate'.at = gate.at /\ gate'.live = gate.live /\ gate'.launch = gate.launch /\ gate'.app = gate.app
      /\ gate'.started = gate.started /\ gate'.revert_owed = gate.revert_owed
      /\ gate'.forced = gate.forced /\ gate'.kept = gate.kept
      /\ gate'.published => gate.published \/ gate.launch = poller.claimed.launch
  BY DEF StreamInv, WatchdogInv, WatchdogShape, Execute, IsRecord, GateMembers
<1>3. /\ IsRecord(descriptor', {"launch", "generation", "last"})
      /\ descriptor'.launch = poller.claimed.launch
      /\ \/ UNCHANGED descriptor
         \/ descriptor'.generation = descriptor.last + 1 /\ descriptor'.last = descriptor.last + 1
  BY DEF StreamInv, StreamShape, Execute, Published, IsRecord
<1>4. Executing /\ gate.at \notin {"idle", "stopping"}
  BY <1>2 DEF StreamInv, ClaimsSound, Executing
<1>5. StreamShape'
  BY <1>2, <1>3 DEF StreamInv, StreamShape
<1>6. Numbers'
  BY <1>2, <1>3 DEF StreamInv, StreamShape, Numbers
<1>7. GateSound' /\ ClaimsSound'
  BY <1>2 DEF StreamInv, GateSound, ClaimsSound, Executing
<1>8. CallsSound' /\ RunningSound' /\ FaultsSound'
  BY <1>2 DEF StreamInv, CallsSound, RunningSound, FaultsSound, Joining
<1>9. StartSound' /\ StreamIsWatched' /\ DescriptorKept'
  BY <1>2, <1>3 DEF StreamInv, ClaimsSound, StartSound, StreamIsWatched, DescriptorKept
<1>10. ShownIsNew'
  <2>1. CASE UNCHANGED descriptor
    BY <1>2, <2>1 DEF StreamInv, ShownIsNew, InSession, Joining
  <2>2. CASE descriptor'.generation = descriptor.last + 1
    BY <1>2, <2>2 DEF StreamInv, Numbers, ShownIsNew, InSession, Joining
  <2> QED BY <1>3, <2>1, <2>2
<1>11. EndSound'
  BY <1>2, <1>3, <1>4 DEF StreamInv, EndSound, OwnGeneration, CleanupComes, ExecutesWatched,
         NoThreadLeft, NothingShown, MainJoins, MainFindsNothing, Ends, Returned, Joining, Adopting, Executing
<1> QED BY <1>1, <1>5, <1>6, <1>7, <1>8, <1>9, <1>10, <1>11 DEF StreamInv

(* The running watchdog takes the generation of what has been published.                   *)
LEMMA AdoptGenerationStreams == ASSUME StreamInv, AdoptGeneration PROVE StreamInv'
<1>1. WatchdogInv'
  BY SurroundingsKeep DEF StreamInv
<1> DEFINE bound == descriptor.launch = poller.claimed.launch
<1>2. /\ poller.at = "adopting"
      /\ UNCHANGED <<workers, calls, descriptor, gate, enders, faults>>
      /\ IF bound THEN poller'.at = "leaving" /\ poller'.claimed = poller.claimed /\ UNCHANGED deferred
         ELSE /\ poller'.at = "idle" /\ poller'.claimed = NoApply
              /\ IsRecord(deferred', {"pending", "executing"}) /\ deferred'.executing = FALSE
              /\ deferred'.pending = deferred.pending
  BY DEF StreamInv, StreamShape, WatchdogInv, WatchdogShape, AdoptGeneration, IsRecord
<1>3. /\ watchdog'.state = watchdog.state /\ watchdog'.thread = watchdog.thread
      /\ watchdog'.reaping = watchdog.reaping /\ watchdog'.epoch = watchdog.epoch
      /\ IF bound /\ watchdog.state = "running" /\ ~watchdog.reaping
         THEN watchdog'.generation = descriptor.generation /\ watchdog'.torndown = FALSE
         ELSE watchdog'.generation = watchdog.generation /\ watchdog'.torndown = watchdog.torndown
  BY DEF StreamInv, WatchdogInv, WatchdogShape, AdoptGeneration, IsRecord, WatchdogMembers
<1>4. Executing /\ gate.at \notin {"idle", "stopping"}
  BY <1>2 DEF StreamInv, ClaimsSound, Executing
<1>5. StreamShape' /\ Numbers'
  <2>1. StreamShape'
    BY <1>2, ApplyShapes DEF StreamInv, StreamShape
  <2>2. Numbers'
    BY <1>2, <1>3, NumbersKept DEF StreamInv, StreamShape
  <2> QED BY <2>1, <2>2
<1>6. GateSound' /\ ClaimsSound'
  BY <1>2 DEF StreamInv, GateSound, ClaimsSound, Executing
<1>7. CallsSound' /\ RunningSound' /\ FaultsSound'
  <2>1. \A c \in WatchdogThreads : Joining(c) => watchdog.reaping
    BY DEF StreamInv, WatchdogInv, OneOwner
  <2> QED BY <1>2, <1>3, <2>1 DEF StreamInv, CallsSound, RunningSound, FaultsSound, Joining
<1>8. StartSound' /\ StreamIsWatched' /\ DescriptorKept'
  BY <1>2, <1>3 DEF StreamInv, StartSound, StreamIsWatched, DescriptorKept
<1>9. ShownIsNew'
  BY <1>2, <1>3 DEF StreamInv, ClaimsSound, Executing, ShownIsNew, InSession, Joining
<1>10. EndSound'
  BY <1>2, <1>3, <1>4 DEF StreamInv, RunningSound, FaultsSound, EndSound, OwnGeneration, CleanupComes, ExecutesWatched,
         NoThreadLeft, NothingShown, MainJoins, MainFindsNothing, Ends, Returned, Joining, Adopting, Executing
<1> QED BY <1>1, <1>5, <1>6, <1>7, <1>8, <1>9, <1>10 DEF StreamInv

(* The control thread stops the watchdog when it finds that nothing streams.               *)
LEMMA IdleStopStreams == ASSUME StreamInv, IdleStop PROVE StreamInv'
<1>1. WatchdogInv'
  BY BeginningsKeep DEF StreamInv
<1>2. /\ poller.at = "idle_check" /\ poller'.at \in {"idle", "stopping"} /\ poller'.claimed = poller.claimed
      /\ UNCHANGED <<watchdog, workers, descriptor, deferred, gate, enders, faults>>
  BY DEF StreamInv, WatchdogInv, WatchdogShape, IdleStop, IsRecord
<1>3. /\ \A d \in WatchdogThreads : d = "control" \/ calls'[d] = calls[d]
      /\ \/ UNCHANGED calls
         \/ /\ calls'["control"].op = "stop" /\ calls'["control"].at = "loop"
            /\ calls'["control"].generation = 0 /\ calls'["control"].force = FALSE
  <2>1. CASE UNCHANGED calls
    BY <2>1
  <2>2. CASE calls' = [calls EXCEPT !["control"] = StopCall(FALSE)]
    <3>1. IsRecord(StopCall(FALSE), CallMembers) /\ StopCall(FALSE).op = "stop" /\ StopCall(FALSE).at = "loop"
          /\ StopCall(FALSE).generation = 0 /\ StopCall(FALSE).force = FALSE
      BY CallShapes, CallNumbers
    <3>2. calls'["control"] = StopCall(FALSE) /\ \A d \in WatchdogThreads \ {"control"} : calls'[d] = calls[d]
      BY <2>2, <3>1, CallChanges DEF StreamInv, WatchdogInv, WatchdogThreads
    <3> QED BY <3>1, <3>2
  <2> QED BY <2>1, <2>2 DEF IdleStop
<1>4. ~Joining("control") /\ ~Joining("control")'
  BY <1>2, <1>3 DEF StreamInv, WatchdogInv, CallersWait, Joining, WatchdogThreads
<1>5. StreamShape' /\ Numbers'
  <2>1. \A d \in WatchdogThreads : calls'[d].generation \in {0, calls[d].generation}
    BY <1>3
  <2>2. Numbers'
    BY <1>2, <2>1, NumbersKept DEF StreamInv, StreamShape
  <2> QED BY <1>2, <2>2 DEF StreamInv, StreamShape
<1>6. GateSound' /\ ClaimsSound'
  BY <1>2 DEF StreamInv, GateSound, ClaimsSound, Executing
<1>7. CallsSound' /\ RunningSound' /\ FaultsSound'
  <2>1. CallsSound'
    BY <1>2, <1>3 DEF StreamInv, CallsSound, WatchdogThreads
  <2>2. RunningSound' /\ FaultsSound'
    BY <1>2, <1>3, <1>4 DEF StreamInv, RunningSound, FaultsSound, Joining
  <2> QED BY <2>1, <2>2
<1>8. StartSound' /\ StreamIsWatched' /\ DescriptorKept'
  BY <1>2, <1>3 DEF StreamInv, StartSound, StreamIsWatched, DescriptorKept, WatchdogThreads
<1>9. ShownIsNew'
  BY <1>2, <1>3, <1>4 DEF StreamInv, ShownIsNew, InSession, Joining
<1>10. EndSound'
  BY <1>2, <1>3, <1>4 DEF StreamInv, EndSound, OwnGeneration, CleanupComes, ExecutesWatched,
         NoThreadLeft, NothingShown, MainJoins, MainFindsNothing, Ends, Returned, Joining, Adopting, Executing, WatchdogThreads
<1> QED BY <1>1, <1>5, <1>6, <1>7, <1>8, <1>9, <1>10 DEF StreamInv
--------------------------------------------------------------------------------
(* start_watchdog: it is called while a session starts.                                    *)
LEMMA StartIsGates ==
    ASSUME StreamInv, NEW c \in WatchdogThreads, calls[c].op = "start"
    PROVE  c = "gate" /\ gate.at = "starting" /\ gate.live /\ ~gate.started /\ calls["gate"].op = "start"
  BY DEF StreamInv, WatchdogInv, CallersWait, GateSound

(* Such a step leaves alone what is not the watchdog's.                                    *)
LEMMA StartMoves ==
    ASSUME StreamInv, gate.at = "starting", ~gate.started, UNCHANGED <<deferred, gate, poller, enders>>,
           WatchdogInv', IsRecord(descriptor', {"launch", "generation", "last"}),
           IsRecord(faults', {"count", "unstarted"}), faults'.count \in Nat,
           Numbers', CallsSound', RunningSound', FaultsSound', StartSound', ShownIsNew',
           gate.published /\ ~gate.forced => descriptor'.launch = gate.launch,
           faults'.count = 0 => faults.count = 0 /\ OwnGeneration',
           Joining("main") <=> Joining("main")'
    PROVE  StreamInv'
<1>1. StreamShape' /\ GateSound' /\ ClaimsSound'
  BY DEF StreamInv, StreamShape, GateSound, ClaimsSound, Executing
<1>2. StreamIsWatched' /\ DescriptorKept'
  BY DEF StreamIsWatched, DescriptorKept
<1>3. EndSound'
  <2>1. faults'.count = 0 => CleanupComes' /\ ExecutesWatched' /\ NoThreadLeft' /\ NothingShown' /\ MainFindsNothing'
    BY DEF CleanupComes, ExecutesWatched, NoThreadLeft, NothingShown, MainFindsNothing, Ends, Returned
  <2>2. faults'.count = 0 => MainJoins'
    BY DEF StreamInv, EndSound, MainJoins
  <2> QED BY <2>1, <2>2 DEF EndSound
<1> QED BY <1>1, <1>2, <1>3 DEF StreamInv

LEMMA StartBeginStreams ==
    ASSUME StreamInv, NEW c \in WatchdogThreads, StartBegin(c) PROVE StreamInv'
<1>0. c = "gate" /\ gate.at = "starting" /\ gate.live /\ ~gate.started /\ calls["gate"].op = "start"
  BY StartIsGates DEF StartBegin
<1>1. WatchdogInv'
  BY StartBeginKeeps DEF StreamInv
<1>2. /\ calls["gate"].at = "begin" /\ calls'["gate"].at = "loop" /\ calls'["gate"].op = "start"
      /\ calls'["gate"].epoch = watchdog.epoch /\ calls'["gate"].force = calls["gate"].force
      /\ calls'["gate"].generation = calls["gate"].generation
      /\ \A d \in WatchdogThreads : d = "gate" \/ calls'[d] = calls[d]
      /\ UNCHANGED <<watchdog, workers, descriptor, deferred, gate, poller, enders, faults>>
  <2> DEFINE begun == [calls["gate"] EXCEPT !.at = "loop", !.epoch = watchdog.epoch]
  <2>1. calls' = [calls EXCEPT !["gate"] = begun] /\ IsRecord(calls["gate"], CallMembers)
    BY <1>0 DEF StreamInv, WatchdogInv, WatchdogShape, StartBegin, IsRecord, WatchdogThreads
  <2>2. /\ IsRecord(begun, CallMembers) /\ begun.at = "loop" /\ begun.epoch = watchdog.epoch
        /\ begun.op = calls["gate"].op /\ begun.force = calls["gate"].force
        /\ begun.generation = calls["gate"].generation
    BY <2>1 DEF IsRecord, CallMembers
  <2> HIDE DEF begun
  <2>3. calls'["gate"] = begun /\ \A d \in WatchdogThreads \ {"gate"} : calls'[d] = calls[d]
    BY <2>1, <2>2, CallChanges DEF StreamInv, WatchdogInv, WatchdogThreads
  <2> QED BY <1>0, <2>2, <2>3 DEF StartBegin
<1>3. Numbers'
  <2>1. \A d \in WatchdogThreads : calls'[d].generation = calls[d].generation
    BY <1>2
  <2> QED BY <1>2, <2>1, NumbersKept DEF StreamInv, StreamShape
<1>4. CallsSound' /\ RunningSound' /\ FaultsSound' /\ StartSound'
  <2>1. CallsSound' /\ StartSound'
    BY <1>0, <1>2 DEF StreamInv, CallsSound, StartSound, WatchdogThreads
  <2>2. RunningSound' /\ FaultsSound'
    BY <1>0, <1>2 DEF StreamInv, RunningSound, FaultsSound, Joining
  <2> QED BY <2>1, <2>2
<1>5. ShownIsNew'
  BY <1>2 DEF StreamInv, ShownIsNew, InSession, Joining
<1>6. faults.count = 0 => OwnGeneration'
  BY <1>0, <1>2 DEF OwnGeneration, Ends
<1> QED BY <1>0, <1>1, <1>2, <1>3, <1>4, <1>5, <1>6, StartMoves
        DEF StreamInv, StreamShape, DescriptorKept, Joining, WatchdogThreads

(* A new watchdog runs for the session that is shown; or there is none.                    *)
LEMMA NewWatchdogRuns ==
    ASSUME WatchdogShape, StreamShape, workers.alive = {}, workers.asked = {},
           NEW torndown, NewWatchdog(torndown)
    PROVE  /\ watchdog'.reaping = FALSE /\ watchdog'.epoch = watchdog.epoch
           /\ workers'.asked = {} /\ IsRecord(faults', {"count", "unstarted"}) /\ faults'.count \in Nat
           /\ \/ /\ watchdog'.state = "running" /\ watchdog'.torndown = FALSE
                 /\ watchdog'.thread \in workers'.alive /\ watchdog'.thread # 0
                 /\ watchdog'.generation = descriptor'.generation
                 /\ faults'.count = faults.count /\ faults'.unstarted = FALSE
              \/ /\ watchdog'.state = "stopped" /\ watchdog'.thread = watchdog.thread
                 /\ watchdog'.generation = 0 /\ UNCHANGED workers
                 /\ faults'.count = faults.count + 1 /\ faults'.unstarted = TRUE
<1>1. CASE /\ watchdog' = [watchdog EXCEPT !.state = "running", !.thread = Fresh, !.reaping = FALSE,
                                          !.torndown = FALSE, !.generation = descriptor'.generation]
           /\ workers' = [workers EXCEPT !.alive = @ \cup {Fresh}]
           /\ faults' = [faults EXCEPT !.unstarted = FALSE]
  <2>1. Fresh # 0
    BY WatchdogAssumption DEF Fresh
  <2>2. /\ watchdog'.reaping = FALSE /\ watchdog'.epoch = watchdog.epoch /\ watchdog'.state = "running"
        /\ watchdog'.torndown = FALSE /\ watchdog'.thread = Fresh
        /\ watchdog'.generation = descriptor'.generation
    BY <1>1 DEF WatchdogShape, IsRecord, WatchdogMembers
  <2>3. Fresh \in workers'.alive /\ workers'.asked = {}
    BY <1>1 DEF WatchdogShape, IsRecord
  <2>4. /\ IsRecord(faults', {"count", "unstarted"}) /\ faults'.count = faults.count
        /\ faults'.unstarted = FALSE /\ faults'.count \in Nat
    BY <1>1 DEF StreamShape, IsRecord
  <2> QED BY <2>1, <2>2, <2>3, <2>4
<1>2. CASE /\ Fault(TRUE) /\ UNCHANGED workers
           /\ watchdog' = [watchdog EXCEPT !.state = "stopped", !.reaping = FALSE,
                                          !.torndown = torndown, !.generation = 0]
  <2>1. /\ watchdog'.reaping = FALSE /\ watchdog'.epoch = watchdog.epoch /\ watchdog'.state = "stopped"
        /\ watchdog'.thread = watchdog.thread /\ watchdog'.generation = 0
    BY <1>2 DEF WatchdogShape, IsRecord, WatchdogMembers
  <2>2. /\ IsRecord(faults', {"count", "unstarted"}) /\ faults'.count = faults.count + 1
        /\ faults'.unstarted = TRUE /\ faults'.count \in Nat
    BY <1>2 DEF StreamShape, Fault, IsRecord
  <2> QED BY <1>2, <2>1, <2>2
<1> QED BY <1>1, <1>2 DEF NewWatchdog

(* The caller's call afterwards, when it takes the thread or returns.                      *)
LEMMA ReapsTakes ==
    ASSUME WatchdogShape, NEW c \in WatchdogThreads, Reaps(c)
    PROVE  /\ calls'[c].op = calls[c].op /\ calls'[c].at = "join" /\ calls'[c].force = calls[c].force
           /\ calls'[c].epoch = calls[c].epoch
           /\ calls'[c].generation = IF calls[c].force THEN 0 ELSE watchdog.generation
           /\ \A d \in WatchdogThreads : d = c \/ calls'[d] = calls[d]
           /\ workers'.alive = workers.alive
           /\ workers'.asked = workers.asked \cup ({watchdog.thread} \cap workers.alive)
<1> DEFINE generation == IF calls[c].force THEN 0 ELSE watchdog.generation
           joins == [calls[c] EXCEPT !.at = "join", !.worker = watchdog.thread, !.generation = generation]
<1>1. calls' = [calls EXCEPT ![c] = joins] /\ IsRecord(calls[c], CallMembers)
  BY DEF Reaps, WatchdogShape, IsRecord
<1>2. /\ IsRecord(joins, CallMembers) /\ joins.op = calls[c].op /\ joins.at = "join"
      /\ joins.force = calls[c].force /\ joins.epoch = calls[c].epoch
      /\ joins.generation = generation
  BY <1>1 DEF IsRecord, CallMembers
<1> HIDE DEF joins
<1>3. calls'[c] = joins /\ \A d \in WatchdogThreads \ {c} : calls'[d] = calls[d]
  BY <1>1, <1>2, CallChanges
<1>4. /\ workers'.alive = workers.alive
      /\ workers'.asked = workers.asked \cup ({watchdog.thread} \cap workers.alive)
  BY DEF Reaps, Ask, WatchdogShape, IsRecord
<1> QED BY <1>2, <1>3, <1>4

LEMMA ReturnLeaves ==
    ASSUME WatchdogShape, NEW c \in WatchdogThreads, CallReturns(c)
    PROVE  /\ calls'[c].op = "none" /\ calls'[c].at = "" /\ calls'[c].force = FALSE
           /\ calls'[c].generation = 0
           /\ \A d \in WatchdogThreads : d = c \/ calls'[d] = calls[d]
           /\ ~Joining(c)'
<1>1. calls'[c] = NoWatchdogCall /\ calls'[c].op = "none" /\ calls'[c].at = ""
      /\ \A d \in WatchdogThreads \ {c} : calls'[d] = calls[d]
  BY ReturnKeeps
<1>2. calls'[c].force = FALSE /\ calls'[c].generation = 0
  BY <1>1, CallNumbers
<1> QED BY <1>1, <1>2 DEF Joining

LEMMA StartLoopStreams ==
    ASSUME StreamInv, NEW c \in WatchdogThreads, StartLoop(c) PROVE StreamInv'
<1>0. c = "gate" /\ gate.at = "starting" /\ gate.live /\ ~gate.started /\ calls["gate"].op = "start"
  BY StartIsGates DEF StartLoop
<1>1. WatchdogInv'
  BY StartLoopKeeps DEF StreamInv
<1>2. /\ calls["gate"].at = "loop" /\ UNCHANGED <<descriptor, deferred, gate, poller, enders>>
      /\ WatchdogShape /\ StreamShape /\ "gate" \in WatchdogThreads
  BY <1>0 DEF StreamInv, WatchdogInv, StartLoop
<1>3. /\ IsRecord(descriptor', {"launch", "generation", "last"})
      /\ gate.published /\ ~gate.forced => descriptor'.launch = gate.launch
  BY <1>0, <1>2 DEF StreamInv, StreamShape, DescriptorKept
<1>4. CASE /\ CallReturns("gate")
           /\ watchdog.state = "running" \/ watchdog.thread = 0
  <2>1. /\ calls'["gate"].op = "none" /\ calls'["gate"].at = "" /\ calls'["gate"].force = FALSE
        /\ calls'["gate"].generation = 0
        /\ \A d \in WatchdogThreads : d = "gate" \/ calls'[d] = calls[d]
        /\ ~Joining("gate")'
    BY <1>2, <1>4, ReturnLeaves
  <2>2. ~Joining("gate")
    BY <1>2 DEF Joining
  <2>3. CallsSound' /\ (Joining("main") <=> Joining("main")')
    BY <1>0, <1>2, <2>1 DEF StreamInv, CallsSound, Joining, WatchdogThreads
  <2>4. \A d \in WatchdogThreads : calls'[d].generation \in {0, calls[d].generation}
    BY <2>1
  <2>5. CASE UNCHANGED <<workers, faults>> /\ watchdog.state = "running" /\ StartAdopts("gate")
    <3>1. /\ watchdog'.state = "running" /\ watchdog'.thread = watchdog.thread
          /\ watchdog'.reaping = watchdog.reaping /\ watchdog'.epoch = watchdog.epoch
          /\ watchdog'.generation \in {watchdog.generation, descriptor.generation}
          /\ ~watchdog.torndown => ~watchdog'.torndown
          /\ descriptor.launch # 0 => watchdog'.generation = descriptor.generation
      BY <1>2, <2>5 DEF StartAdopts, WatchdogShape, IsRecord, WatchdogMembers
    <3>2. Numbers'
      BY <1>2, <2>4, <3>1, NumbersKept DEF StreamInv, StreamShape
    <3>3. RunningSound' /\ FaultsSound'
      <4>1. \A d \in WatchdogThreads : Joining(d) => watchdog.reaping
        BY DEF StreamInv, WatchdogInv, OneOwner
      <4> QED BY <2>1, <2>2, <2>5, <3>1, <4>1 DEF StreamInv, RunningSound, FaultsSound, Joining
    <3>4. StartSound'
      BY <2>1, <3>1 DEF StartSound
    <3>5. ShownIsNew'
      BY <1>0, <1>2, <2>1, <2>2, <3>1 DEF StreamInv, ShownIsNew, InSession, Joining
    <3>6. OwnGeneration'
      BY <1>2, <3>1 DEF OwnGeneration
    <3> QED BY <1>0, <1>1, <1>2, <1>3, <2>3, <2>5, <3>2, <3>3, <3>4, <3>5, <3>6, StartMoves DEF StreamShape
  <2>6. CASE /\ watchdog.thread = 0 /\ watchdog.epoch # calls["gate"].epoch
             /\ UNCHANGED <<watchdog, workers, faults>>
    <3>1. gate.forced
      BY <1>0, <1>2, <2>6 DEF StreamInv, StartSound
    <3>2. Numbers'
      BY <1>2, <2>4, <2>6, NumbersKept DEF StreamInv, StreamShape
    <3>3. RunningSound' /\ FaultsSound'
      BY <2>1, <2>2, <2>6 DEF StreamInv, RunningSound, FaultsSound, Joining
    <3>4. StartSound' /\ ShownIsNew' /\ OwnGeneration'
      BY <1>2, <2>6, <3>1 DEF StartSound, ShownIsNew, InSession, OwnGeneration
    <3> QED BY <1>0, <1>1, <1>2, <1>3, <2>3, <2>6, <3>2, <3>3, <3>4, StartMoves DEF StreamShape
  <2>7. CASE /\ watchdog.state # "running" /\ ~watchdog.reaping /\ watchdog.thread = 0
             /\ watchdog.epoch = calls["gate"].epoch
             /\ NewWatchdog(watchdog.torndown)
    <3>1. workers.alive = {} /\ workers.asked = {} /\ \A d \in WatchdogThreads : ~Joining(d)
      <4>1. workers.alive = {} /\ \A d \in WatchdogThreads : ~Joining(d)
        BY <2>7, NobodyLeft DEF StreamInv, WatchdogInv, OneOwner
      <4> QED BY <4>1 DEF StreamInv, RunningSound
    <3>2. /\ watchdog'.reaping = FALSE /\ watchdog'.epoch = watchdog.epoch
          /\ workers'.asked = {} /\ IsRecord(faults', {"count", "unstarted"}) /\ faults'.count \in Nat
          /\ \/ /\ watchdog'.state = "running" /\ watchdog'.torndown = FALSE
                /\ watchdog'.thread \in workers'.alive /\ watchdog'.thread # 0
                /\ watchdog'.generation = descriptor'.generation
                /\ faults'.count = faults.count /\ faults'.unstarted = FALSE
             \/ /\ watchdog'.state = "stopped" /\ watchdog'.thread = watchdog.thread
                /\ watchdog'.generation = 0 /\ UNCHANGED workers
                /\ faults'.count = faults.count + 1 /\ faults'.unstarted = TRUE
      BY <1>2, <2>7, <3>1, NewWatchdogRuns
    <3>3. \A d \in WatchdogThreads : ~Joining(d)'
      BY <2>1, <3>1 DEF Joining
    <3>4. Numbers'
      BY <1>2, <2>4, <3>2, NumbersKept DEF StreamInv, StreamShape
    <3>5. RunningSound' /\ FaultsSound'
      BY <1>2, <3>2, <3>3 DEF StreamShape, RunningSound, FaultsSound
    <3>6. StartSound' /\ OwnGeneration'
      BY <2>1, <2>7, <3>2 DEF StartSound, OwnGeneration
    <3>7. ShownIsNew'
      BY <1>0, <1>2, <3>2, <3>3 DEF StreamInv, GateSound, Numbers, ShownIsNew, InSession
    <3>8. faults'.count = 0 => faults.count = 0
      BY <1>2, <3>2 DEF StreamShape
    <3> QED BY <1>0, <1>1, <1>2, <1>3, <2>3, <3>2, <3>4, <3>5, <3>6, <3>7, <3>8, StartMoves
  <2>8. StartLoop("gate")
    BY <1>0
  <2> QED BY <1>4, <2>5, <2>6, <2>7, <2>8 DEF StartLoop
<1>5. CASE /\ watchdog.state # "running" /\ ~watchdog.reaping /\ watchdog.thread # 0
           /\ watchdog' = [watchdog EXCEPT !.state = "stopping", !.thread = 0, !.reaping = TRUE]
           /\ Reaps("gate") /\ UNCHANGED faults
  <2>1. /\ calls'["gate"].op = "start" /\ calls'["gate"].at = "join" /\ calls'["gate"].force = FALSE
        /\ calls'["gate"].epoch = calls["gate"].epoch
        /\ calls'["gate"].generation = watchdog.generation
        /\ \A d \in WatchdogThreads : d = "gate" \/ calls'[d] = calls[d]
        /\ workers'.alive = workers.alive
        /\ workers'.asked = workers.asked \cup ({watchdog.thread} \cap workers.alive)
    <3>1. calls["gate"].force = FALSE
      BY DEF StreamInv, CallsSound
    <3> QED BY <1>0, <1>2, <1>5, <3>1, ReapsTakes
  <2>2. /\ watchdog'.state = "stopping" /\ watchdog'.thread = 0 /\ watchdog'.reaping = TRUE
        /\ watchdog'.epoch = watchdog.epoch /\ watchdog'.generation = watchdog.generation
        /\ watchdog'.torndown = watchdog.torndown
    BY <1>2, <1>5 DEF WatchdogShape, IsRecord, WatchdogMembers
  <2>3. Numbers'
    <3>1. \A d \in WatchdogThreads : calls'[d].generation \in {calls[d].generation, watchdog.generation}
      BY <2>1
    <3> QED BY <1>2, <2>2, <3>1, NumbersKept DEF StreamInv, StreamShape
  <2>4. CallsSound' /\ RunningSound' /\ FaultsSound'
    <3>1. CallsSound'
      <4>1. CallsSound /\ gate' = gate
        BY <1>2 DEF StreamInv
      <4>2. \A d \in WatchdogThreads \ {"gate"} : calls'[d] = calls[d]
        BY <2>1
      <4>3. calls'["gate"].op = "start" /\ calls'["gate"].at = "join" /\ calls'["gate"].force = FALSE
        BY <2>1
      <4> QED BY <4>1, <4>2, <4>3 DEF CallsSound, WatchdogThreads
    <3>2. RunningSound' /\ FaultsSound'
      BY <1>5, <2>1, <2>2 DEF StreamInv, RunningSound, FaultsSound, Joining
    <3> QED BY <3>1, <3>2
  <2>5. StartSound' /\ OwnGeneration'
    BY <1>0, <1>2, <2>1, <2>2 DEF StreamInv, StartSound, OwnGeneration
  <2>6. ShownIsNew'
    BY <1>2, <1>5, <2>1, <2>2 DEF StreamInv, ShownIsNew, InSession, Joining
  <2>7. Joining("main") <=> Joining("main")'
    BY <2>1 DEF Joining, WatchdogThreads
  <2> QED BY <1>0, <1>1, <1>2, <1>3, <1>5, <2>3, <2>4, <2>5, <2>6, <2>7, StartMoves DEF StreamShape
<1>6. StartLoop("gate")
  BY <1>0
<1> QED BY <1>4, <1>5, <1>6 DEF StartLoop, StartAdopts

(* What a cleanup leaves: the descriptor of another session, or none.                      *)
LEMMA TeardownLeaves ==
    ASSUME StreamShape, NEW expected, descriptor' = Teardown(expected)
    PROVE  \/ UNCHANGED descriptor /\ (watchdog.torndown \/ (descriptor.launch # 0 /\ descriptor.generation # expected))
           \/ /\ IsRecord(descriptor', {"launch", "generation", "last"}) /\ descriptor'.last = descriptor.last
              /\ descriptor'.launch = 0 /\ descriptor'.generation = 0
              /\ ~watchdog.torndown /\ (descriptor.launch = 0 \/ descriptor.generation = expected)
  BY DEF StreamShape, Teardown, Cleared, IsRecord

(* The start that has joined the previous watchdog: its cleanup is not this session's.     *)
LEMMA StartJoinedStreams ==
    ASSUME StreamInv, NEW c \in WatchdogThreads, StartJoined(c) PROVE StreamInv'
<1>0. c = "gate" /\ gate.at = "starting" /\ gate.live /\ ~gate.started /\ calls["gate"].op = "start"
  BY StartIsGates DEF StartJoined
<1>1. WatchdogInv'
  BY StartJoinedKeeps DEF StreamInv
<1>2. /\ Joining("gate") /\ MayJoin("gate") /\ CallReturns("gate") /\ "gate" \in WatchdogThreads
      /\ UNCHANGED <<deferred, gate, poller, enders>>
      /\ WatchdogShape /\ StreamShape /\ OneOwner
  BY <1>0 DEF StreamInv, WatchdogInv, StartJoined, Joining
<1>3. /\ calls'["gate"].op = "none" /\ calls'["gate"].at = "" /\ calls'["gate"].force = FALSE
      /\ calls'["gate"].generation = 0
      /\ \A d \in WatchdogThreads : d = "gate" \/ calls'[d] = calls[d]
      /\ ~Joining("gate")'
  BY <1>2, ReturnLeaves
<1>4. workers.alive = {} /\ workers.asked = {} /\ watchdog.thread = 0
  <2>1. workers.alive = {} /\ watchdog.thread = 0
    BY <1>2, NobodyLeft DEF OneOwner
  <2> QED BY <2>1 DEF StreamInv, RunningSound
<1>5. (\A d \in WatchdogThreads : ~Joining(d)') /\ ~Joining("main")
  <2>1. \A d \in WatchdogThreads \ {"gate"} : ~Joining(d)
    BY <1>2 DEF OneOwner
  <2> QED BY <1>3, <2>1 DEF Joining, WatchdogThreads
<1>6. /\ IsRecord(descriptor', {"launch", "generation", "last"}) /\ descriptor'.last = descriptor.last
      /\ UNCHANGED descriptor \/ (descriptor'.launch = 0 /\ descriptor'.generation = 0)
      /\ gate.published /\ ~gate.forced => UNCHANGED descriptor
  <2>1. descriptor' = Teardown(calls["gate"].generation)
    BY <1>0 DEF StartJoined
  <2>2. gate.published /\ ~gate.forced =>
          descriptor.launch # 0 /\ descriptor.generation # calls["gate"].generation
    BY <1>0, <1>2 DEF StreamInv, DescriptorKept, GateSound, ShownIsNew, InSession
  <2> QED BY <1>2, <2>1, <2>2, TeardownLeaves DEF StreamShape
<1>7. /\ IsRecord(descriptor', {"launch", "generation", "last"})
      /\ gate.published /\ ~gate.forced => descriptor'.launch = gate.launch
  BY <1>0, <1>6 DEF StreamInv, DescriptorKept
<1>8. CallsSound'
  BY <1>0, <1>2, <1>3 DEF StreamInv, CallsSound, WatchdogThreads
<1>9. \A d \in WatchdogThreads : calls'[d].generation \in {0, calls[d].generation}
  BY <1>3
<1>10. Joining("main") <=> Joining("main")'
  BY <1>5 DEF Joining, WatchdogThreads
<1>11. CASE /\ watchdog.epoch # calls["gate"].epoch
            /\ watchdog' = [watchdog EXCEPT !.state = "stopped", !.reaping = FALSE,
                                            !.torndown = TRUE, !.generation = 0]
            /\ UNCHANGED <<workers, faults>>
  <2>1. /\ watchdog'.state = "stopped" /\ watchdog'.reaping = FALSE /\ watchdog'.thread = 0
        /\ watchdog'.generation = 0
    BY <1>2, <1>4, <1>11 DEF WatchdogShape, IsRecord, WatchdogMembers
  <2>2. gate.forced
    BY <1>0, <1>2, <1>11 DEF StreamInv, StartSound, Joining
  <2>3. Numbers'
    BY <1>2, <1>6, <1>9, <2>1, NumbersKept DEF StreamInv, StreamShape
  <2>4. RunningSound' /\ FaultsSound'
    BY <1>5, <1>11, <2>1 DEF StreamInv, RunningSound, FaultsSound
  <2>5. StartSound' /\ ShownIsNew' /\ OwnGeneration'
    BY <1>2, <2>1, <2>2 DEF StartSound, ShownIsNew, InSession, OwnGeneration
  <2> QED BY <1>0, <1>1, <1>2, <1>7, <1>8, <1>10, <1>11, <2>3, <2>4, <2>5, StartMoves DEF StreamShape
<1>12. CASE watchdog.epoch = calls["gate"].epoch /\ NewWatchdog(TRUE)
  <2>1. /\ watchdog'.reaping = FALSE /\ watchdog'.epoch = watchdog.epoch
        /\ workers'.asked = {} /\ IsRecord(faults', {"count", "unstarted"}) /\ faults'.count \in Nat
        /\ \/ /\ watchdog'.state = "running" /\ watchdog'.torndown = FALSE
              /\ watchdog'.thread \in workers'.alive /\ watchdog'.thread # 0
              /\ watchdog'.generation = descriptor'.generation
              /\ faults'.count = faults.count /\ faults'.unstarted = FALSE
           \/ /\ watchdog'.state = "stopped" /\ watchdog'.thread = watchdog.thread
              /\ watchdog'.generation = 0 /\ UNCHANGED workers
              /\ faults'.count = faults.count + 1 /\ faults'.unstarted = TRUE
    BY <1>2, <1>4, <1>12, NewWatchdogRuns
  <2>2. Numbers'
    BY <1>2, <1>6, <1>9, <2>1, NumbersKept DEF StreamInv, StreamShape
  <2>3. RunningSound' /\ FaultsSound'
    BY <1>2, <1>4, <1>5, <2>1 DEF StreamShape, RunningSound, FaultsSound
  <2>4. StartSound' /\ OwnGeneration'
    BY <1>3, <1>4, <2>1 DEF StartSound, OwnGeneration
  <2>5. ShownIsNew'
    BY <1>0, <1>2, <1>5, <2>1, <2>2 DEF Numbers, StreamInv, GateSound, ShownIsNew, InSession
  <2>6. faults'.count = 0 => faults.count = 0
    BY <1>2, <2>1 DEF StreamShape
  <2> QED BY <1>0, <1>1, <1>2, <1>7, <1>8, <1>10, <2>1, <2>2, <2>3, <2>4, <2>5, <2>6, StartMoves
<1>13. StartJoined("gate")
  BY <1>0
<1> QED BY <1>11, <1>12, <1>13 DEF StartJoined

(* A join that fails is a system_error, and all that is claimed of ends without one is void. *)
LEMMA JoinFailsStreams ==
    ASSUME StreamInv, NEW c \in WatchdogThreads, JoinFails(c) PROVE StreamInv'
<1>1. WatchdogInv'
  BY JoinFailsKeeps DEF StreamInv
<1>2. /\ Joining(c) /\ CallReturns(c) /\ watchdog.reaping = TRUE
      /\ UNCHANGED <<workers, descriptor, deferred, gate, poller>>
      /\ Fault(faults.unstarted \/ calls[c].op = "start")
      /\ WatchdogShape /\ StreamShape /\ OneOwner
  BY DEF StreamInv, WatchdogInv, OneOwner, JoinFails, Joining
<1>3. /\ calls'[c].op = "none" /\ calls'[c].at = "" /\ calls'[c].force = FALSE
      /\ calls'[c].generation = 0
      /\ \A d \in WatchdogThreads : d = c \/ calls'[d] = calls[d]
      /\ ~Joining(c)'
  BY <1>2, ReturnLeaves
<1>4. /\ watchdog'.state = "stopping" /\ watchdog'.reaping = FALSE /\ watchdog'.epoch = watchdog.epoch
      /\ watchdog'.generation = watchdog.generation /\ watchdog'.torndown = watchdog.torndown
  BY <1>2 DEF JoinFails, WatchdogShape, IsRecord, WatchdogMembers
<1>5. enders'.hotkey = enders.hotkey
  BY <1>2 DEF JoinFails, WatchdogShape, IsRecord, EnderMembers
<1>6. /\ IsRecord(faults', {"count", "unstarted"}) /\ faults'.count \in Nat /\ faults'.count # 0
      /\ faults'.unstarted = (faults.unstarted \/ calls[c].op = "start")
  BY <1>2 DEF StreamShape, Fault, IsRecord
<1>7. \A d \in WatchdogThreads : ~Joining(d)'
  <2>1. \A d \in WatchdogThreads \ {c} : ~Joining(d)
    BY <1>2 DEF OneOwner
  <2> QED BY <1>3, <2>1 DEF Joining
<1>8. watchdog.state # "running"
  BY <1>2 DEF StreamInv, RunningSound
<1>9. StreamShape' /\ Numbers'
  <2>1. \A d \in WatchdogThreads : calls'[d].generation \in {0, calls[d].generation}
    BY <1>3
  <2> QED BY <1>2, <1>4, <1>6, <2>1 DEF StreamInv, StreamShape, Numbers
<1>10. GateSound' /\ ClaimsSound'
  BY <1>2, <1>5 DEF StreamInv, GateSound, ClaimsSound, Executing
<1>11. CallsSound'
  BY <1>2, <1>3, ReturnStaysSound DEF StreamInv
<1>12. RunningSound' /\ FaultsSound'
  BY <1>2, <1>4, <1>6, <1>7 DEF StreamInv, RunningSound, FaultsSound
<1>13. StartSound' /\ StreamIsWatched' /\ DescriptorKept'
  <2>1. c # "gate" => calls'["gate"] = calls["gate"]
    BY <1>3 DEF WatchdogThreads
  <2>2. gate.at = "starting" /\ c = "gate" => calls["gate"].op = "start"
    BY <1>2 DEF StreamInv, WatchdogInv, CallersWait, CallsSound, Joining, WatchdogThreads
  <2>3. StartSound'
    BY <1>2, <1>3, <1>4, <1>6, <1>8, <2>1, <2>2 DEF StreamInv, StartSound
  <2> QED BY <1>2, <1>4, <1>6, <1>8, <2>3 DEF StreamInv, StreamIsWatched, DescriptorKept
<1>14. ShownIsNew'
  BY <1>2, <1>4, <1>7, <1>8 DEF StreamInv, ShownIsNew, InSession
<1> QED BY <1>1, <1>6, <1>9, <1>10, <1>11, <1>12, <1>13, <1>14 DEF StreamInv, EndSound

--------------------------------------------------------------------------------
(* A stop that is not out of date does not meet a session that is shown.                   *)
LEMMA StopsApart ==
    ASSUME StreamInv, NEW c \in WatchdogThreads, calls[c].op = "stop", ~StaleStop(c), InSession
    PROVE  gate.at = "launched" /\ gate.launch # 0 /\ descriptor.launch # gate.launch /\ ~gate.published
<1>1. c # "hotkey" /\ c # "main" /\ c # "gate"
  BY DEF StreamInv, WatchdogInv, CallersWait, MainLast, CallsSound, GateSound, InSession, WatchdogThreads
<1>2. calls[c].force = FALSE
  BY <1>1 DEF StreamInv, CallsSound, WatchdogThreads
<1>3. gate.at = "launched" /\ gate.launch # 0
  BY <1>2 DEF StreamInv, GateSound, StaleStop, InSession
<1>4. descriptor.launch # gate.launch
  BY <1>2, <1>3 DEF StreamInv, ShownIsNew, StaleStop
<1> QED BY <1>3, <1>4 DEF StreamInv, DescriptorKept, InSession

(* A stop leaves alone what is not the watchdog's or its session's.                        *)
LEMMA StopMoves ==
    ASSUME StreamInv, UNCHANGED <<deferred, gate, poller, enders, faults>>, WatchdogInv',
           \/ UNCHANGED descriptor
           \/ /\ IsRecord(descriptor', {"launch", "generation", "last"}) /\ descriptor'.last = descriptor.last
              /\ descriptor'.launch = 0 /\ descriptor'.generation = 0,
           watchdog'.generation \in {0, watchdog.generation},
           \A d \in WatchdogThreads : calls'[d].generation \in {0, calls[d].generation, watchdog.generation},
           CallsSound', RunningSound', FaultsSound', StartSound', StreamIsWatched', ShownIsNew', DescriptorKept',
           EndSound'
    PROVE  StreamInv'
<1>1. StreamShape' /\ GateSound' /\ ClaimsSound'
  BY DEF StreamInv, StreamShape, GateSound, ClaimsSound, Executing
<1>2. Numbers'
  BY NumbersKept DEF StreamInv, StreamShape
<1> QED BY <1>1, <1>2 DEF StreamInv

(* Nothing to stop, or a stop that is out of date.                                         *)
LEMMA StopReturnsStreams ==
    ASSUME StreamInv, NEW c \in WatchdogThreads, StopLoop(c), WatchdogInv',
           (watchdog.thread = 0 /\ ~watchdog.reaping) \/ StaleStop(c),
           CallReturns(c), UNCHANGED <<watchdog, workers, descriptor>>
    PROVE  StreamInv'
<1>1. /\ calls[c].op = "stop" /\ calls[c].at = "loop" /\ UNCHANGED <<deferred, gate, poller, enders, faults>>
      /\ WatchdogShape /\ OneOwner
  BY DEF StreamInv, WatchdogInv, StopLoop
<1>2. /\ calls'[c].op = "none" /\ calls'[c].at = "" /\ calls'[c].force = FALSE
      /\ calls'[c].generation = 0
      /\ \A d \in WatchdogThreads : d = c \/ calls'[d] = calls[d]
      /\ ~Joining(c)' /\ ~Joining(c)
  BY <1>1, ReturnLeaves DEF Joining
<1>3. \A d \in WatchdogThreads : calls'[d].generation \in {0, calls[d].generation, watchdog.generation}
  BY <1>2
<1>4. CallsSound' /\ RunningSound' /\ FaultsSound'
  <2>1. CallsSound'
    BY <1>1, <1>2, ReturnStaysSound DEF StreamInv
  <2>2. RunningSound' /\ FaultsSound'
    BY <1>1, <1>2 DEF StreamInv, RunningSound, FaultsSound, Joining
  <2> QED BY <2>1, <2>2
<1>5. c = "gate" => gate.at = "stopping" /\ ~gate.live /\ calls["control"] = calls'["control"]
  BY <1>1, <1>2 DEF StreamInv, CallsSound, GateSound, WatchdogThreads
<1>6. c # "gate" => calls'["gate"] = calls["gate"]
  BY <1>2 DEF WatchdogThreads
<1>7. StartSound' /\ StreamIsWatched' /\ DescriptorKept'
  BY <1>1, <1>5, <1>6 DEF StreamInv, StartSound, StreamIsWatched, DescriptorKept
<1>8. ShownIsNew'
  BY <1>1, <1>2 DEF StreamInv, ShownIsNew, InSession, Joining
<1>9. ASSUME faults.count = 0, c = "gate" PROVE watchdog.thread = 0 /\ (~gate.forced => descriptor.launch = 0) /\ ~Joining("main")
  <2>1. ~Executing /\ Ends /\ ~gate.live
    BY <1>5, <1>9 DEF StreamInv, ClaimsSound, Ends
  <2>2. watchdog.thread = 0
    <3>1. CASE StaleStop(c)
      BY <1>9, <2>1, <3>1 DEF StreamInv, EndSound, OwnGeneration, StaleStop, Adopting, Executing
    <3> QED BY <3>1
  <2>3. watchdog.state # "running"
    BY <2>2 DEF StreamInv, RunningSound, WatchdogInv, OneOwner
  <2>4. ~gate.forced => descriptor.launch = 0
    <3>1. SUFFICES ASSUME ~gate.forced, descriptor.launch # 0 PROVE FALSE
      OBVIOUS
    <3>2. /\ Joining("control") /\ calls["control"].generation = descriptor.generation
      BY <1>2, <1>9, <2>1, <2>3, <3>1 DEF StreamInv, EndSound, CleanupComes
    <3>3. "control" \in WatchdogThreads /\ calls["control"].force = FALSE
      BY DEF StreamInv, CallsSound, WatchdogThreads
    <3>4. watchdog.reaping /\ calls["control"].generation = watchdog.generation
      BY <1>1, <3>2, <3>3 DEF StreamInv, RunningSound, OneOwner
    <3> QED BY <2>1, <3>2, <3>4 DEF StaleStop
  <2>5. ~Joining("main")
    <3>1. SUFFICES ASSUME Joining("main") PROVE FALSE
      OBVIOUS
    <3>2. "main" \in WatchdogThreads
      BY DEF WatchdogThreads
    <3>3. enders.main = "stopping"
      BY <3>1, <3>2 DEF StreamInv, WatchdogInv, CallersWait, Joining
    <3>4. watchdog.reaping
      BY <1>1, <3>1, <3>2 DEF OneOwner
    <3>5. descriptor.launch = 0
      BY <1>5, <1>9, <3>3 DEF StreamInv, EndSound, MainFindsNothing
    <3> QED BY <2>1, <3>4, <3>5 DEF StaleStop
  <2> QED BY <2>2, <2>4, <2>5
<1>10. EndSound'
  <2>1. \A d \in WatchdogThreads : Joining(d)' <=> Joining(d)
    BY <1>2 DEF Joining
  <2>2. \A d \in {"gate", "control"} : Joining(d) => calls'[d] = calls[d]
    BY <1>2 DEF WatchdogThreads
  <2>3. Joining("main")' <=> Joining("main")
    BY <2>1 DEF Joining, WatchdogThreads
  <2>4. Joining("gate")' <=> Joining("gate")
    BY <2>1 DEF Joining, WatchdogThreads
  <2>5. Joining("control")' <=> Joining("control")
    BY <2>1 DEF Joining, WatchdogThreads
  <2>6. faults'.count = 0 => OwnGeneration' /\ ExecutesWatched' /\ MainFindsNothing'
    BY <1>1, <1>5, <1>6 DEF StreamInv, EndSound, OwnGeneration, ExecutesWatched, MainFindsNothing, Ends, Adopting, Executing
  <2>7. faults'.count = 0 => CleanupComes'
    BY <1>1, <2>2, <2>4, <2>5 DEF StreamInv, EndSound, CleanupComes, Ends
  <2>8. faults'.count = 0 => NoThreadLeft' /\ NothingShown'
    BY <1>1, <1>6, <1>9 DEF StreamInv, EndSound, NoThreadLeft, NothingShown, Returned
  <2>9. faults'.count = 0 => MainJoins'
    BY <1>1, <1>6, <1>9, <2>3 DEF StreamInv, EndSound, MainJoins
  <2> QED BY <2>6, <2>7, <2>8, <2>9 DEF EndSound
<1> QED BY <1>1, <1>3, <1>4, <1>7, <1>8, <1>10, StopMoves

(* Another caller joins: the stop waits for it.                                            *)
LEMMA StopWaitsStreams ==
    ASSUME StreamInv, NEW c \in WatchdogThreads, StopLoop(c), WatchdogInv', ~StaleStop(c), watchdog.reaping,
           watchdog' = [watchdog EXCEPT !.epoch = @ + 1, !.state = "stopping"],
           calls' = [calls EXCEPT ![c].at = "wait"], UNCHANGED <<workers, descriptor>>
    PROVE  StreamInv'
<1>1. /\ calls[c].op = "stop" /\ calls[c].at = "loop" /\ UNCHANGED <<deferred, gate, poller, enders, faults>>
      /\ WatchdogShape /\ OneOwner
  BY DEF StreamInv, WatchdogInv, StopLoop
<1>2. /\ calls'[c].op = "stop" /\ calls'[c].at = "wait" /\ calls'[c].force = calls[c].force
      /\ calls'[c].generation = calls[c].generation
      /\ \A d \in WatchdogThreads : d = c \/ calls'[d] = calls[d]
      /\ ~Joining(c)' /\ ~Joining(c)
  BY <1>1 DEF WatchdogShape, IsRecord, CallMembers, Joining
<1>3. /\ watchdog'.state = "stopping" /\ watchdog'.thread = watchdog.thread /\ watchdog'.reaping = watchdog.reaping
      /\ watchdog'.generation = watchdog.generation /\ watchdog'.torndown = watchdog.torndown
  BY <1>1 DEF WatchdogShape, IsRecord, WatchdogMembers
<1>4. watchdog.thread = 0 /\ watchdog.state # "running"
  BY DEF StreamInv, RunningSound
<1>5. CallsSound' /\ RunningSound' /\ FaultsSound'
  <2>1. CallsSound'
    <3>1. /\ c \in {"gate", "control"} => calls[c].force = FALSE
          /\ c = "gate" => gate.at = "stopping"
      BY <1>1 DEF StreamInv, CallsSound
    <3> QED BY <1>1, <1>2, <3>1, StopStaysSound DEF StreamInv
  <2>2. RunningSound' /\ FaultsSound'
    BY <1>1, <1>2, <1>3, <1>4 DEF StreamInv, RunningSound, FaultsSound, Joining
  <2> QED BY <2>1, <2>2
<1>6. InSession => gate.at = "launched" /\ gate.launch # 0 /\ descriptor.launch # gate.launch /\ ~gate.published
  BY <1>1, StopsApart
<1>7. StartSound' /\ StreamIsWatched' /\ DescriptorKept' /\ ShownIsNew'
  BY <1>1, <1>6 DEF StartSound, StreamIsWatched, DescriptorKept, ShownIsNew, InSession
<1>8. EndSound'
  <2>1. \A d \in WatchdogThreads : Joining(d)' <=> Joining(d)
    BY <1>2 DEF Joining
  <2>2. \A d \in {"gate", "control"} : Joining(d) => calls'[d] = calls[d]
    BY <1>2 DEF WatchdogThreads
  <2>3. Joining("main")' <=> Joining("main")
    BY <2>1 DEF Joining, WatchdogThreads
  <2>4. Joining("gate")' <=> Joining("gate")
    BY <2>1 DEF Joining, WatchdogThreads
  <2>5. Joining("control")' <=> Joining("control")
    BY <2>1 DEF Joining, WatchdogThreads
  <2>6. /\ calls'["gate"].op = calls["gate"].op
        /\ calls'["gate"].at = calls["gate"].at \/ (calls["gate"].at = "loop" /\ calls'["gate"].at = "wait")
    BY <1>1, <1>2 DEF WatchdogThreads
  <2>7. faults'.count = 0 => OwnGeneration' /\ ExecutesWatched' /\ MainFindsNothing'
    BY <1>1, <1>3, <1>4, <2>6 DEF StreamInv, EndSound, OwnGeneration, ExecutesWatched, MainFindsNothing, Ends, Adopting, Executing
  <2>8. faults'.count = 0 => CleanupComes'
    BY <1>1, <1>3, <1>4, <2>2, <2>4, <2>5 DEF StreamInv, EndSound, CleanupComes, Ends
  <2>9. faults'.count = 0 => NoThreadLeft' /\ NothingShown'
    BY <1>1, <1>3, <1>4, <2>6 DEF StreamInv, EndSound, NoThreadLeft, NothingShown, Returned
  <2>10. faults'.count = 0 => MainJoins'
    BY <1>1, <2>3, <2>6 DEF StreamInv, EndSound, MainJoins
  <2> QED BY <2>7, <2>8, <2>9, <2>10 DEF EndSound
<1>9. \A d \in WatchdogThreads : calls'[d].generation \in {0, calls[d].generation, watchdog.generation}
  BY <1>2
<1> QED BY <1>1, <1>3, <1>5, <1>7, <1>8, <1>9, StopMoves

(* Nobody joins and the thread is gone: the stop does the cleanup itself.                  *)
LEMMA StopCleansStreams ==
    ASSUME StreamInv, NEW c \in WatchdogThreads, StopLoop(c), WatchdogInv', ~StaleStop(c),
           ~watchdog.reaping, watchdog.thread = 0, NEW expected, descriptor' = Teardown(expected),
           watchdog' = [[watchdog EXCEPT !.epoch = @ + 1, !.state = "stopping"]
                          EXCEPT !.state = "stopped", !.torndown = TRUE, !.generation = 0],
           CallReturns(c), UNCHANGED workers
    PROVE  StreamInv'
<1>1. /\ calls[c].op = "stop" /\ calls[c].at = "loop" /\ UNCHANGED <<deferred, gate, poller, enders, faults>>
      /\ WatchdogShape /\ StreamShape /\ OneOwner
  BY DEF StreamInv, WatchdogInv, StopLoop
<1>2. /\ calls'[c].op = "none" /\ calls'[c].at = "" /\ calls'[c].force = FALSE
      /\ calls'[c].generation = 0
      /\ \A d \in WatchdogThreads : d = c \/ calls'[d] = calls[d]
      /\ ~Joining(c)'
  BY <1>1, ReturnLeaves
<1>3. /\ watchdog'.state = "stopped" /\ watchdog'.thread = 0 /\ watchdog'.reaping = watchdog.reaping
      /\ watchdog'.generation = 0
  BY <1>1 DEF WatchdogShape, IsRecord, WatchdogMembers
<1>4. watchdog.state # "running"
  BY <1>1 DEF StreamInv, RunningSound, OneOwner
<1>5. \A d \in WatchdogThreads : ~Joining(d) /\ ~Joining(d)'
  <2>1. \A d \in WatchdogThreads : ~Joining(d)
    BY <1>1 DEF OneOwner
  <2> QED BY <1>2, <2>1 DEF Joining
<1>6. \/ UNCHANGED descriptor
      \/ /\ IsRecord(descriptor', {"launch", "generation", "last"}) /\ descriptor'.last = descriptor.last
         /\ descriptor'.launch = 0 /\ descriptor'.generation = 0
  BY <1>1, TeardownLeaves
<1>7. CallsSound' /\ RunningSound' /\ FaultsSound'
  <2>1. CallsSound'
    BY <1>1, <1>2, ReturnStaysSound DEF StreamInv
  <2>2. RunningSound' /\ FaultsSound'
    BY <1>1, <1>3, <1>5 DEF StreamInv, RunningSound, FaultsSound
  <2> QED BY <2>1, <2>2
<1>8. InSession => gate.at = "launched" /\ gate.launch # 0 /\ descriptor.launch # gate.launch /\ ~gate.published
  BY <1>1, StopsApart
<1>9. StartSound' /\ StreamIsWatched' /\ DescriptorKept' /\ ShownIsNew'
  BY <1>1, <1>6, <1>8 DEF StartSound, StreamIsWatched, DescriptorKept, ShownIsNew, InSession
<1>10. ~Joining("gate") /\ ~Joining("control") /\ ~Joining("main")'
  BY <1>5 DEF Joining, WatchdogThreads
<1>11. faults.count = 0 /\ Ends /\ ~gate.forced => descriptor.launch = 0
  BY <1>4, <1>10 DEF StreamInv, EndSound, CleanupComes
<1>12. EndSound'
  <2>1. /\ c = "gate" => gate.at = "stopping"
        /\ c # "gate" => calls'["gate"] = calls["gate"]
    BY <1>1, <1>2 DEF StreamInv, CallsSound, WatchdogThreads
  <2>2. faults'.count = 0 => OwnGeneration' /\ ExecutesWatched' /\ NoThreadLeft'
    BY <1>1, <1>3, <1>4 DEF StreamInv, EndSound, OwnGeneration, ExecutesWatched, NoThreadLeft, Executing
  <2>3. faults'.count = 0 => CleanupComes' /\ MainFindsNothing'
    BY <1>1, <1>6, <1>11 DEF StreamInv, EndSound, CleanupComes, MainFindsNothing, Ends
  <2>4. faults'.count = 0 => NothingShown'
    BY <1>1, <1>6, <1>11, <2>1 DEF StreamInv, EndSound, NothingShown, Returned, Ends
  <2> QED BY <1>10, <2>2, <2>3, <2>4 DEF EndSound, MainJoins
<1>13. \A d \in WatchdogThreads : calls'[d].generation \in {0, calls[d].generation, watchdog.generation}
  BY <1>2
<1> QED BY <1>1, <1>3, <1>6, <1>7, <1>9, <1>12, <1>13, StopMoves

(* The stop takes the thread; of a session that ends it takes the generation with it.      *)
LEMMA StopReapsStreams ==
    ASSUME StreamInv, NEW c \in WatchdogThreads, StopLoop(c), WatchdogInv', ~StaleStop(c),
           ~watchdog.reaping, watchdog.thread # 0, Reaps(c), UNCHANGED descriptor,
           watchdog' = [[watchdog EXCEPT !.epoch = @ + 1, !.state = "stopping"] EXCEPT !.thread = 0, !.reaping = TRUE]
    PROVE  StreamInv'
<1>1. /\ calls[c].op = "stop" /\ calls[c].at = "loop" /\ UNCHANGED <<deferred, gate, poller, enders, faults>>
      /\ WatchdogShape /\ OneOwner
  BY DEF StreamInv, WatchdogInv, StopLoop
<1>2. /\ calls'[c].op = calls[c].op /\ calls'[c].at = "join" /\ calls'[c].force = calls[c].force
      /\ calls'[c].generation = IF calls[c].force THEN 0 ELSE watchdog.generation
      /\ \A d \in WatchdogThreads : d = c \/ calls'[d] = calls[d]
      /\ workers'.alive = workers.alive
      /\ workers'.asked = workers.asked \cup ({watchdog.thread} \cap workers.alive)
      /\ Joining(c)'
  BY <1>1, ReapsTakes DEF Joining
<1>3. /\ watchdog'.state = "stopping" /\ watchdog'.thread = 0 /\ watchdog'.reaping = TRUE
      /\ watchdog'.generation = watchdog.generation /\ watchdog'.torndown = watchdog.torndown
  BY <1>1 DEF WatchdogShape, IsRecord, WatchdogMembers
<1>4. \A d \in WatchdogThreads : ~Joining(d) /\ (d = c \/ ~Joining(d)')
  <2>1. \A d \in WatchdogThreads : ~Joining(d)
    BY <1>1 DEF OneOwner
  <2> QED BY <1>2, <2>1 DEF Joining
<1>5. CallsSound' /\ RunningSound' /\ FaultsSound'
  <2>1. CallsSound'
    <3>1. /\ c \in {"gate", "control"} => calls[c].force = FALSE
          /\ c = "gate" => gate.at = "stopping"
      BY <1>1 DEF StreamInv, CallsSound
    <3> QED BY <1>1, <1>2, <3>1, StopStaysSound DEF StreamInv
  <2>2. RunningSound'
    BY <1>2, <1>3, <1>4 DEF StreamInv, RunningSound
  <2>3. FaultsSound'
    BY <1>1, <1>3 DEF StreamInv, FaultsSound
  <2> QED BY <2>1, <2>2, <2>3
<1>6. InSession => gate.at = "launched" /\ gate.launch # 0 /\ descriptor.launch # gate.launch /\ ~gate.published
  BY <1>1, StopsApart
<1>7. StartSound' /\ StreamIsWatched' /\ DescriptorKept' /\ ShownIsNew'
  BY <1>1, <1>6 DEF StartSound, StreamIsWatched, DescriptorKept, ShownIsNew, InSession
<1>8. /\ c = "gate" => gate.at = "stopping"
      /\ c = "control" => ~Executing
      /\ c = "hotkey" => gate.forced
      /\ c = "main" => enders.main = "stopping" /\ gate.at \in {"idle", "stopping"}
      /\ c \in {"gate", "control"} => calls[c].force = FALSE
  BY <1>1 DEF StreamInv, WatchdogInv, CallersWait, MainLast, CallsSound, GateSound, Executing
<1>9. /\ calls'["gate"].op = calls["gate"].op
      /\ c # "gate" => calls'["gate"] = calls["gate"]
  BY <1>2 DEF WatchdogThreads
<1>10. gate.started => gate.at \in {"streaming", "ending"}
  BY DEF StreamInv, GateSound
<1>11. faults'.count = 0 => OwnGeneration' /\ NoThreadLeft' /\ NothingShown' /\ MainFindsNothing'
  BY <1>1, <1>3, <1>9 DEF StreamInv, EndSound, OwnGeneration, NoThreadLeft, NothingShown, MainFindsNothing, Returned
<1>12. faults'.count = 0 => ExecutesWatched'
  BY <1>1, <1>8, <1>10 DEF ExecutesWatched, Executing, WatchdogThreads
<1>13. faults'.count = 0 => CleanupComes'
  <2>1. SUFFICES ASSUME faults.count = 0, Ends, ~gate.forced, descriptor.launch # 0
                 PROVE  /\ Joining(c)' /\ calls'[c].generation = descriptor.generation /\ ~watchdog.torndown
                        /\ c \in {"gate", "control"}
    BY <1>1, <1>3 DEF CleanupComes, Ends
  <2>2. c # "main"
    BY <1>8, <1>10, <2>1 DEF StreamInv, EndSound, MainFindsNothing, Ends
  <2>3. c \in {"gate", "control"}
    BY <1>8, <2>1, <2>2 DEF WatchdogThreads
  <2>4. watchdog.generation = descriptor.generation
    BY <1>8, <2>1, <2>3 DEF StaleStop
  <2>5. ~Joining("gate") /\ ~Joining("control")
    BY <1>4 DEF WatchdogThreads
  <2>6. ~watchdog.torndown
    BY <2>1, <2>5 DEF StreamInv, RunningSound, EndSound, CleanupComes
  <2> QED BY <1>2, <1>8, <2>3, <2>4, <2>6
<1>14. faults'.count = 0 => MainJoins'
  <2>1. SUFFICES ASSUME faults.count = 0, Joining("main")'
                 PROVE  \/ gate.at = "idle" /\ gate.kept
                        \/ gate.at = "stopping" /\ calls["gate"].op = "stop" /\ calls["gate"].at \in {"loop", "wait"}
                           /\ c # "gate"
    BY <1>1, <1>9 DEF MainJoins
  <2>2. c = "main"
    BY <1>4, <2>1 DEF Joining, WatchdogThreads
  <2>3. calls["gate"].op # "start"
    BY <1>8, <2>2 DEF StreamInv, WatchdogInv, CallersWait, WatchdogThreads
  <2>4. calls["gate"].op = "stop" => calls["gate"].at \in {"loop", "wait", "join"}
    BY DEF StreamInv, CallsSound, WatchdogThreads
  <2>5. calls["gate"].op \in {"none", "start", "stop"}
    BY DEF StreamInv, CallsSound, WatchdogThreads
  <2> QED BY <1>8, <2>1, <2>2, <2>3, <2>4, <2>5 DEF StreamInv, EndSound, NoThreadLeft, Returned
<1>15. EndSound'
  BY <1>11, <1>12, <1>13, <1>14 DEF EndSound
<1>16. \A d \in WatchdogThreads : calls'[d].generation \in {0, calls[d].generation, watchdog.generation}
  BY <1>2
<1> QED BY <1>1, <1>3, <1>5, <1>7, <1>15, <1>16, StopMoves

LEMMA StopLoopStreams ==
    ASSUME StreamInv, NEW c \in WatchdogThreads, StopLoop(c) PROVE StreamInv'
<1>1. WatchdogInv'
  BY StopLoopKeeps DEF StreamInv
<1>2. CASE /\ (watchdog.thread = 0 /\ ~watchdog.reaping) \/ StaleStop(c)
           /\ CallReturns(c) /\ UNCHANGED <<watchdog, workers, descriptor>>
  BY <1>1, <1>2, StopReturnsStreams
<1>3. CASE /\ ~StaleStop(c) /\ watchdog.reaping
           /\ watchdog' = [watchdog EXCEPT !.epoch = @ + 1, !.state = "stopping"]
           /\ calls' = [calls EXCEPT ![c].at = "wait"] /\ UNCHANGED <<workers, descriptor>>
  BY <1>1, <1>3, StopWaitsStreams
<1>4. CASE /\ ~StaleStop(c) /\ ~watchdog.reaping /\ watchdog.thread = 0
           /\ watchdog' = [[watchdog EXCEPT !.epoch = @ + 1, !.state = "stopping"]
                             EXCEPT !.state = "stopped", !.torndown = TRUE, !.generation = 0]
           /\ descriptor' = Teardown(IF calls[c].force THEN 0 ELSE watchdog.generation)
           /\ CallReturns(c) /\ UNCHANGED workers
  BY <1>1, <1>4, StopCleansStreams
<1>5. CASE /\ ~StaleStop(c) /\ ~watchdog.reaping /\ watchdog.thread # 0
           /\ watchdog' = [[watchdog EXCEPT !.epoch = @ + 1, !.state = "stopping"] EXCEPT !.thread = 0, !.reaping = TRUE]
           /\ Reaps(c) /\ UNCHANGED descriptor
  BY <1>1, <1>5, StopReapsStreams
<1> QED BY <1>2, <1>3, <1>4, <1>5 DEF StopLoop

(* The stop that has waited: a forced one begins again, the others leave it at that.       *)
LEMMA StopWaitStreams ==
    ASSUME StreamInv, NEW c \in WatchdogThreads, StopWait(c) PROVE StreamInv'
<1>1. WatchdogInv'
  BY StopWaitKeeps DEF StreamInv
<1>2. /\ calls[c].op = "stop" /\ calls[c].at = "wait" /\ ~watchdog.reaping /\ StopWaited(c)
      /\ UNCHANGED <<watchdog, workers, descriptor, deferred, gate, poller, enders, faults>>
      /\ WatchdogShape /\ OneOwner
  BY DEF StreamInv, WatchdogInv, StopWait, CallsSound
<1>3. /\ calls'[c].generation \in {0, calls[c].generation}
      /\ \/ calls'[c].op = "stop" /\ calls'[c].at = "loop" /\ calls[c].force
         \/ calls'[c].op = "none" /\ calls'[c].at = "" /\ calls'[c].force = FALSE
      /\ \A d \in WatchdogThreads : d = c \/ calls'[d] = calls[d]
  <2>1. CASE CallReturns(c)
    BY <1>2, <2>1, ReturnLeaves
  <2>2. CASE calls' = [calls EXCEPT ![c].at = "loop"] /\ calls[c].force
    <3>1. IsRecord(calls, WatchdogThreads) /\ IsRecord(calls[c], CallMembers)
      BY <1>2 DEF WatchdogShape
    <3>2. calls'[c] = [calls[c] EXCEPT !.at = "loop"] /\ \A d \in WatchdogThreads : d = c \/ calls'[d] = calls[d]
      BY <2>2, <3>1 DEF IsRecord
    <3> QED BY <1>2, <2>2, <3>1, <3>2 DEF IsRecord, CallMembers
  <2> QED BY <1>2, <2>1, <2>2 DEF StopWaited
<1>4. \A d \in WatchdogThreads : ~Joining(d) /\ ~Joining(d)'
  <2>1. \A d \in WatchdogThreads : ~Joining(d)
    BY <1>2 DEF OneOwner
  <2> QED BY <1>3, <2>1 DEF Joining
<1>5. CallsSound' /\ RunningSound' /\ FaultsSound'
  <2>1. CallsSound'
    <3>1. CASE calls'[c].op = "none"
      <4>1. calls'[c].at = "" /\ calls'[c].force = FALSE
        BY <1>3, <3>1
      <4> QED BY <1>2, <1>3, <3>1, <4>1, ReturnStaysSound DEF StreamInv
    <3>2. CASE calls'[c].op = "stop"
      <4>1. calls'[c].at = "loop" /\ calls[c].force
        BY <1>3, <3>2
      <4>2. c \notin {"gate", "control"}
        BY <4>1 DEF StreamInv, CallsSound
      <4> QED BY <1>2, <1>3, <3>2, <4>1, <4>2, StopStaysSound DEF StreamInv
    <3> QED BY <1>3, <3>1, <3>2
  <2>2. RunningSound' /\ FaultsSound'
    BY <1>2, <1>4 DEF StreamInv, RunningSound, FaultsSound
  <2> QED BY <2>1, <2>2
<1>6. /\ c = "gate" => gate.at = "stopping" /\ calls'["gate"].op = "none"
      /\ c # "gate" => calls'["gate"] = calls["gate"]
  BY <1>2, <1>3 DEF StreamInv, CallsSound, WatchdogThreads
<1>7. StartSound' /\ StreamIsWatched' /\ DescriptorKept' /\ ShownIsNew'
  BY <1>2, <1>4, <1>6 DEF StreamInv, StartSound, StreamIsWatched, DescriptorKept, ShownIsNew, InSession
<1>8. ~Joining("gate") /\ ~Joining("control") /\ ~Joining("main")'
  BY <1>4 DEF Joining, WatchdogThreads
<1>9. ASSUME faults.count = 0, c = "gate" PROVE watchdog.thread = 0 /\ (~gate.forced => descriptor.launch = 0)
  <2>1. watchdog.thread = 0
    BY <1>2, <1>6, <1>9 DEF StreamInv, EndSound, NoThreadLeft
  <2>2. watchdog.state # "running"
    BY <2>1 DEF StreamInv, RunningSound, WatchdogInv, OneOwner
  <2> QED BY <1>6, <1>8, <1>9, <2>1, <2>2 DEF StreamInv, EndSound, CleanupComes, Ends
<1>10. EndSound'
  <2>1. faults'.count = 0 => OwnGeneration' /\ ExecutesWatched' /\ MainFindsNothing'
    BY <1>2, <1>6 DEF StreamInv, EndSound, OwnGeneration, ExecutesWatched, MainFindsNothing, Ends, Adopting, Executing
  <2>2. faults'.count = 0 => CleanupComes'
    BY <1>2, <1>8 DEF StreamInv, EndSound, CleanupComes, Ends
  <2>3. faults'.count = 0 => NoThreadLeft' /\ NothingShown'
    BY <1>2, <1>6, <1>9 DEF StreamInv, EndSound, NoThreadLeft, NothingShown, Returned
  <2> QED BY <1>8, <2>1, <2>2, <2>3 DEF EndSound, MainJoins
<1>11. \A d \in WatchdogThreads : calls'[d].generation \in {0, calls[d].generation, watchdog.generation}
  BY <1>3
<1> QED BY <1>1, <1>2, <1>5, <1>7, <1>10, <1>11, StopMoves

(* The stop has joined: the cleanup is that of the generation it took with the thread.     *)
LEMMA StopJoinedStreams ==
    ASSUME StreamInv, NEW c \in WatchdogThreads, StopJoined(c) PROVE StreamInv'
<1>1. WatchdogInv'
  BY StopJoinedKeeps DEF StreamInv
<1>2. /\ calls[c].op = "stop" /\ Joining(c) /\ MayJoin(c) /\ CallReturns(c)
      /\ UNCHANGED <<workers, deferred, gate, poller, enders, faults>>
      /\ descriptor' = Teardown(calls[c].generation)
      /\ WatchdogShape /\ StreamShape /\ OneOwner
      /\ watchdog.reaping /\ watchdog.thread = 0
  BY DEF StreamInv, WatchdogInv, StopJoined, Joining, OneOwner
<1>3. /\ calls'[c].op = "none" /\ calls'[c].at = "" /\ calls'[c].force = FALSE
      /\ calls'[c].generation = 0
      /\ \A d \in WatchdogThreads : d = c \/ calls'[d] = calls[d]
      /\ ~Joining(c)'
  BY <1>2, ReturnLeaves
<1>4. /\ watchdog'.state = "stopped" /\ watchdog'.thread = 0 /\ watchdog'.reaping = FALSE
      /\ watchdog'.generation = 0 /\ watchdog'.epoch = watchdog.epoch
  BY <1>2 DEF StopJoined, WatchdogShape, IsRecord, WatchdogMembers
<1>5. watchdog.state # "running"
  BY <1>2 DEF StreamInv, RunningSound
<1>6. (\A d \in WatchdogThreads : d = c \/ ~Joining(d)) /\ (\A d \in WatchdogThreads : ~Joining(d)')
  <2>1. \A d \in WatchdogThreads : d = c \/ ~Joining(d)
    BY <1>2 DEF OneOwner
  <2> QED BY <1>3, <2>1 DEF Joining
<1>7. \/ UNCHANGED descriptor /\ (watchdog.torndown \/ (descriptor.launch # 0 /\ descriptor.generation # calls[c].generation))
      \/ /\ IsRecord(descriptor', {"launch", "generation", "last"}) /\ descriptor'.last = descriptor.last
         /\ descriptor'.launch = 0 /\ descriptor'.generation = 0
         /\ ~watchdog.torndown /\ (descriptor.launch = 0 \/ descriptor.generation = calls[c].generation)
  BY <1>2, TeardownLeaves
<1>8. CallsSound' /\ RunningSound' /\ FaultsSound'
  <2>1. CallsSound'
    BY <1>2, <1>3, ReturnStaysSound DEF StreamInv
  <2>2. RunningSound' /\ FaultsSound'
    BY <1>2, <1>4, <1>6 DEF StreamInv, RunningSound, FaultsSound
  <2> QED BY <2>1, <2>2
<1>9. /\ c = "gate" => gate.at = "stopping"
      /\ c # "gate" => calls'["gate"] = calls["gate"]
  BY <1>2, <1>3 DEF StreamInv, CallsSound, WatchdogThreads
<1>10. InSession /\ descriptor.launch = gate.launch => descriptor.launch # 0 /\ UNCHANGED descriptor
  <2>1. InSession => gate.launch # 0
    BY DEF StreamInv, GateSound, InSession
  <2>2. InSession /\ descriptor.launch = gate.launch => descriptor.generation # calls[c].generation
    BY <1>2 DEF StreamInv, ShownIsNew
  <2> QED BY <1>7, <2>1, <2>2
<1>11. StartSound' /\ StreamIsWatched' /\ DescriptorKept'
  BY <1>2, <1>4, <1>5, <1>9, <1>10 DEF StreamInv, StartSound, StreamIsWatched, DescriptorKept, InSession
<1>12. ShownIsNew'
  <2>1. descriptor'.launch = gate.launch /\ InSession => UNCHANGED descriptor /\ descriptor.generation # 0
    <3>1. InSession => gate.launch # 0
      BY DEF StreamInv, GateSound, InSession
    <3> QED BY <1>7, <1>10, <3>1 DEF StreamInv, Numbers
  <2> QED BY <1>2, <1>4, <1>6, <2>1 DEF ShownIsNew, InSession
<1>13. ~Joining("gate")' /\ ~Joining("control")' /\ ~Joining("main")'
  BY <1>6 DEF Joining, WatchdogThreads
<1>14. faults.count = 0 /\ Ends /\ ~gate.forced => descriptor'.launch = 0
  <2>1. \A d \in {"gate", "control"} : Joining(d) => d = c
    BY <1>6 DEF WatchdogThreads
  <2>2. faults.count = 0 /\ Ends /\ ~gate.forced /\ descriptor.launch # 0 =>
          calls[c].generation = descriptor.generation /\ ~watchdog.torndown
    BY <1>5, <2>1 DEF StreamInv, EndSound, CleanupComes
  <2> QED BY <1>7, <2>2
<1>15. EndSound'
  <2>1. faults'.count = 0 => OwnGeneration' /\ ExecutesWatched' /\ NoThreadLeft'
    BY <1>2, <1>4, <1>5 DEF StreamInv, EndSound, OwnGeneration, ExecutesWatched, NoThreadLeft, Executing
  <2>2. faults'.count = 0 => CleanupComes' /\ MainFindsNothing'
    BY <1>2, <1>7, <1>14 DEF StreamInv, EndSound, CleanupComes, MainFindsNothing, Ends
  <2>3. faults'.count = 0 => NothingShown'
    BY <1>2, <1>7, <1>9, <1>14 DEF StreamInv, EndSound, NothingShown, Returned, Ends
  <2> QED BY <1>13, <2>1, <2>2, <2>3 DEF EndSound, MainJoins
<1>16. \A d \in WatchdogThreads : calls'[d].generation \in {0, calls[d].generation, watchdog.generation}
  BY <1>3
<1> QED BY <1>1, <1>2, <1>4, <1>7, <1>8, <1>11, <1>12, <1>15, <1>16, StopMoves

--------------------------------------------------------------------------------
LEMMA StreamInvHolds == WatchdogSpec => []StreamInv
<1>1. WatchdogInit => StreamInv
  BY InitStreams
<1>2. StreamInv /\ [WatchdogNext]_watchdogVars => StreamInv'
  <2> SUFFICES ASSUME StreamInv, [WatchdogNext]_watchdogVars PROVE StreamInv'
    OBVIOUS
  <2>1. CASE UNCHANGED watchdogVars
    <3>1. UNCHANGED <<watchdog, workers, calls, descriptor, deferred, gate, poller, enders, faults>>
      BY <2>1 DEF watchdogVars
    <3>2. WatchdogInv'
      BY <3>1 DEF StreamInv, WatchdogInv, WatchdogShape, CallersWait, OneOwner, Joining, MainLast
    <3>5. StreamShape' /\ Numbers' /\ GateSound' /\ ClaimsSound' /\ CallsSound'
      BY <3>1 DEF StreamInv, StreamShape, Numbers, GateSound, ClaimsSound, Executing, CallsSound
    <3>3. RunningSound' /\ FaultsSound' /\ StartSound' /\ StreamIsWatched' /\ ShownIsNew' /\ DescriptorKept'
      BY <3>1 DEF StreamInv, RunningSound, FaultsSound, StartSound, StreamIsWatched, ShownIsNew, DescriptorKept,
         InSession, Joining
    <3>4. EndSound'
      BY <3>1 DEF StreamInv, EndSound, OwnGeneration, CleanupComes, ExecutesWatched, NoThreadLeft,
         NothingShown, MainJoins, MainFindsNothing, Ends, Returned, Joining, Adopting, Executing
    <3> QED BY <3>2, <3>3, <3>4, <3>5 DEF StreamInv
  <2>2. CASE \E c \in WatchdogThreads : StartBegin(c) \/ StartLoop(c) \/ StartJoined(c) \/ JoinFails(c)
                                        \/ StopLoop(c) \/ StopWait(c) \/ StopJoined(c)
    BY <2>2, StartBeginStreams, StartLoopStreams, StartJoinedStreams, JoinFailsStreams, StopLoopStreams,
       StopWaitStreams, StopJoinedStreams
  <2>3. CASE \/ \E w \in 1..MaxWorkers : WorkerExits(w)
             \/ \E outcome \in ApplyOutcomes : LaunchApplies(outcome)
             \/ LaunchExpires \/ StreamStarts \/ DeferredStart \/ GateReturns \/ StreamEnds
             \/ \E restores \in BOOLEAN, outcome \in RevertOutcomes : Finalize(restores, outcome)
             \/ \E outcome \in RevertOutcomes : WatchedAppExits(outcome) \/ HotkeyReverts(outcome)
    BY <2>3, WorkerExitsStreams, LaunchAppliesStreams, LaunchExpiresStreams, StreamStartsStreams,
       DeferredStartStreams, GateReturnsStreams, StreamEndsStreams, FinalizeStreams, WatchedAppExitsStreams,
       HotkeyRevertsStreams
  <2>4. CASE \/ Poll \/ Claim \/ AdoptGeneration \/ LeaveExecution \/ IdleStop \/ ControlReturns
             \/ \E outcome \in DeferredOutcomes : Execute(outcome)
    BY <2>4, PollStreams, ClaimStreams, AdoptGenerationStreams, LeaveExecutionStreams, IdleStopStreams,
       ControlReturnsStreams, ExecuteFailsStreams, ExecuteAppliesStreams DEF DeferredOutcomes
  <2>5. CASE HotkeyPressed \/ HotkeyReturns \/ MainStops \/ MainReturns
    BY <2>5, HotkeyPressedStreams, HotkeyReturnsStreams, MainStopsStreams, MainReturnsStreams
  <2> QED BY <2>1, <2>2, <2>3, <2>4, <2>5 DEF WatchdogNext
<1> QED BY <1>1, <1>2, PTL DEF WatchdogSpec

(* A stream whose platform has been started keeps its watchdog: a stop_watchdog that belongs *)
(* to an earlier stream finds itself out of date (stop_watchdog and start_watchdog, over    *)
(* whatever reaping, adoption and hand-over of the thread lies between them).              *)
THEOREM StreamsAreWatched == WatchdogSpec => []StreamIsWatched
<1>1. StreamInv => StreamIsWatched
  BY DEF StreamInv
<1> QED BY <1>1, StreamInvHolds, PTL

(* What a launch has published in g_active_session_dd stays until its stream ends: the     *)
(* cleanup of an earlier watchdog is of an older generation (finish_watchdog_stop_locked). *)
THEOREM DescriptorsAreKept == WatchdogSpec => []DescriptorKept
<1>1. StreamInv => DescriptorKept
  BY DEF StreamInv
<1> QED BY <1>1, StreamInvHolds, PTL

(* Once nothing streams or runs and no call is under way, no deferred APPLY is pending; and  *)
(* after a stop that returned, no watchdog thread and no published session are left        *)
(* (finalize_shared_runtime_if_idle, terminate and apply_pending_if_ready).                *)
THEOREM IdleIsFoundQuiet == WatchdogSpec => []IdleIsQuiet
<1>1. ASSUME StreamInv, gate.at = "idle", poller.at = "idle", enders.hotkey = "idle", faults.count = 0
      PROVE  deferred.pending = NoApply /\ (~gate.kept => workers.alive = {} /\ (~gate.forced => descriptor.launch = 0))
  <2>1. deferred.pending = NoApply
    BY <1>1 DEF StreamInv, ClaimsSound
  <2>2. ASSUME ~gate.kept PROVE workers.alive = {}
    <3>1. watchdog.thread = 0
      BY <1>1, <2>2 DEF StreamInv, EndSound, NoThreadLeft, Returned
    <3>2. \A c \in WatchdogThreads : ~Joining(c)
      BY <1>1, <2>2 DEF StreamInv, WatchdogInv, CallersWait, EndSound, MainJoins, Joining, WatchdogThreads
    <3>3. \A w \in workers.alive : FALSE
      <4>1. OneOwner
        BY <1>1 DEF StreamInv, WatchdogInv
      <4> QED BY <3>1, <3>2, <4>1 DEF OneOwner
    <3> QED BY <3>3
  <2>3. ~gate.kept /\ ~gate.forced => descriptor.launch = 0
    BY <1>1 DEF StreamInv, EndSound, NothingShown, Returned
  <2> QED BY <2>1, <2>2, <2>3
<1>2. StreamInv => IdleIsQuiet
  BY <1>1 DEF IdleIsQuiet
<1> QED BY <1>2, StreamInvHolds, PTL

================================================================================
