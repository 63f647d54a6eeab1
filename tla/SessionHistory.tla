------------------------------ MODULE SessionHistory ------------------------------
(* The session history (session_history*.cpp): threads of streaming sessions, the       *)
(* sampler and the web UI put commands into lanes; one writer thread drains the lanes   *)
(* into batches, each of which is one database transaction; the settings turn it off     *)
(* and on again.  A command's stamp is its sequence number, counted per session, for     *)
(* only the order within one session is ever looked at.                                  *)
EXTENDS Naturals, Sequences, SequencesExt, FiniteSets

CONSTANTS
    Sessions,       \* the uuids of the streaming sessions
    ControlLimit, PriorityLimit, SampleLimit, \* queue_limits_t
    SampleBatch,    \* sample_batch_size
    MaxSamples,     \* bound: samples taken of a session
    MaxRestarts     \* bound: how often the history is stopped

ASSUME HistoryAssumption ==
    /\ {ControlLimit, PriorityLimit, SampleLimit, SampleBatch} \subseteq Nat \ {0}
    /\ {MaxSamples, MaxRestarts} \subseteq Nat

VARIABLES
    service, \* enabled, g_running, g_write_db, the writer's loop, the stops so far
    lanes,   \* g_control_queue, g_priority_queue, g_sample_queue and the next sequences
    batch,   \* what the writer has drained and not yet written
    rows,    \* the database: per session absent, open, or ended (by which command)
    stream,  \* per session: how far its thread is, whether the sampler knows it, samples
    deleter  \* the web UI's delete request of a session

historyVars == <<service, lanes, batch, rows, stream, deleter>>

Absent == [state |-> "absent", ended_by |-> 0]
Open == [state |-> "open", ended_by |-> 0]
Ended(stamp) == [state |-> "ended", ended_by |-> stamp]

Command(type, s) == [type |-> type, uuid |-> s, stamp |-> lanes.next[s]]
Pending == {lanes.control[i] : i \in 1..Len(lanes.control)} \cup
           {lanes.priority[i] : i \in 1..Len(lanes.priority)} \cup
           {lanes.samples[i] : i \in 1..Len(lanes.samples)}

--------------------------------------------------------------------------------
(* enqueue: one critical section of g_queue_mutex.                                       *)
LaneOf(type) == CASE type = "sample" -> "samples" [] type = "event" -> "priority" [] OTHER -> "control"
LimitOf(lane) == CASE lane = "samples" -> SampleLimit [] lane = "priority" -> PriorityLimit
                   [] lane = "control" -> ControlLimit
MistakeAcceptsWhileStopping == service.enabled /\ service.db
Accepting == service.enabled /\ service.running /\ service.db
Accepts(type) == Accepting /\ Len(lanes[LaneOf(type)]) < LimitOf(LaneOf(type))
Enqueue(type, s) ==
    lanes' = IF Accepts(type)
             THEN [lanes EXCEPT ![LaneOf(type)] = Append(@, Command(type, s)), !.next[s] = @ + 1]
             ELSE lanes

history_available == service.enabled /\ service.running /\ service.db

(* begin_session and end_session, call by call; the sampler learns of a session before    *)
(* its row is begun and forgets it before its row is ended.                              *)
BeginSession(s) ==
    /\ stream[s].pc = "new"
    /\ stream' = [stream EXCEPT ![s].pc = IF history_available THEN "begin" ELSE "live",
                                ![s].active = history_available]
    /\ UNCHANGED lanes
EndSession(s) ==
    /\ stream[s].pc = "live"
    /\ stream' = [stream EXCEPT ![s].pc = IF history_available THEN "ending" ELSE "over", ![s].active = FALSE]
    /\ UNCHANGED lanes
NextCall(s, pc, type, next) ==
    /\ stream[s].pc = pc /\ stream' = [stream EXCEPT ![s].pc = next]
    /\ Enqueue(type, s)
SessionStep(s) ==
    /\ \/ BeginSession(s) \/ EndSession(s)
       \/ NextCall(s, "begin", "begin", "started") \/ NextCall(s, "started", "event", "live")
       \/ NextCall(s, "ending", "event", "end") \/ NextCall(s, "end", "end", "prune")
       \/ NextCall(s, "prune", "prune", "over")
    /\ UNCHANGED <<service, batch, rows, deleter>>

(* The sampler copies the active set and enqueues later, when a session may be over.      *)
Sample(s) ==
    /\ service.running /\ stream[s].samples > 0
    /\ \/ /\ stream[s].active /\ ~stream[s].caught
          /\ stream' = [stream EXCEPT ![s].caught = TRUE]
          /\ UNCHANGED lanes
       \/ /\ stream[s].caught
          /\ stream' = [stream EXCEPT ![s].caught = FALSE, ![s].samples = @ - 1]
          /\ Enqueue("sample", s)
    /\ UNCHANGED <<service, batch, rows, deleter>>

(* delete_session: not of a session the sampler knows; waits for the writer, or five      *)
(* seconds.                                                                              *)
Delete(s) ==
    /\ \/ /\ deleter[s] = "none" /\ history_available /\ ~stream[s].active /\ stream[s].pc # "new"
          /\ Enqueue("delete", s)
          /\ deleter' = [deleter EXCEPT ![s] = IF Accepts("delete") THEN "waiting" ELSE "unavailable"]
       \/ /\ deleter[s] = "waiting"
          /\ deleter' = [deleter EXCEPT ![s] = "timeout"] /\ UNCHANGED lanes
    /\ UNCHANGED <<service, batch, rows, stream>>

--------------------------------------------------------------------------------
(* drain_queue, and the final flush.  In front of an END or DELETE go the samples and      *)
(* events of that session that were accepted before it; then the lanes in order.          *)
OlderThan(barrier, command) ==
    /\ barrier.type \in {"end", "delete"}
    /\ command.uuid = barrier.uuid /\ command.stamp < barrier.stamp
MistakeNoBarrier(lane, barrier) == <<>>
ExtractOlder(lane, barrier) == SelectSeq(lane, LAMBDA command : OlderThan(barrier, command))
Others(lane, barrier) == SelectSeq(lane, LAMBDA command : ExtractOlder(<<command>>, barrier) = <<>>)

DrainControl(before, barrier) ==
    [samples |-> Others(before.samples, barrier), priority |-> Others(before.priority, barrier),
     batch |-> before.batch \o ExtractOlder(before.samples, barrier)
                            \o ExtractOlder(before.priority, barrier) \o <<barrier>>]
DrainInto(limit) ==
    LET first == FoldLeft(DrainControl, [samples |-> lanes.samples, priority |-> lanes.priority,
                                         batch |-> <<>>], lanes.control)
        taken == IF Len(first.samples) < limit THEN Len(first.samples) ELSE limit
    IN  /\ batch' = first.batch \o first.priority \o SubSeq(first.samples, 1, taken)
        /\ lanes' = [lanes EXCEPT !.control = <<>>, !.priority = <<>>,
                                  !.samples = SubSeq(first.samples, taken + 1, Len(first.samples))]

DrainQueue ==
    /\ service.writer = "loop" /\ service.running /\ batch = <<>> /\ Pending # {}
    /\ DrainInto(SampleBatch)
    /\ UNCHANGED <<service, rows, stream, deleter>>
LeaveLoop ==
    /\ service.writer = "loop" /\ ~service.running /\ batch = <<>>
    /\ service' = [service EXCEPT !.writer = "flush"]
    /\ UNCHANGED <<lanes, batch, rows, stream, deleter>>
Flush ==
    /\ service.writer = "flush" /\ batch = <<>>
    /\ IF Pending = {}
       THEN service' = [service EXCEPT !.writer = "exited"] /\ UNCHANGED <<lanes, batch>>
       ELSE DrainInto(Len(lanes.samples)) /\ UNCHANGED service
    /\ UNCHANGED <<rows, stream, deleter>>

--------------------------------------------------------------------------------
(* process_batch: one transaction; a command that fails undoes it all.                    *)

(* The rows, and what the deletes of the batch report, after one command.                 *)
ApplyWriteCmd(pruned, db, command) ==
    LET s == command.uuid
    IN  CASE command.type = "begin" /\ db.rows[s] = Absent -> [db EXCEPT !.rows[s] = Open]
          [] command.type = "end" /\ db.rows[s] # Absent -> [db EXCEPT !.rows[s] = Ended(command.stamp)]
          [] command.type = "delete" ->
                [db EXCEPT !.rows[s] = Absent,
                           !.told[s] = IF db.rows[s] = Absent THEN "not_found" ELSE "deleted"]
          [] command.type = "prune" ->
                [db EXCEPT !.rows = [r \in Sessions |->
                    IF r \in pruned /\ db.rows[r].state = "ended" THEN Absent ELSE db.rows[r]]]
          [] OTHER -> db

Answer(told) == [s \in Sessions |-> IF deleter[s] = "waiting" /\ told[s] # "none" THEN told[s] ELSE deleter[s]]
ToldFailed(n) ==
    [s \in Sessions |-> IF \E i \in 1..n : batch[i].type = "delete" /\ batch[i].uuid = s THEN "failed" ELSE "none"]

Outcome(pruned) ==
    FoldLeft(LAMBDA db, command : ApplyWriteCmd(pruned, db, command),
             [rows |-> rows, told |-> [s \in Sessions |-> "none"]], batch)

(* resolve_completions: only a committed batch reports what it did.  The deletes behind    *)
(* the command that failed are not resolved at all.                                       *)
MistakeReportsBeforeCommit(pruned) ==
    \/ rows' = Outcome(pruned).rows /\ deleter' = Answer(Outcome(pruned).told)
    \/ rows' = rows /\ deleter' = Answer(Outcome(pruned).told)
Settle(pruned) ==
    \/ rows' = Outcome(pruned).rows /\ deleter' = Answer(Outcome(pruned).told)
    \/ rows' = rows /\ \E n \in 1..Len(batch) : deleter' = Answer(ToldFailed(n))
ProcessBatch ==
    /\ batch # <<>> /\ batch' = <<>>
    /\ \E pruned \in SUBSET Sessions : Settle(pruned)
    /\ UNCHANGED <<service, lanes, stream>>

--------------------------------------------------------------------------------
(* reload_settings and shutdown, one at a time.  Turning the history off stops the         *)
(* sampler, which forgets the sessions, then the writer; the database closes when the      *)
(* writer has been joined.  Shutdown does not touch the settings.                          *)
Disable ==
    /\ service.running /\ service.enabled /\ service.stops < MaxRestarts
    /\ \E enabled \in BOOLEAN :
          service' = [service EXCEPT !.running = FALSE, !.enabled = enabled, !.stops = @ + 1]
    /\ stream' = [s \in Sessions |-> [stream[s] EXCEPT !.active = FALSE, !.caught = FALSE]]
    /\ UNCHANGED <<lanes, batch, rows, deleter>>
CloseDatabase ==
    /\ service.writer = "exited" /\ service.db
    /\ service' = [service EXCEPT !.db = FALSE]
    /\ UNCHANGED <<lanes, batch, rows, stream, deleter>>
Enable ==
    /\ ~service.db
    /\ service' = [service EXCEPT !.enabled = TRUE, !.db = TRUE, !.running = TRUE, !.writer = "loop"]
    /\ lanes' = [lanes EXCEPT !.control = Append(@, [type |-> "prune", uuid |-> "none", stamp |-> 0])]
    /\ UNCHANGED <<batch, rows, stream, deleter>>

--------------------------------------------------------------------------------
HistoryInit ==
    /\ service = [enabled |-> TRUE, running |-> TRUE, db |-> TRUE, writer |-> "loop", stops |-> 0]
    /\ lanes = [control |-> <<>>, priority |-> <<>>, samples |-> <<>>, next |-> [s \in Sessions |-> 1]]
    /\ batch = <<>>
    /\ rows = [s \in Sessions |-> Absent]
    /\ stream = [s \in Sessions |-> [pc |-> "new", active |-> FALSE, caught |-> FALSE, samples |-> MaxSamples]]
    /\ deleter = [s \in Sessions |-> "none"]

WriterStep == DrainQueue \/ LeaveLoop \/ Flush \/ ProcessBatch
HistoryNext ==
    \/ \E s \in Sessions : SessionStep(s) \/ Sample(s) \/ Delete(s)
    \/ WriterStep \/ Disable \/ CloseDatabase \/ Enable

HistorySpec == HistoryInit /\ [][HistoryNext]_historyVars

--------------------------------------------------------------------------------
(* Once a session's end is in the database nothing that was accepted before it is still    *)
(* under way, where it would be dropped as stale: the lanes are drained in another order   *)
(* than they are filled, in limited batches (extract_older_session_samples, _events).      *)
EndIsBarrier ==
    \A command \in Pending \cup {batch[i] : i \in 1..Len(batch)} :
       /\ command.type \in {"sample", "event"}
       /\ rows[command.uuid].state = "ended"
       => command.stamp > rows[command.uuid].ended_by

(* A command that was accepted is written before the writer is gone: enqueue races the     *)
(* shutdown on g_running, and the final flush runs after the last command that saw it.     *)
AcceptedIsWritten == service.writer = "exited" => Pending = {} /\ batch = <<>>

(* The web UI is told that a session is deleted only if its row is gone and stays gone,    *)
(* whatever else of the batch fails (resolve_completions).                                *)
DeletedIsGone == \A s \in Sessions : deleter[s] = "deleted" => rows[s] = Absent

================================================================================
