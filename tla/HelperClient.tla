------------------------------- MODULE HelperClient -------------------------------
(* The host's end of the helper's pipe (ipc/display_settings_client.cpp): threads that *)
(* send commands over one shared connection, supersede each other, and read replies   *)
(* that name their request (helper v2) or do not (the legacy helper).  A step is what  *)
(* a thread does under write_mutex and connection_mutex, or one turn of a wait loop.   *)
EXTENDS Naturals, SequencesExt, FiniteSets

CONSTANTS
    Callers,         \* the host threads that use the client
    MaxConnections,  \* bound: connections made
    MaxRequests      \* bound: commands given

ASSUME ClientAssumption ==
    /\ {MaxConnections, MaxRequests} \subseteq Nat /\ IsFiniteSet(Callers)
    /\ "nobody" \notin Callers

VARIABLES
    apply_wait_generation, \* bumped by APPLY and every control command
    connection,            \* generation of the current connection, 0 for none
    connections,           \* connections made so far
    session,               \* session_singleton: the current ConnectionSession
    caller,                \* the command each thread is at
    requests,              \* request ids given out; all of them are "issued" once sent
    clientHistory          \* for the properties: replies handed out, newest command written

clientVars == <<apply_wait_generation, connection, connections, session, caller, requests, clientHistory>>

Nobody == "nobody"
Untagged == 0
Noise == MaxRequests + 1   \* the text of a legacy error, read as a request id
Peers == {"legacy", "v2"}
NewSession(peer) ==
    [peer |-> peer, protocol |-> "unknown", untagged_response_pending |-> FALSE,
     reader |-> Nobody, received |-> <<>>, wire |-> <<>>, response_inbox |-> {},
     connected |-> TRUE, overdue |-> FALSE]
NoSession == [NewSession("v2") EXCEPT !.connected = FALSE]
NoCall == [pc |-> "idle", command |-> "none", generation |-> 0, connection |-> 0,
           id |-> 0, protocol |-> "unknown"]

Current(c) == connection # 0 /\ caller[c].connection = connection
Superseded(c) == apply_wait_generation # caller[c].generation

--------------------------------------------------------------------------------
(* Beginning a command.                                                                *)

(* A retired connection is done with: its reader notices before it takes another frame. *)
Retire == connection' = 0 /\ session' = NoSession

(* An APPLY or control command may not leave an untagged reply behind for its successor. *)
UntaggedInFlight ==
    session.protocol # "v2" /\ session.untagged_response_pending
MistakeKeepsConnection == UNCHANGED <<connection, session>>
RetireUntagged == IF UntaggedInFlight THEN Retire ELSE UNCHANGED <<connection, session>>

(* cancel_or_begin_apply_wait: releases older waiters, in one step with the retirement. *)
BeginControl(c, command) ==
    /\ RetireUntagged
    /\ apply_wait_generation' = apply_wait_generation + 1
    /\ caller' = [caller EXCEPT ![c] = [NoCall EXCEPT !.pc = "connect", !.command = command,
                                          !.generation = apply_wait_generation', !.id = requests']]

(* REFRESH_RATE and SNAPSHOT_CURRENT belong to the generation they find.                *)
BeginAuxiliary(c, command) ==
    /\ caller' = [caller EXCEPT ![c] = [NoCall EXCEPT !.pc = "connect", !.command = command,
                                          !.generation = apply_wait_generation, !.id = requests']]
    /\ UNCHANGED <<apply_wait_generation, connection, session>>

Begin(c) ==
    /\ caller[c].pc = "idle" /\ requests < MaxRequests
    /\ requests' = requests + 1
    /\ \/ \E command \in {"apply", "control"} : BeginControl(c, command)
       \/ \E command \in {"refresh", "snapshot"} : BeginAuxiliary(c, command)
    /\ UNCHANGED <<connections, clientHistory>>

Return(c) == [caller EXCEPT ![c] = NoCall]

(* connected_session: reuse a live connection or make one, to whichever helper runs.     *)
NeedsNoReply(command, protocol) ==
    command = "control" \/ (command = "snapshot" /\ protocol # "v2")
Adopt(c, n, protocol) ==
    [caller EXCEPT ![c].connection = n, ![c].protocol = protocol,
                   ![c].pc = IF NeedsNoReply(caller[c].command, protocol) THEN "send" ELSE "reader"]
Connect(c) ==
    /\ caller[c].pc = "connect"
    /\ IF session.connected
       THEN caller' = Adopt(c, connection, session.protocol) /\ UNCHANGED <<connection, connections, session>>
       ELSE \/ /\ connections < MaxConnections
               /\ connections' = connections + 1 /\ connection' = connections'
               /\ \E peer \in Peers : session' = NewSession(peer)
               /\ caller' = Adopt(c, connection', "unknown")
            \/ Retire /\ caller' = Return(c) /\ UNCHANGED connections
    /\ UNCHANGED <<apply_wait_generation, requests, clientHistory>>

(* lock_response_reader_until: one reader per connection.  Waiting gives up when another *)
(* command or connection takes over (v1 refreshes wait on), or at its deadline.          *)
Patient(c) == caller[c].command = "refresh" /\ caller[c].protocol # "v2"
LockReader(c) ==
    /\ caller[c].pc = "reader"
    /\ \/ /\ Current(c) /\ (Superseded(c) => Patient(c)) /\ session.reader = Nobody
          /\ session' = [session EXCEPT !.reader = c]
          /\ caller' = [caller EXCEPT ![c].pc = IF caller[c].command = "verify" THEN "wait" ELSE "send"]
       \/ caller' = Return(c) /\ UNCHANGED session
    /\ UNCHANGED <<apply_wait_generation, connection, connections, requests, clientHistory>>

--------------------------------------------------------------------------------
(* send_serialized: the frame is written only if the connection is still the current    *)
(* one and no newer command has begun, decided under the locks that order commands.      *)
MistakeChecksConnectionOnly(c) == Current(c)
MaySend(c) == Current(c) /\ ~Superseded(c)

BeginsUntagged(c) ==
    /\ caller[c].command = "apply" \/ (caller[c].command = "refresh" /\ caller[c].protocol # "v2")
    /\ session.protocol = "unknown"
Waits(c) == Current(c) /\ session.reader = c
Unlocked(c) == IF Waits(c) THEN [session EXCEPT !.reader = Nobody] ELSE session
Frame(c) == [command |-> caller[c].command, id |-> caller[c].id,
             tagged |-> caller[c].command = "apply" \/ caller[c].protocol = "v2"]

Send(c) ==
    /\ caller[c].pc = "send"
    /\ \/ /\ MaySend(c)
          /\ session' = [session EXCEPT
                            !.wire = IF caller[c].command = "control" THEN @ ELSE Append(@, Frame(c)),
                            !.untagged_response_pending = @ \/ BeginsUntagged(c)]
          /\ caller' = IF Waits(c) THEN [caller EXCEPT ![c].pc = "wait"] ELSE Return(c)
          /\ clientHistory' = [clientHistory EXCEPT
                                 !.overtook = @ \/ caller[c].generation < clientHistory.newest,
                                 !.newest = IF @ < caller[c].generation THEN caller[c].generation ELSE @]
       \/ \* refused, or the pipe takes nothing
          /\ session' = [Unlocked(c) EXCEPT !.untagged_response_pending =
                                               @ /\ ~(MaySend(c) /\ BeginsUntagged(c))]
          /\ caller' = Return(c)
          /\ UNCHANGED clientHistory
    /\ UNCHANGED <<apply_wait_generation, connection, connections, requests>>

--------------------------------------------------------------------------------
(* Waiting for a reply.                                                                 *)

Cancelled(c) ==
    \/ ~Current(c)
    \/ Superseded(c) /\ CASE caller[c].command = "apply" -> caller[c].protocol # "legacy"
                          [] caller[c].command = "refresh" -> caller[c].protocol = "v2"
                          [] OTHER -> TRUE

(* decode_apply_response, and the matching of the other replies.                         *)
Issued(id) == id \in 1..requests
Matches(c, reply) ==
    /\ reply.type = caller[c].command
    /\ CASE caller[c].command = "apply" ->
              \/ caller[c].protocol = "legacy"
              \/ reply.tag = caller[c].id
              \/ caller[c].protocol = "unknown" /\ (reply.tag = Untagged \/ (~Issued(reply.tag) /\ ~reply.success))
         [] caller[c].command = "refresh" /\ caller[c].protocol # "v2" -> reply.tag = Untagged
         [] OTHER -> reply.tag = caller[c].id
ProtocolOf(c, reply) ==
    IF caller[c].command # "apply" THEN session.protocol
    ELSE IF session.protocol # "unknown" THEN session.protocol
    ELSE IF reply.tag = caller[c].id THEN "v2" ELSE "legacy"

(* A v2 APPLY goes on to wait for its verification, as a new reader.                     *)
Delivered(c, reply, rest) ==
    LET protocol == ProtocolOf(c, reply)
        verify == caller[c].command = "apply" /\ reply.success /\ protocol = "v2"
    IN  /\ session' = [rest EXCEPT !.reader = Nobody, !.protocol = protocol,
                                   !.untagged_response_pending =
                                      @ /\ caller[c].command \notin {"apply", "refresh"}]
        /\ caller' = IF verify THEN [caller EXCEPT ![c].pc = "reader", ![c].command = "verify", ![c].protocol = "v2"]
                     ELSE Return(c)
        /\ clientHistory' = [clientHistory EXCEPT
                               !.misread = @ \/ (reply.of # caller[c].id /\ ~session.overdue)]
        /\ UNCHANGED <<apply_wait_generation, connection, connections, requests>>

TakeBuffered(c) ==
    /\ caller[c].pc = "wait" /\ ~Cancelled(c)
    /\ \E reply \in session.response_inbox :
          /\ Matches(c, reply)
          /\ Delivered(c, reply, [session EXCEPT !.response_inbox = @ \ {reply}])

(* Somebody else's reply is kept for its reader, except one that nothing could match.    *)
Bufferable(c, reply) == ~(reply.type = caller[c].command /\ reply.tag = Untagged /\ reply.type # "apply")
Receive(c) ==
    /\ caller[c].pc = "wait" /\ ~Cancelled(c)
    /\ ~\E reply \in session.response_inbox : Matches(c, reply)
    /\ session.received # <<>>
    /\ LET reply == Head(session.received)
           rest == [session EXCEPT !.received = Tail(@)]
       IN  IF Matches(c, reply) THEN Delivered(c, reply, rest)
           ELSE /\ session' = IF Bufferable(c, reply)
                             THEN [rest EXCEPT !.response_inbox = @ \cup {reply}] ELSE rest
                /\ UNCHANGED <<apply_wait_generation, connection, connections, caller, requests, clientHistory>>

(* No reply: a superseded waiter leaves the connection to its successor; any other one    *)
(* retires it, for the late reply must not meet the next request.  The retirement of a   *)
(* bounded call has 250 ms for the locks and may miss them.                              *)
Abandons(c) ==
    /\ caller[c].command # "verify"
    /\ IF caller[c].command = "apply" THEN ~(caller[c].protocol # "legacy" /\ Superseded(c)) ELSE ~Cancelled(c)
GiveUp(c) ==
    /\ caller[c].pc = "wait"
    /\ caller' = Return(c)
    /\ \/ IF Abandons(c) /\ Current(c) THEN Retire ELSE session' = Unlocked(c) /\ UNCHANGED connection
       \/ /\ Abandons(c) /\ Current(c) /\ caller[c].command \in {"apply", "snapshot"}
          /\ session' = [Unlocked(c) EXCEPT !.overdue = TRUE]
          /\ UNCHANGED connection
    /\ UNCHANGED <<apply_wait_generation, connections, requests, clientHistory>>

--------------------------------------------------------------------------------
(* The helper at the other end, and the pipe.                                           *)

Reply(frame, type, tag, success) == [type |-> type, of |-> frame.id, tag |-> tag, success |-> success]

(* v2 answers in the order it gets done, and sends the verification after the result.    *)
AnswersV2(i) ==
    LET frame == session.wire[i]
        tag == IF frame.tagged THEN frame.id ELSE Untagged
    IN  \E success \in {TRUE, frame.command # "apply"} :
          session' = [session EXCEPT
             !.wire = IF frame.command = "apply" /\ success
                      THEN [@ EXCEPT ![i].command = "verify"] ELSE RemoveAt(@, i),
             !.received = IF frame.command = "snapshot" /\ ~frame.tagged THEN @
                          ELSE Append(@, Reply(frame, frame.command, tag, success))]

(* The legacy helper answers in order and without names, at times with a long text.      *)
AnswersLegacy ==
    LET frame == Head(session.wire)
    IN  \E tag \in {Untagged, Noise} :
          /\ tag = Noise => frame.command = "apply"
          /\ session' = [session EXCEPT
                !.wire = Tail(@),
                !.received = IF frame.command = "snapshot" THEN @
                             ELSE Append(@, Reply(frame, frame.command, tag, tag = Untagged))]

HelperAnswers ==
    /\ session.connected /\ session.wire # <<>>
    /\ \/ session.peer = "v2" /\ \E i \in 1..Len(session.wire) : AnswersV2(i)
       \/ session.peer = "legacy" /\ AnswersLegacy
    /\ UNCHANGED <<apply_wait_generation, connection, connections, caller, requests, clientHistory>>

PipeBreaks ==
    /\ session.connected
    /\ session' = [session EXCEPT !.connected = FALSE, !.wire = <<>>]
    /\ UNCHANGED <<apply_wait_generation, connection, connections, caller, requests, clientHistory>>

--------------------------------------------------------------------------------
ClientInit ==
    /\ apply_wait_generation = 0 /\ connection = 0 /\ connections = 0 /\ requests = 0
    /\ session = NoSession
    /\ caller = [c \in Callers |-> NoCall]
    /\ clientHistory = [misread |-> FALSE, overtook |-> FALSE, newest |-> 0]

ClientNext ==
    \/ \E c \in Callers : \/ Begin(c) \/ Connect(c) \/ LockReader(c) \/ Send(c)
                          \/ TakeBuffered(c) \/ Receive(c) \/ GiveUp(c)
    \/ HelperAnswers \/ PipeBreaks

ClientSpec == ClientInit /\ [][ClientNext]_clientVars

--------------------------------------------------------------------------------
(* A reply is handed only to the request it answers, whichever helper is at the other    *)
(* end and whatever was superseded, timed out or reconnected before, unless the           *)
(* retirement of an unanswered connection itself ran out of time (send_apply_json,        *)
(* retire_untagged_response_session_if_needed_locked).                                    *)
ReplyIsOwn == ~clientHistory.misread

(* Once a command has been written, none that was begun before it is written after it,    *)
(* on the same connection or a later one (send_serialized, apply_wait_generation).         *)
NoOvertaking == ~clientHistory.overtook

================================================================================
