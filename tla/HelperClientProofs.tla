---------------------------- MODULE HelperClientProofs ----------------------------
(* A reply is handed to the request it answers, and no command is written after a later one, *)
(* for any number of threads, connections and commands.                                      *)
EXTENDS HelperClient, SequenceTheorems, TLAPS

Protocols == Peers \cup {"unknown"}
Commands == {"apply", "refresh", "snapshot", "verify"}
CallType == [pc : {"idle", "connect", "reader", "send", "wait"},
             command : Commands \cup {"none", "control"},
             generation : Nat, connection : Nat, id : Nat, protocol : Protocols]
FrameType == [command : Commands, id : Nat, tagged : BOOLEAN]
ReplyType == [type : Commands, of : Nat, tag : Nat, success : BOOLEAN]
SessionType ==
    [peer : Peers, protocol : Protocols, untagged_response_pending : BOOLEAN,
     reader : Callers \cup {Nobody}, received : Seq(ReplyType), wire : Seq(FrameType),
     response_inbox : SUBSET ReplyType, connected : BOOLEAN, overdue : BOOLEAN]
HistoryType == [misread : BOOLEAN, overtook : BOOLEAN, newest : Nat]
ClientType ==
    /\ apply_wait_generation \in Nat /\ connections \in Nat /\ requests \in 0..MaxRequests
    /\ connection \in 0..connections
    /\ caller \in [Callers -> CallType] /\ session \in SessionType /\ clientHistory \in HistoryType

(* The numbers a thread holds have been given out; a thread that is not in a command holds   *)
(* no connection.                                                                            *)
CallIsNumbered(c) ==
    /\ caller[c].generation <= apply_wait_generation /\ caller[c].connection <= connections
    /\ caller[c].pc = "idle" <=> caller[c].command = "none"
    /\ caller[c].pc # "idle" => caller[c].id \in 1..requests
    /\ caller[c].pc \in {"idle", "connect"} => caller[c].connection = 0
    /\ caller[c].pc = "reader" => ~NeedsNoReply(caller[c].command, caller[c].protocol)
    /\ caller[c].command = "verify" => caller[c].pc \in {"reader", "wait"} /\ caller[c].protocol = "v2"
Numbered ==
    /\ \A c \in Callers : CallIsNumbered(c)
    /\ session.connected => connection # 0
    /\ clientHistory.newest <= apply_wait_generation

(* The reader is the thread that holds response_mutex of the current connection.             *)
Reads(c) ==
    \/ caller[c].pc = "wait"
    \/ caller[c].pc = "send" /\ ~NeedsNoReply(caller[c].command, caller[c].protocol)
OneReader ==
    /\ session.reader # Nobody => Current(session.reader) /\ Reads(session.reader)
    /\ \A c \in Callers : Current(c) /\ Reads(c) => session.reader = c

(* What is known of the helper is true of it, and an APPLY that nothing has superseded is     *)
(* the first to learn it.                                                                    *)
OneApply ==
    \A c, d \in Callers :
       caller[c].command = "apply" /\ caller[d].command = "apply" /\ ~Superseded(c) /\ ~Superseded(d) => c = d
Known ==
    /\ session.protocol \in {"unknown", session.peer}
    /\ \A c \in Callers : Current(c) =>
          /\ caller[c].protocol \in {"unknown", session.protocol}
          /\ caller[c].command = "apply" /\ caller[c].protocol = "unknown" /\ ~Superseded(c)
                => session.protocol = "unknown"

(* What is on its way.                                                                       *)
FrameIsSound(s, n, frame) ==
    /\ frame.id \in 1..n
    /\ frame.command \in {"apply", "verify"} => frame.tagged = TRUE
    /\ s.peer = "legacy" => frame.command # "verify"
ReplyIsSound(s, n, reply) ==
    /\ reply.of \in 1..n
    /\ s.peer = "v2" => reply.tag = reply.of \/ (reply.tag = Untagged /\ reply.type = "refresh")
    /\ s.peer = "legacy" => \/ reply.tag = Untagged /\ reply.type \in {"apply", "refresh"}
                            \/ reply.tag = Noise /\ reply.type = "apply" /\ reply.success = FALSE
TrafficIsSound(s, n) ==
    /\ \A i \in 1..Len(s.wire) : FrameIsSound(s, n, s.wire[i])
    /\ \A i \in 1..Len(s.received) : ReplyIsSound(s, n, s.received[i])
    /\ \A reply \in s.response_inbox : ReplyIsSound(s, n, reply)

(* A request whose reply will not name it, and such a reply.                                  *)
NamelessFrame(s, frame) == frame.command \in {"apply", "refresh"} /\ (s.peer = "legacy" \/ frame.tagged = FALSE)
Nameless(reply) == reply.tag # reply.of
Expects(call, command, id) ==
    /\ call.pc = "wait" /\ call.command = command /\ call.id = id
    /\ command = "refresh" => call.protocol # "v2"
Expected(s, calls, command, id) == s.reader # Nobody /\ Expects(calls[s.reader], command, id)
(* There is at most one, and its thread is the reader.                                        *)
NamelessIsExpected(s, calls) ==
    /\ \A i \in 1..Len(s.wire) : NamelessFrame(s, s.wire[i]) =>
          /\ Expected(s, calls, s.wire[i].command, s.wire[i].id)
          /\ \A j \in 1..Len(s.wire) : NamelessFrame(s, s.wire[j]) => i = j
          /\ \A j \in 1..Len(s.received) : ~Nameless(s.received[j])
    /\ \A i \in 1..Len(s.received) : Nameless(s.received[i]) =>
          /\ Expected(s, calls, s.received[i].type, s.received[i].of)
          /\ \A j \in 1..Len(s.received) : Nameless(s.received[j]) => i = j
    /\ \A reply \in s.response_inbox : ~Nameless(reply)

(* An APPLY whose reply would not name it is not superseded without its connection.           *)
AppliesPend ==
    \A c \in Callers :
       /\ session.peer = "legacy" /\ Current(c)
       /\ caller[c].pc = "wait" /\ caller[c].command = "apply" /\ caller[c].protocol # "legacy"
       => ~Superseded(c) /\ session.untagged_response_pending = TRUE

ClientInv ==
    /\ ClientType /\ Numbered /\ OneReader /\ OneApply /\ Known
    /\ TrafficIsSound(session, requests)
    /\ session.overdue = FALSE => NamelessIsExpected(session, caller)
    /\ AppliesPend
    /\ ReplyIsOwn /\ NoOvertaking

--------------------------------------------------------------------------------
NoNameless(s) ==
    /\ \A i \in 1..Len(s.wire) : ~NamelessFrame(s, s.wire[i])
    /\ \A i \in 1..Len(s.received) : ~Nameless(s.received[i])
    /\ \A reply \in s.response_inbox : ~Nameless(reply)

LEMMA NoneExpected ==
    ASSUME NEW s, NEW calls, NoNameless(s)
    PROVE  NamelessIsExpected(s, calls)
BY DEF NoNameless, NamelessIsExpected

(* While the reader is not waiting, no reply without a name is on its way.                     *)
LEMMA NobodyWaits ==
    ASSUME NEW s, NEW calls, NamelessIsExpected(s, calls),
           s.reader = Nobody \/ calls[s.reader].pc # "wait"
    PROVE  NoNameless(s)
BY DEF NoNameless, NamelessIsExpected, Expected, Expects

(* What other threads do does not matter to it.                                               *)
LEMMA ExpectationStays ==
    ASSUME NEW s, NEW calls, NEW t, NEW after, NamelessIsExpected(s, calls),
           t.wire = s.wire, t.received = s.received, t.response_inbox = s.response_inbox,
           t.peer = s.peer, t.reader = s.reader,
           s.reader # Nobody => after[s.reader] = calls[s.reader]
    PROVE  NamelessIsExpected(t, after)
<1>1. \A command, id : Expected(s, calls, command, id) => Expected(t, after, command, id)
  BY DEF Expected
<1>2. \A frame : NamelessFrame(s, frame) <=> NamelessFrame(t, frame)
  BY DEF NamelessFrame
<1> QED BY <1>1, <1>2 DEF NamelessIsExpected

(* The same of a session from which something has been removed.                                *)
LEMMA AbsenceStays ==
    ASSUME NEW s, NEW t, NoNameless(s),
           t.wire = s.wire, t.received = s.received, t.response_inbox = s.response_inbox, t.peer = s.peer
    PROVE  NoNameless(t)
BY DEF NoNameless, NamelessFrame

LEMMA TrafficStays ==
    ASSUME NEW s, NEW t, NEW n \in Nat, NEW m \in Nat, n <= m, TrafficIsSound(s, n),
           t.wire = s.wire, t.received = s.received, t.response_inbox = s.response_inbox, t.peer = s.peer
    PROVE  TrafficIsSound(t, m)
<1>1. \A frame : FrameIsSound(s, n, frame) => FrameIsSound(t, m, frame)
  BY DEF FrameIsSound
<1>2. \A reply : ReplyIsSound(s, n, reply) => ReplyIsSound(t, m, reply)
  BY DEF ReplyIsSound
<1> QED BY <1>1, <1>2 DEF TrafficIsSound

(* A session that begins, and none.                                                           *)
LEMMA SessionBegins ==
    /\ \A peer \in Peers : NewSession(peer) \in SessionType
    /\ NoSession \in SessionType
<1>1. \A peer \in Peers : NewSession(peer) \in SessionType
  <2>1. <<>> \in Seq(ReplyType) /\ <<>> \in Seq(FrameType) /\ {} \in SUBSET ReplyType
    OBVIOUS
  <2> QED BY <2>1 DEF NewSession, SessionType, Protocols
<1>2. "v2" \in Peers
  BY DEF Peers
<1> DEFINE s == NewSession("v2")
<1>3. s \in SessionType
  BY <1>1, <1>2
<1> HIDE DEF s
<1>4. [s EXCEPT !.connected = FALSE] \in SessionType
  BY <1>3 DEF SessionType
<1>5. NoSession = [s EXCEPT !.connected = FALSE]
  BY DEF NoSession, s
<1> QED BY <1>1, <1>4, <1>5

LEMMA InitEstablishes == ASSUME ClientInit PROVE ClientInv
<1>1. NoSession \in SessionType
  BY SessionBegins
<1>2. NoCall \in CallType
  BY DEF NoCall, CallType, Commands, Protocols, Peers
<1>3. ClientType
  BY <1>1, <1>2, ClientAssumption DEF ClientInit, ClientType, HistoryType
<1>4. Numbered /\ OneApply
  BY DEF ClientInit, Numbered, CallIsNumbered, OneApply, NoCall, NoSession, NewSession, Superseded
<1>5. OneReader /\ Known /\ AppliesPend
  BY DEF ClientInit, OneReader, Known, AppliesPend, Current, NoCall, NoSession, NewSession
<1>6. TrafficIsSound(session, requests) /\ NoNameless(session)
  BY DEF ClientInit, TrafficIsSound, NoNameless, NoSession, NewSession
<1>7. ReplyIsOwn /\ NoOvertaking
  BY DEF ClientInit, ReplyIsOwn, NoOvertaking
<1> QED BY <1>3, <1>4, <1>5, <1>6, <1>7, NoneExpected DEF ClientInv

--------------------------------------------------------------------------------
(* One thread moves.                                                                          *)
LEMMA CallerMoves ==
    ASSUME ClientType, NEW c \in Callers, NEW x \in CallType, caller' = [caller EXCEPT ![c] = x]
    PROVE  /\ caller' \in [Callers -> CallType] /\ caller'[c] = x
           /\ \A d \in Callers : d # c => caller'[d] = caller[d]
BY DEF ClientType

(* A connection that is retired takes all that is known of it along.                           *)
LEMMA Retired ==
    ASSUME Retire
    PROVE  /\ session' \in SessionType
           /\ OneReader' /\ Known' /\ AppliesPend' /\ TrafficIsSound(session', requests')
           /\ NamelessIsExpected(session', caller')
<1>1. /\ session'.reader = Nobody /\ session'.protocol = "unknown" /\ session'.wire = <<>>
      /\ session'.received = <<>> /\ session'.response_inbox = {}
  BY DEF Retire, NoSession, NewSession
<1>2. \A c : ~Current(c)'
  BY DEF Retire, Current
<1>3. OneReader' /\ Known' /\ AppliesPend'
  BY <1>1, <1>2 DEF OneReader, Known, AppliesPend
<1>4. TrafficIsSound(session', requests') /\ NoNameless(session')
  BY <1>1 DEF TrafficIsSound, NoNameless
<1> QED BY <1>3, <1>4, NoneExpected, SessionBegins DEF Retire

(* A thread that neither held nor gets the connection leaves the session as it is.              *)
LEMMA BystanderMoves ==
    ASSUME ClientInv, NEW c \in Callers, ~Reads(c), NEW x \in CallType, x.connection = 0,
           caller' = [caller EXCEPT ![c] = x], UNCHANGED <<connection, session>>,
           apply_wait_generation <= apply_wait_generation', requests <= requests', requests' \in Nat,
           apply_wait_generation' \in Nat
    PROVE  /\ OneReader' /\ Known' /\ TrafficIsSound(session', requests')
           /\ session.overdue = FALSE => NamelessIsExpected(session', caller')
<1>1. /\ caller'[c] = x /\ \A d \in Callers : d # c => caller'[d] = caller[d]
  BY CallerMoves DEF ClientInv
<1>2. ~Current(c)' /\ \A d \in Callers : d # c => (Current(d)' <=> Current(d))
  BY <1>1 DEF Current
<1>3. OneReader'
  <2>1. session.reader # Nobody => session.reader # c
    BY DEF ClientInv, OneReader
  <2>2. session.reader \in Callers \cup {Nobody}
    BY DEF ClientInv, ClientType, SessionType
  <2> QED BY <1>1, <1>2, <2>1, <2>2 DEF ClientInv, OneReader, Reads
<1>4. Known'
  <2>1. \A d \in Callers : d # c /\ ~Superseded(d)' => ~Superseded(d)
    BY <1>1 DEF Superseded, ClientInv, ClientType, Numbered, CallIsNumbered, CallType
  <2> QED BY <1>1, <1>2, <2>1 DEF ClientInv, Known
<1>5. TrafficIsSound(session', requests')
  BY TrafficStays DEF ClientInv, ClientType
<1>6. ASSUME session.overdue = FALSE PROVE NamelessIsExpected(session', caller')
  <2>1. session.reader # Nobody => caller'[session.reader] = caller[session.reader]
    BY <1>1 DEF ClientInv, OneReader, ClientType, SessionType
  <2> QED BY <1>6, <2>1, ExpectationStays DEF ClientInv
<1> QED BY <1>3, <1>4, <1>5, <1>6

Beginning(command, generation, id) ==
    [NoCall EXCEPT !.pc = "connect", !.command = command, !.generation = generation, !.id = id]
BeginningCommands == {"apply", "control", "refresh", "snapshot"}

LEMMA IdleCall == NoCall \in CallType /\ NoCall.pc = "idle" /\ NoCall.connection = 0 /\ NoCall.command = "none"
BY DEF NoCall, CallType, Commands, Protocols, Peers

LEMMA BeginningType ==
    ASSUME NEW command \in BeginningCommands, NEW generation \in Nat, NEW id \in Nat
    PROVE  LET x == Beginning(command, generation, id)
           IN  /\ x \in CallType /\ x.connection = 0 /\ x.pc = "connect" /\ x.command = command
               /\ x.generation = generation /\ x.id = id
<1> DEFINE n == NoCall
<1>1. n \in CallType /\ n.connection = 0
  BY IdleCall
<1> HIDE DEF n
<1>2. \A x : x = [n EXCEPT !.pc = "connect", !.command = command, !.generation = generation, !.id = id]
         => /\ x \in CallType /\ x.connection = 0 /\ x.pc = "connect" /\ x.command = command
            /\ x.generation = generation /\ x.id = id
  BY <1>1 DEF CallType, BeginningCommands, Commands
<1> QED BY <1>2 DEF n, Beginning

LEMMA BeginKeeps == ASSUME ClientInv, NEW c \in Callers, Begin(c) PROVE ClientInv'
<1>1. /\ ~Reads(c) /\ requests' \in 1..MaxRequests /\ requests' = requests + 1 /\ requests \in Nat
  BY ClientAssumption DEF Begin, ClientInv, ClientType, Reads
<1>2. PICK command \in BeginningCommands :
         /\ caller' = [caller EXCEPT ![c] = Beginning(command, apply_wait_generation', requests')]
         /\ \/ apply_wait_generation' = apply_wait_generation + 1 /\ RetireUntagged
            \/ /\ apply_wait_generation' = apply_wait_generation /\ command \in {"refresh", "snapshot"}
               /\ UNCHANGED <<connection, session>>
  <2>1. CASE \E command \in {"apply", "control"} : BeginControl(c, command)
    BY <2>1 DEF BeginControl, BeginningCommands, Beginning
  <2>2. CASE \E command \in {"refresh", "snapshot"} : BeginAuxiliary(c, command)
    <3>1. PICK command \in {"refresh", "snapshot"} : BeginAuxiliary(c, command)
      BY <2>2
    <3>2. /\ apply_wait_generation' = apply_wait_generation /\ UNCHANGED <<connection, session>>
          /\ caller' = [caller EXCEPT ![c] = Beginning(command, apply_wait_generation, requests')]
      BY <3>1 DEF BeginAuxiliary, Beginning
    <3> QED BY <3>2 DEF BeginningCommands
  <2> QED BY <2>1, <2>2 DEF Begin
<1>3. apply_wait_generation <= apply_wait_generation' /\ apply_wait_generation' \in Nat
  BY <1>2 DEF ClientInv, ClientType
<1> DEFINE x == Beginning(command, apply_wait_generation', requests')
<1>4. /\ x \in CallType /\ x.connection = 0 /\ x.pc = "connect" /\ x.command = command
      /\ x.generation = apply_wait_generation' /\ x.id = requests'
  BY <1>1, <1>3, BeginningType
<1>4a. caller' = [caller EXCEPT ![c] = x]
  BY <1>2
<1> HIDE DEF x
<1>5. caller' \in [Callers -> CallType] /\ caller'[c] = x /\ \A d \in Callers : d # c => caller'[d] = caller[d]
  BY <1>4, <1>4a, CallerMoves DEF ClientInv
<1>6. UNCHANGED <<connections, clientHistory>>
  BY DEF Begin
<1>7. Retire \/ UNCHANGED <<connection, session>>
  BY <1>2 DEF RetireUntagged
<1>8. apply_wait_generation <= apply_wait_generation' /\ apply_wait_generation' \in Nat
  BY <1>3
<1>9. ClientType'
  BY <1>1, <1>5, <1>6, <1>7, <1>8, Retired DEF ClientInv, ClientType, Retire
<1>10. Numbered'
  <2>0. \A d \in Callers : CallIsNumbered(d) /\ caller[d] \in CallType
    BY DEF ClientInv, ClientType, Numbered
  <2>1a. CallIsNumbered(c)'
    BY <1>1, <1>4, <1>5, <1>6, <1>8 DEF ClientInv, ClientType, CallIsNumbered, BeginningCommands
  <2>1b. ASSUME NEW d \in Callers, d # c PROVE CallIsNumbered(d)'
    BY <1>1, <1>5, <1>6, <1>8, <2>0, <2>1b DEF ClientInv, ClientType, CallIsNumbered, CallType
  <2>1. \A d \in Callers : CallIsNumbered(d)'
    BY <2>1a, <2>1b
  <2>2. session'.connected => connection' # 0
    BY <1>7 DEF ClientInv, Numbered, Retire, NoSession, NewSession
  <2>3. clientHistory'.newest <= apply_wait_generation'
    BY <1>6, <1>8 DEF ClientInv, ClientType, HistoryType, Numbered
  <2> QED BY <2>1, <2>2, <2>3 DEF Numbered
<1>11. OneApply'
  <2>1. CASE apply_wait_generation' = apply_wait_generation + 1
    <3>1. \A d \in Callers : d # c => Superseded(d)'
      BY <1>5, <2>1 DEF Superseded, ClientInv, ClientType, CallType, Numbered, CallIsNumbered
    <3> QED BY <3>1 DEF OneApply
  <2>2. CASE apply_wait_generation' = apply_wait_generation /\ command \in {"refresh", "snapshot"}
    BY <1>4, <1>5, <2>2 DEF OneApply, Superseded, ClientInv
  <2> QED BY <1>2, <2>1, <2>2
<1>12. CASE Retire
  BY <1>6, <1>9, <1>10, <1>11, <1>12, Retired DEF ClientInv, ReplyIsOwn, NoOvertaking
<1>13. CASE UNCHANGED <<connection, session>>
  <2>1. AppliesPend'
    <3> SUFFICES ASSUME NEW d \in Callers, session.peer = "legacy", Current(d)', caller'[d].pc = "wait",
                        caller'[d].command = "apply", caller'[d].protocol # "legacy"
                 PROVE  ~Superseded(d)' /\ session.untagged_response_pending = TRUE
      BY <1>13 DEF AppliesPend
    <3>1. d # c
      BY <1>4, <1>5
    <3>2. Current(d) /\ caller'[d] = caller[d]
      BY <1>5, <1>13, <3>1 DEF Current
    <3>3. ~Superseded(d) /\ session.untagged_response_pending = TRUE
      BY <3>2 DEF ClientInv, AppliesPend
    <3>4. UntaggedInFlight
      BY <3>3 DEF UntaggedInFlight, ClientInv, Known
    <3>5. CASE RetireUntagged
      <4>1. connection' = 0
        BY <3>4, <3>5 DEF RetireUntagged, Retire
      <4> QED BY <4>1 DEF Current
    <3>6. CASE apply_wait_generation' = apply_wait_generation
      BY <3>2, <3>3, <3>6 DEF Superseded
    <3> QED BY <1>2, <3>5, <3>6
  <2>2. /\ OneReader' /\ Known' /\ TrafficIsSound(session', requests')
        /\ session.overdue = FALSE => NamelessIsExpected(session', caller')
    <3>1. requests <= requests' /\ requests' \in Nat
      BY <1>1
    <3> HIDE DEF ClientInv
    <3> QED BY <1>1, <1>4, <1>4a, <1>8, <1>13, <3>1, BystanderMoves
  <2> QED BY <1>6, <1>9, <1>10, <1>11, <1>13, <2>1, <2>2 DEF ClientInv, ReplyIsOwn, NoOvertaking
<1> QED BY <1>7, <1>12, <1>13

(* A thread returns without touching what is on its way.  If it was the reader, no reply that  *)
(* would not name its request is, or the connection is one that could not be retired.          *)
Departs(c) ==
    /\ caller' = Return(c)
    /\ UNCHANGED <<apply_wait_generation, connection, connections, requests, clientHistory>>
    /\ session' \in SessionType
    /\ session'.wire = session.wire /\ session'.received = session.received
    /\ session'.response_inbox = session.response_inbox /\ session'.peer = session.peer
    /\ session'.protocol = session.protocol /\ session'.connected = session.connected
    /\ session'.reader = IF Waits(c) THEN Nobody ELSE session.reader
    /\ Waits(c) \/ session'.untagged_response_pending = session.untagged_response_pending
    /\ session'.overdue = FALSE => session.overdue = FALSE /\ (Waits(c) => NoNameless(session))

LEMMA DepartKeeps == ASSUME ClientInv, NEW c \in Callers, Departs(c) PROVE ClientInv'
<1>1. /\ caller' \in [Callers -> CallType] /\ caller'[c] = NoCall
      /\ \A d \in Callers : d # c => caller'[d] = caller[d]
  BY IdleCall, CallerMoves DEF ClientInv, Departs, Return
<1>2. UNCHANGED <<apply_wait_generation, connection, connections, requests, clientHistory>>
  BY DEF Departs
<1>3. ~Current(c)' /\ \A d \in Callers : d # c => (Current(d)' <=> Current(d)) /\ (Superseded(d)' <=> Superseded(d))
  BY <1>1, <1>2, IdleCall DEF Current, Superseded
<1>4. ClientType'
  BY <1>1, <1>2 DEF ClientInv, ClientType, Departs
<1>5. Numbered'
  <2>1. CallIsNumbered(c)'
    BY <1>1, <1>2, IdleCall DEF CallIsNumbered, ClientInv, ClientType, NoCall
  <2>2. ASSUME NEW d \in Callers, d # c PROVE CallIsNumbered(d)'
    BY <1>1, <1>2, <2>2 DEF CallIsNumbered, ClientInv, Numbered
  <2> QED BY <1>2, <2>1, <2>2 DEF Numbered, ClientInv, Departs
<1>7. session.reader \in Callers \cup {Nobody} /\ Nobody \notin Callers
  BY ClientAssumption DEF ClientInv, ClientType, SessionType, Nobody
<1>6. session.reader = c => Waits(c)
  BY <1>7 DEF ClientInv, OneReader, Waits
<1>8. OneReader'
  <2>1. CASE Waits(c)
    <3>1. session.reader = c /\ session'.reader = Nobody
      BY <2>1 DEF Waits, Departs
    <3> QED BY <1>1, <1>3, <1>7, <3>1, IdleCall DEF OneReader, Reads, ClientInv
  <2>2. CASE ~Waits(c)
    <3>1. session.reader # c /\ session'.reader = session.reader
      BY <1>6, <2>2 DEF Departs
    <3> QED BY <1>1, <1>3, <1>7, <3>1, IdleCall DEF OneReader, Reads, ClientInv
  <2> QED BY <2>1, <2>2
<1>9. OneApply' /\ Known'
  BY <1>1, <1>2, <1>3, IdleCall DEF OneApply, Known, ClientInv, Departs
<1>10. TrafficIsSound(session', requests')
  BY <1>2, TrafficStays DEF ClientInv, ClientType, Departs
<1>11. ASSUME session'.overdue = FALSE PROVE NamelessIsExpected(session', caller')
  <2>1. CASE Waits(c)
    BY <1>11, <2>1, NoneExpected, AbsenceStays DEF Departs
  <2>2. CASE ~Waits(c)
    <3>1. session.reader # Nobody => caller'[session.reader] = caller[session.reader]
      BY <1>1, <1>6, <1>7, <2>2
    <3>2. NamelessIsExpected(session, caller) /\ session'.reader = session.reader
      BY <1>11, <2>2 DEF ClientInv, Departs
    <3> QED BY <3>1, <3>2, ExpectationStays DEF Departs
  <2> QED BY <2>1, <2>2
<1>12. AppliesPend'
  <2> SUFFICES ASSUME NEW d \in Callers, session'.peer = "legacy", Current(d)', caller'[d].pc = "wait",
                      caller'[d].command = "apply", caller'[d].protocol # "legacy"
               PROVE  ~Superseded(d)' /\ session'.untagged_response_pending = TRUE
    BY DEF AppliesPend
  <2>1. d # c /\ caller'[d] = caller[d] /\ Current(d)
    BY <1>1, <1>3
  <2>2. ~Superseded(d) /\ session.untagged_response_pending = TRUE /\ session.reader = d
    BY <2>1 DEF ClientInv, AppliesPend, OneReader, Reads, Departs
  <2>3. ~Waits(c)
    BY <2>1, <2>2 DEF Waits
  <2> QED BY <1>3, <2>1, <2>2, <2>3 DEF Departs
<1> QED BY <1>2, <1>4, <1>5, <1>8, <1>9, <1>10, <1>11, <1>12 DEF ClientInv, ReplyIsOwn, NoOvertaking

--------------------------------------------------------------------------------
(* A thread joins the connection there is.                                                     *)
LEMMA JoinKeeps ==
    ASSUME ClientInv, NEW c \in Callers, Connect(c), session.connected,
           caller' = Adopt(c, connection, session.protocol), UNCHANGED <<connection, connections, session>>
    PROVE  ClientInv'
<1> DEFINE call == caller[c]
           pc == IF NeedsNoReply(call.command, session.protocol) THEN "send" ELSE "reader"
           x == [call EXCEPT !.connection = connection, !.protocol = session.protocol, !.pc = pc]
<1>1. /\ call \in CallType /\ call.pc = "connect" /\ CallIsNumbered(c) /\ connection \in 1..connections
      /\ connection \in Nat /\ session.protocol \in Protocols
  BY DEF ClientInv, ClientType, Numbered, Connect, SessionType
<1>2. /\ x \in CallType /\ x.pc \in {"send", "reader"} /\ x.connection = connection
      /\ x.pc = "send" <=> NeedsNoReply(x.command, x.protocol)
      /\ x.command = call.command /\ x.id = call.id /\ x.generation = call.generation
      /\ x.protocol = session.protocol
  <2>1. pc \in {"send", "reader"} /\ (pc = "send" <=> NeedsNoReply(call.command, session.protocol))
    OBVIOUS
  <2> HIDE DEF call, pc
  <2>2. x \in CallType
    BY <1>1, <2>1 DEF CallType
  <2>3. /\ x.pc = pc /\ x.connection = connection /\ x.command = call.command /\ x.id = call.id
        /\ x.generation = call.generation /\ x.protocol = session.protocol
    BY <1>1 DEF CallType
  <2> QED BY <2>1, <2>2, <2>3
<1>3. caller' = [caller EXCEPT ![c] = x]
  BY DEF Adopt, ClientInv, ClientType
<1> HIDE DEF x
<1>4. /\ caller' \in [Callers -> CallType] /\ caller'[c] = x
      /\ \A d \in Callers : d # c => caller'[d] = caller[d]
  BY <1>2, <1>3, CallerMoves DEF ClientInv
<1>5. UNCHANGED <<apply_wait_generation, connection, connections, session, requests, clientHistory>>
  BY DEF Connect
<1>6. \A d \in Callers : d # c => (Current(d)' <=> Current(d)) /\ (Superseded(d)' <=> Superseded(d))
  BY <1>4, <1>5 DEF Current, Superseded
<1>7. /\ ~Reads(c) /\ ~Reads(c)' /\ (Superseded(c)' <=> Superseded(c))
  BY <1>1, <1>2, <1>4, <1>5 DEF Reads, Superseded
<1>8. session.reader # c /\ session.reader \in Callers \cup {Nobody} /\ Nobody \notin Callers
  BY <1>7, ClientAssumption DEF ClientInv, ClientType, SessionType, Nobody, OneReader
<1>9. ClientType'
  BY <1>4, <1>5 DEF ClientInv, ClientType
<1>10. Numbered'
  <2>1. CallIsNumbered(c)'
    BY <1>1, <1>2, <1>4, <1>5 DEF CallIsNumbered, ClientInv, ClientType, call
  <2>2. ASSUME NEW d \in Callers, d # c PROVE CallIsNumbered(d)'
    BY <1>4, <1>5, <2>2 DEF CallIsNumbered, ClientInv, Numbered
  <2> QED BY <1>5, <2>1, <2>2 DEF Numbered, ClientInv
<1>11. OneReader'
  BY <1>4, <1>5, <1>6, <1>7, <1>8 DEF OneReader, Reads, ClientInv
<1>12. OneApply'
  BY <1>2, <1>4, <1>6, <1>7 DEF OneApply, ClientInv, call
<1>13. Known'
  BY <1>2, <1>4, <1>5, <1>6 DEF Known, ClientInv
<1>14. session.overdue = FALSE => NamelessIsExpected(session', caller')
  <2>1. session.reader # Nobody => caller'[session.reader] = caller[session.reader]
    BY <1>4, <1>8
  <2> QED BY <1>5, <2>1, ExpectationStays DEF ClientInv
<1>15. AppliesPend'
  BY <1>2, <1>4, <1>5, <1>6 DEF AppliesPend, ClientInv
<1> QED BY <1>5, <1>9, <1>10, <1>11, <1>12, <1>13, <1>14, <1>15 DEF ClientInv, ReplyIsOwn, NoOvertaking

(* A thread retires the connection and returns.                                                *)
LEMMA RetireReturns ==
    ASSUME ClientInv, NEW c \in Callers, Retire, caller' = Return(c),
           UNCHANGED <<apply_wait_generation, connections, requests, clientHistory>>
    PROVE  ClientInv'
<1>1. /\ caller' \in [Callers -> CallType] /\ caller'[c] = NoCall
      /\ \A d \in Callers : d # c => caller'[d] = caller[d]
  BY IdleCall, CallerMoves DEF ClientInv, Return
<1>2. ClientType'
  BY <1>1, Retired DEF ClientInv, ClientType, Retire
<1>3. CallIsNumbered(c)'
  BY <1>1, IdleCall DEF CallIsNumbered, ClientInv, ClientType, NoCall
<1>4. ASSUME NEW d \in Callers, d # c PROVE CallIsNumbered(d)'
  BY <1>1, <1>4 DEF CallIsNumbered, ClientInv, Numbered
<1>5. Numbered'
  BY <1>3, <1>4 DEF Numbered, ClientInv, Retire, NoSession, NewSession
<1>6. OneApply'
  BY <1>1, IdleCall DEF OneApply, ClientInv, Superseded
<1> QED BY <1>2, <1>5, <1>6, Retired DEF ClientInv, ReplyIsOwn, NoOvertaking

(* Or it makes a new one, on which there is nobody else; or it fails to.                       *)
LEMMA ConnectKeeps == ASSUME ClientInv, NEW c \in Callers, Connect(c) PROVE ClientInv'
<1>1. UNCHANGED <<apply_wait_generation, requests, clientHistory>> /\ caller[c].pc = "connect"
  BY DEF Connect
<1>2. CASE session.connected
  BY <1>2, JoinKeeps DEF Connect
<1>3. CASE Retire /\ caller' = Return(c) /\ UNCHANGED connections
  BY <1>1, <1>3, RetireReturns
<1>4. ASSUME connections' = connections + 1, connection' = connections', NEW peer \in Peers,
             session' = NewSession(peer), caller' = Adopt(c, connection', "unknown")
      PROVE  ClientInv'
  <2> DEFINE call == caller[c]
             pc == IF NeedsNoReply(call.command, "unknown") THEN "send" ELSE "reader"
             x == [call EXCEPT !.connection = connection', !.protocol = "unknown", !.pc = pc]
  <2>1. /\ call \in CallType /\ CallIsNumbered(c) /\ connection' = connections + 1 /\ connections \in Nat
        /\ "unknown" \in Protocols /\ connection' \in Nat
    BY <1>4 DEF ClientInv, ClientType, Numbered, Protocols
  <2>2. /\ x \in CallType /\ x.pc = pc /\ x.connection = connection' /\ x.command = call.command
        /\ x.id = call.id /\ x.generation = call.generation /\ x.protocol = "unknown"
        /\ pc \in {"send", "reader"} /\ (pc = "send" <=> NeedsNoReply(call.command, "unknown"))
    <3>1. pc \in {"send", "reader"} /\ (pc = "send" <=> NeedsNoReply(call.command, "unknown"))
      OBVIOUS
    <3> HIDE DEF call, pc
    <3>2. x \in CallType
      BY <2>1, <3>1 DEF CallType
    <3>3. /\ x.pc = pc /\ x.connection = connection' /\ x.command = call.command /\ x.id = call.id
          /\ x.generation = call.generation /\ x.protocol = "unknown"
      BY <2>1 DEF CallType
    <3> QED BY <3>1, <3>2, <3>3
  <2>3. caller' = [caller EXCEPT ![c] = x]
    BY <1>4 DEF Adopt, ClientInv, ClientType
  <2> HIDE DEF x
  <2>4. /\ caller' \in [Callers -> CallType] /\ caller'[c] = x
        /\ \A d \in Callers : d # c => caller'[d] = caller[d]
    BY <2>2, <2>3, CallerMoves DEF ClientInv
  <2> HIDE DEF pc
  <2>5. \A d \in Callers : d # c => ~Current(d)'
    BY <1>4, <2>1, <2>4 DEF Current, ClientInv, ClientType, Numbered, CallIsNumbered, CallType
  <2>6. /\ session'.reader = Nobody /\ session'.protocol = "unknown" /\ session'.wire = <<>>
        /\ session'.received = <<>> /\ session'.response_inbox = {} /\ session' \in SessionType
    BY <1>4, SessionBegins DEF NewSession
  <2>7. ~Reads(c)' /\ (Superseded(c)' <=> Superseded(c))
    BY <1>1, <2>2, <2>4 DEF Reads, Superseded, call
  <2>8. ClientType'
    BY <1>1, <1>4, <2>1, <2>4, <2>6 DEF ClientInv, ClientType
  <2>9. Numbered'
    <3>1. CallIsNumbered(c)'
      BY <1>1, <1>4, <2>1, <2>2, <2>4 DEF CallIsNumbered, call
    <3>2. ASSUME NEW d \in Callers, d # c PROVE CallIsNumbered(d)'
      BY <1>1, <1>4, <2>1, <2>4, <3>2 DEF CallIsNumbered, ClientInv, Numbered, ClientType, CallType
    <3> QED BY <1>1, <1>4, <2>1, <3>1, <3>2 DEF Numbered, ClientInv
  <2>10. OneReader' /\ Known' /\ AppliesPend'
    BY <2>2, <2>4, <2>5, <2>6, <2>7 DEF OneReader, Known, AppliesPend, Reads
  <2>11. OneApply'
    BY <1>1, <2>2, <2>4, <2>7 DEF OneApply, ClientInv, Superseded, call
  <2>12. TrafficIsSound(session', requests') /\ NoNameless(session')
    BY <2>6 DEF TrafficIsSound, NoNameless
  <2> QED BY <1>1, <2>8, <2>9, <2>10, <2>11, <2>12, NoneExpected DEF ClientInv, ReplyIsOwn, NoOvertaking
<1> QED BY <1>2, <1>3, <1>4 DEF Connect

(* The thread that gets response_mutex is the reader from then on.                             *)
LEMMA LockReaderKeeps == ASSUME ClientInv, NEW c \in Callers, LockReader(c) PROVE ClientInv'
<1>1. /\ caller[c].pc = "reader" /\ caller[c] \in CallType /\ CallIsNumbered(c) /\ session \in SessionType
      /\ UNCHANGED <<apply_wait_generation, connection, connections, requests, clientHistory>>
  BY DEF ClientInv, ClientType, Numbered, LockReader
<1>2. CASE caller' = Return(c) /\ UNCHANGED session
  <2>1. ~Waits(c)
    BY <1>1, ClientAssumption DEF Waits, ClientInv, OneReader, Reads, Nobody
  <2>2. Departs(c)
    BY <1>1, <1>2, <2>1 DEF Departs
  <2> QED BY <2>2, DepartKeeps
<1>3. CASE /\ Current(c) /\ session.reader = Nobody
           /\ session' = [session EXCEPT !.reader = c]
           /\ caller' = [caller EXCEPT ![c].pc = IF caller[c].command = "verify" THEN "wait" ELSE "send"]
  <2> DEFINE call == caller[c]
             pc == IF call.command = "verify" THEN "wait" ELSE "send"
             x == [call EXCEPT !.pc = pc]
  <2>1. pc \in {"wait", "send"} /\ (pc = "wait" <=> call.command = "verify")
    OBVIOUS
  <2>2. x \in CallType /\ x.pc = pc /\ x.connection = call.connection /\ x.command = call.command
        /\ x.id = call.id /\ x.generation = call.generation /\ x.protocol = call.protocol
    <3>1. call \in CallType
      BY <1>1
    <3> HIDE DEF call, pc
    <3> QED BY <2>1, <3>1 DEF CallType
  <2>3. caller' = [caller EXCEPT ![c] = x]
    BY <1>3 DEF ClientInv, ClientType
  <2> HIDE DEF x, pc
  <2>4. /\ caller' \in [Callers -> CallType] /\ caller'[c] = x
        /\ \A d \in Callers : d # c => caller'[d] = caller[d]
    BY <2>2, <2>3, CallerMoves DEF ClientInv
  <2>5. \A d \in Callers : (Current(d)' <=> Current(d)) /\ (Superseded(d)' <=> Superseded(d))
    BY <1>1, <2>2, <2>4 DEF Current, Superseded, call
  <2>6. /\ session' \in SessionType /\ session'.reader = c /\ session'.wire = session.wire
        /\ session'.received = session.received /\ session'.response_inbox = session.response_inbox
        /\ session'.peer = session.peer /\ session'.protocol = session.protocol
        /\ session'.connected = session.connected /\ session'.overdue = session.overdue
        /\ session'.untagged_response_pending = session.untagged_response_pending
    BY <1>1, <1>3 DEF SessionType
  <2>7. ClientType'
    BY <1>1, <2>4, <2>6 DEF ClientInv, ClientType
  <2>8. Numbered'
    <3>1. CallIsNumbered(c)'
      BY <1>1, <2>1, <2>2, <2>4 DEF CallIsNumbered, call
    <3>2. ASSUME NEW d \in Callers, d # c PROVE CallIsNumbered(d)'
      BY <1>1, <2>4, <3>2 DEF CallIsNumbered, ClientInv, Numbered
    <3> QED BY <1>1, <2>6, <3>1, <3>2 DEF Numbered, ClientInv
  <2>9. OneReader'
    <3>1. \A d \in Callers : d # c => ~(Current(d)' /\ Reads(d)')
      BY <1>3, <2>4, <2>5, ClientAssumption DEF ClientInv, OneReader, Reads, Nobody
    <3>2. Current(c)' /\ Reads(c)'
      BY <1>1, <1>3, <2>1, <2>2, <2>4, <2>5 DEF Reads, CallIsNumbered, call
    <3> QED BY <2>6, <3>1, <3>2 DEF OneReader
  <2>10. OneApply' /\ Known'
    BY <2>2, <2>4, <2>5, <2>6 DEF OneApply, Known, ClientInv, call
  <2>11. TrafficIsSound(session', requests')
    BY <1>1, <2>6, TrafficStays DEF ClientInv, ClientType
  <2>12. ASSUME session'.overdue = FALSE PROVE NamelessIsExpected(session', caller')
    <3>1. NoNameless(session)
      BY <1>3, <2>6, <2>12, NobodyWaits DEF ClientInv
    <3>2. NoNameless(session')
      BY <2>6, <3>1, AbsenceStays
    <3> QED BY <3>2, NoneExpected
  <2>13. AppliesPend'
    BY <2>1, <2>2, <2>4, <2>5, <2>6 DEF AppliesPend, ClientInv
  <2> QED BY <1>1, <2>7, <2>8, <2>9, <2>10, <2>11, <2>12, <2>13 DEF ClientInv, ReplyIsOwn, NoOvertaking
<1> QED BY <1>2, <1>3 DEF LockReader

--------------------------------------------------------------------------------
(* One more frame on the wire.                                                                *)
LEMMA FrameIsAdded ==
    ASSUME NEW s, NEW t, NEW n \in Nat, NEW frame, s.wire \in Seq(FrameType), frame \in FrameType,
           TrafficIsSound(s, n), FrameIsSound(s, n, frame),
           t.wire = Append(s.wire, frame), t.received = s.received,
           t.response_inbox = s.response_inbox, t.peer = s.peer
    PROVE  TrafficIsSound(t, n)
<1>1. \A f : FrameIsSound(s, n, f) => FrameIsSound(t, n, f)
  BY DEF FrameIsSound
<1>2. \A reply : ReplyIsSound(s, n, reply) => ReplyIsSound(t, n, reply)
  BY DEF ReplyIsSound
<1>3. \A i \in 1..Len(t.wire) : FrameIsSound(t, n, t.wire[i])
  <2> TAKE i \in 1..Len(t.wire)
  <2>1. t.wire[i] = frame \/ (i \in 1..Len(s.wire) /\ t.wire[i] = s.wire[i])
    OBVIOUS
  <2> QED BY <1>1, <2>1 DEF TrafficIsSound
<1> QED BY <1>1, <1>2, <1>3 DEF TrafficIsSound

LEMMA SilentFrameIsAdded ==
    ASSUME NEW s, NEW t, NEW calls, NEW frame, s.wire \in Seq(FrameType), frame \in FrameType,
           NamelessIsExpected(s, calls), ~NamelessFrame(s, frame),
           t.wire = Append(s.wire, frame), t.received = s.received,
           t.response_inbox = s.response_inbox, t.peer = s.peer, t.reader = s.reader
    PROVE  NamelessIsExpected(t, calls)
<1>1. \A i \in 1..Len(t.wire) : NamelessFrame(t, t.wire[i]) =>
         i \in 1..Len(s.wire) /\ NamelessFrame(s, s.wire[i]) /\ t.wire[i] = s.wire[i]
  <2> TAKE i \in 1..Len(t.wire)
  <2>1. t.wire[i] = frame \/ (i \in 1..Len(s.wire) /\ t.wire[i] = s.wire[i])
    OBVIOUS
  <2> QED BY <2>1 DEF NamelessFrame
<1>2. \A command, id : Expected(s, calls, command, id) => Expected(t, calls, command, id)
  BY DEF Expected
<1> QED BY <1>1, <1>2 DEF NamelessIsExpected

LEMMA OnlyFrameIsExpected ==
    ASSUME NEW s, NEW t, NEW calls, NEW frame, s.wire \in Seq(FrameType), frame \in FrameType,
           NoNameless(s), NamelessFrame(s, frame) => Expected(t, calls, frame.command, frame.id),
           t.wire = Append(s.wire, frame), t.received = s.received,
           t.response_inbox = s.response_inbox, t.peer = s.peer
    PROVE  NamelessIsExpected(t, calls)
<1>1. \A i \in 1..Len(t.wire) : NamelessFrame(t, t.wire[i]) =>
         i = Len(s.wire) + 1 /\ t.wire[i] = frame /\ NamelessFrame(s, frame)
  <2> TAKE i \in 1..Len(t.wire)
  <2>1. (i = Len(s.wire) + 1 /\ t.wire[i] = frame) \/ (i \in 1..Len(s.wire) /\ t.wire[i] = s.wire[i])
    OBVIOUS
  <2> QED BY <2>1 DEF NamelessFrame, NoNameless
<1> QED BY <1>1 DEF NamelessIsExpected, NoNameless

LEMMA FrameIs ==
    ASSUME ClientInv, NEW c \in Callers, caller[c].pc = "send"
    PROVE  /\ caller[c].command # "control" => Frame(c) \in FrameType
           /\ FrameIsSound(session, requests, Frame(c))
           /\ Frame(c).command = caller[c].command /\ Frame(c).id = caller[c].id
           /\ Frame(c).tagged <=> caller[c].command = "apply" \/ caller[c].protocol = "v2"
<1>1. /\ caller[c] \in CallType /\ CallIsNumbered(c) /\ caller[c].command # "none"
      /\ caller[c].command # "verify" /\ requests \in Nat
  BY DEF ClientInv, ClientType, Numbered, CallIsNumbered
<1> QED BY <1>1 DEF Frame, FrameType, FrameIsSound, CallIsNumbered, CallType, Commands

(* The command is written: it is the newest, and the thread waits if it is the reader.          *)
Writes(c) ==
    /\ caller[c].pc = "send" /\ MaySend(c)
    /\ session' = [session EXCEPT
                      !.wire = IF caller[c].command = "control" THEN @ ELSE Append(@, Frame(c)),
                      !.untagged_response_pending = @ \/ BeginsUntagged(c)]
    /\ caller' = IF Waits(c) THEN [caller EXCEPT ![c].pc = "wait"] ELSE Return(c)
    /\ clientHistory' = [clientHistory EXCEPT
                           !.overtook = @ \/ caller[c].generation < clientHistory.newest,
                           !.newest = IF @ < caller[c].generation THEN caller[c].generation ELSE @]
    /\ UNCHANGED <<apply_wait_generation, connection, connections, requests>>

LEMMA WritesSession ==
    ASSUME ClientInv, NEW c \in Callers, Writes(c)
    PROVE  /\ session' \in SessionType /\ session'.reader = session.reader
           /\ session'.received = session.received /\ session'.response_inbox = session.response_inbox
           /\ session'.peer = session.peer /\ session'.protocol = session.protocol
           /\ session'.connected = session.connected /\ session'.overdue = session.overdue
           /\ session.untagged_response_pending = TRUE \/ BeginsUntagged(c)
                 => session'.untagged_response_pending = TRUE
           /\ caller[c].command = "control" => session'.wire = session.wire
           /\ caller[c].command # "control" => session'.wire = Append(session.wire, Frame(c))
<1> DEFINE s == session
           wire == IF caller[c].command = "control" THEN session.wire ELSE Append(session.wire, Frame(c))
           pending == session.untagged_response_pending \/ BeginsUntagged(c)
<1>1. s \in SessionType
  BY DEF ClientInv, ClientType
<1>2. wire \in Seq(FrameType)
  BY <1>1, FrameIs DEF Writes, SessionType
<1>3. pending \in BOOLEAN /\ (s.untagged_response_pending = TRUE \/ BeginsUntagged(c) => pending = TRUE)
  BY <1>1 DEF SessionType
<1>4. session' = [s EXCEPT !.wire = wire, !.untagged_response_pending = pending]
  BY DEF Writes
<1>5. /\ caller[c].command = "control" => wire = session.wire
      /\ caller[c].command # "control" => wire = Append(session.wire, Frame(c))
  OBVIOUS
<1> HIDE DEF wire, pending
<1>6. /\ session' \in SessionType /\ session'.wire = wire /\ session'.untagged_response_pending = pending
      /\ session'.reader = s.reader /\ session'.received = s.received
      /\ session'.response_inbox = s.response_inbox /\ session'.peer = s.peer
      /\ session'.protocol = s.protocol /\ session'.connected = s.connected /\ session'.overdue = s.overdue
  <2> HIDE DEF s
  <2> QED BY <1>1, <1>2, <1>3, <1>4 DEF SessionType
<1> QED BY <1>3, <1>5, <1>6

LEMMA WritesHistory ==
    ASSUME ClientInv, NEW c \in Callers, Writes(c)
    PROVE  /\ clientHistory' \in HistoryType /\ clientHistory'.newest <= apply_wait_generation
           /\ NoOvertaking' /\ ReplyIsOwn'
<1> DEFINE generation == caller[c].generation
           newest == IF clientHistory.newest < generation THEN generation ELSE clientHistory.newest
           overtook == clientHistory.overtook \/ generation < clientHistory.newest
<1>1. /\ generation \in Nat /\ generation = apply_wait_generation /\ clientHistory \in HistoryType
      /\ clientHistory.newest <= apply_wait_generation /\ clientHistory.overtook = FALSE
      /\ clientHistory.misread = FALSE /\ clientHistory.newest \in Nat
  BY DEF ClientInv, ClientType, Numbered, Writes, MaySend, Superseded, CallType, NoOvertaking, ReplyIsOwn,
         HistoryType
<1>2. newest \in Nat /\ newest <= apply_wait_generation /\ overtook = FALSE
  BY <1>1
<1>3. clientHistory' = [clientHistory EXCEPT !.overtook = overtook, !.newest = newest]
  BY DEF Writes
<1> HIDE DEF newest, overtook
<1> QED BY <1>1, <1>2, <1>3 DEF HistoryType, NoOvertaking, ReplyIsOwn

LEMMA WritesKeeps == ASSUME ClientInv, NEW c \in Callers, Writes(c) PROVE ClientInv'
<1> DEFINE call == caller[c]
           x == IF Waits(c) THEN [call EXCEPT !.pc = "wait"] ELSE NoCall
<1>1. /\ call.pc = "send" /\ call \in CallType /\ CallIsNumbered(c) /\ session \in SessionType
      /\ Current(c) /\ ~Superseded(c) /\ requests \in Nat
      /\ UNCHANGED <<apply_wait_generation, connection, connections, requests>>
  BY DEF ClientInv, ClientType, Numbered, Writes, MaySend
<1>2. session.reader \in Callers \cup {Nobody} /\ Nobody \notin Callers /\ (session.reader = c <=> Waits(c))
  BY <1>1, ClientAssumption DEF SessionType, Nobody, Waits
<1>3. /\ x \in CallType
      /\ Waits(c) => /\ x.pc = "wait" /\ x.connection = call.connection /\ x.command = call.command
                     /\ x.id = call.id /\ x.generation = call.generation /\ x.protocol = call.protocol
      /\ ~Waits(c) => x = NoCall
  <2>1. call \in CallType
    BY <1>1
  <2> HIDE DEF call
  <2> QED BY <2>1, IdleCall DEF CallType
<1>4. caller' = [caller EXCEPT ![c] = x]
  BY DEF Writes, Return, ClientInv, ClientType
<1> HIDE DEF x
<1>5. /\ caller' \in [Callers -> CallType] /\ caller'[c] = x
      /\ \A d \in Callers : d # c => caller'[d] = caller[d]
  BY <1>3, <1>4, CallerMoves DEF ClientInv
<1>6. \A d \in Callers : d # c => (Current(d)' <=> Current(d)) /\ (Superseded(d)' <=> Superseded(d))
  BY <1>1, <1>5 DEF Current, Superseded
<1>7. /\ Waits(c) => Current(c)' /\ ~Superseded(c)'
      /\ ~Waits(c) => ~Current(c)'
  BY <1>1, <1>3, <1>5, IdleCall DEF Current, Superseded, call
<1>8. ClientType'
  BY <1>1, <1>5, WritesSession, WritesHistory DEF ClientInv, ClientType
<1>9. Numbered'
  <2>1. CallIsNumbered(c)'
    BY <1>1, <1>3, <1>5, IdleCall DEF CallIsNumbered, call, NoCall, ClientInv, ClientType
  <2>2. ASSUME NEW d \in Callers, d # c PROVE CallIsNumbered(d)'
    BY <1>1, <1>5, <2>2 DEF CallIsNumbered, ClientInv, Numbered
  <2> QED BY <1>1, <2>1, <2>2, WritesSession, WritesHistory DEF Numbered, ClientInv
<1>10. OneReader'
  <2>1. session'.reader = session.reader
    BY WritesSession
  <2>2. \A d \in Callers : d # c => (Reads(d)' <=> Reads(d))
    BY <1>5 DEF Reads
  <2>3. Waits(c) => Reads(c)'
    BY <1>3, <1>5 DEF Reads
  <2> QED BY <1>2, <1>6, <1>7, <2>1, <2>2, <2>3 DEF OneReader, ClientInv
<1>11. OneApply'
  BY <1>1, <1>3, <1>5, <1>6, <1>7, IdleCall DEF OneApply, ClientInv, call
<1>12. Known'
  BY <1>1, <1>3, <1>5, <1>6, <1>7, WritesSession, ZenonT(60) DEF Known, ClientInv, call
<1>13. TrafficIsSound(session', requests')
  <2>1. CASE caller[c].command = "control"
    <3>1. /\ session'.wire = session.wire /\ session'.received = session.received
          /\ session'.response_inbox = session.response_inbox /\ session'.peer = session.peer
      BY <2>1, WritesSession
    <3>2. requests <= requests /\ TrafficIsSound(session, requests)
      BY <1>1 DEF ClientInv
    <3> QED BY <1>1, <3>1, <3>2, TrafficStays
  <2>2. CASE caller[c].command # "control"
    <3>1. Frame(c) \in FrameType /\ FrameIsSound(session, requests, Frame(c)) /\ session.wire \in Seq(FrameType)
      BY <1>1, <2>2, FrameIs DEF SessionType
    <3> QED BY <1>1, <2>2, <3>1, FrameIsAdded, WritesSession DEF ClientInv
  <2> QED BY <2>1, <2>2
<1>14. ASSUME session'.overdue = FALSE PROVE NamelessIsExpected(session', caller')
  <2>1. NamelessIsExpected(session, caller)
    BY <1>14, WritesSession DEF ClientInv
  <2>2. CASE Waits(c)
    <3>1. NoNameless(session)
      BY <1>1, <1>2, <2>1, <2>2, NobodyWaits
    <3>2. caller[c].command # "control"
      BY <1>1, <1>2, <2>2 DEF ClientInv, OneReader, Reads, NeedsNoReply
    <3>3. Frame(c) \in FrameType /\ session.wire \in Seq(FrameType)
      BY <1>1, <3>2, FrameIs DEF SessionType
    <3>4. NamelessFrame(session, Frame(c)) /\ Frame(c).command = "refresh" => call.protocol # "v2"
      BY <1>1, FrameIs DEF NamelessFrame, ClientInv, Known
    <3>5. NamelessFrame(session, Frame(c)) => Expected(session', caller', Frame(c).command, Frame(c).id)
      BY <1>1, <1>2, <1>3, <1>5, <2>2, <3>4, FrameIs, WritesSession, ZenonT(60) DEF Expected, Expects, Waits
    <3> QED BY <3>1, <3>2, <3>3, <3>5, OnlyFrameIsExpected, WritesSession
  <2>3. CASE ~Waits(c)
    <3>1. NamelessIsExpected(session, caller')
      <4>1. session.reader # Nobody => caller'[session.reader] = caller[session.reader]
        BY <1>2, <1>5, <2>3
      <4> QED BY <2>1, <4>1, ExpectationStays
    <3>2. CASE caller[c].command = "control"
      BY <3>1, <3>2, ExpectationStays, WritesSession
    <3>3. CASE caller[c].command # "control"
      <4>1. NeedsNoReply(call.command, call.protocol)
        BY <1>1, <1>2, <2>3 DEF ClientInv, OneReader, Reads
      <4>2. ~NamelessFrame(session, Frame(c))
        BY <1>1, <3>3, <4>1, FrameIs DEF NamelessFrame, NeedsNoReply
      <4>3. Frame(c) \in FrameType /\ session.wire \in Seq(FrameType)
        BY <1>1, <3>3, FrameIs DEF SessionType
      <4> QED BY <3>1, <3>3, <4>2, <4>3, SilentFrameIsAdded, WritesSession
    <3> QED BY <3>2, <3>3
  <2> QED BY <2>2, <2>3
<1>15. AppliesPend'
  <2> SUFFICES ASSUME NEW d \in Callers, session'.peer = "legacy", Current(d)', caller'[d].pc = "wait",
                      caller'[d].command = "apply", caller'[d].protocol # "legacy"
               PROVE  ~Superseded(d)' /\ session'.untagged_response_pending = TRUE
    BY DEF AppliesPend
  <2>1. CASE d # c
    BY <1>5, <1>6, <2>1, WritesSession DEF AppliesPend, ClientInv
  <2>2. CASE d = c
    <3>1. Waits(c) /\ call.command = "apply" /\ call.protocol # "legacy"
      BY <1>3, <1>5, <1>7, <2>2
    <3>2. call.protocol = "unknown"
      BY <1>1, <3>1, WritesSession DEF ClientInv, Known
    <3>3. session.protocol = "unknown"
      BY <1>1, <3>1, <3>2 DEF ClientInv, Known
    <3>4. BeginsUntagged(c)
      BY <3>1, <3>3 DEF BeginsUntagged
    <3> QED BY <1>7, <2>2, <3>1, <3>4, WritesSession
  <2> QED BY <2>1, <2>2
<1> QED BY <1>8, <1>9, <1>10, <1>11, <1>12, <1>13, <1>14, <1>15, WritesHistory, WritesSession DEF ClientInv

LEMMA SendKeeps == ASSUME ClientInv, NEW c \in Callers, Send(c) PROVE ClientInv'
<1>1. CASE Writes(c)
  BY <1>1, WritesKeeps
<1>2. CASE ~Writes(c)
  <2> DEFINE s == Unlocked(c)
             pending == s.untagged_response_pending /\ ~(MaySend(c) /\ BeginsUntagged(c))
  <2>1. /\ session' = [s EXCEPT !.untagged_response_pending = pending]
        /\ caller' = Return(c) /\ caller[c].pc = "send"
        /\ UNCHANGED <<apply_wait_generation, connection, connections, requests, clientHistory>>
    BY <1>2 DEF Send, Writes
  <2>2. /\ s \in SessionType /\ s.wire = session.wire /\ s.received = session.received
        /\ s.response_inbox = session.response_inbox /\ s.peer = session.peer
        /\ s.protocol = session.protocol /\ s.connected = session.connected /\ s.overdue = session.overdue
        /\ s.untagged_response_pending = session.untagged_response_pending
        /\ s.reader = IF Waits(c) THEN Nobody ELSE session.reader
    BY DEF Unlocked, ClientInv, ClientType, SessionType
  <2>3. pending \in BOOLEAN /\ (Waits(c) \/ pending = session.untagged_response_pending)
    <3>1. MaySend(c) /\ BeginsUntagged(c) => Waits(c)
      BY <2>1 DEF MaySend, BeginsUntagged, Waits, ClientInv, OneReader, Reads, NeedsNoReply
    <3> QED BY <2>2, <3>1 DEF SessionType
  <2>4. session.overdue = FALSE /\ Waits(c) => NoNameless(session)
    BY <2>1, NobodyWaits DEF ClientInv, Waits
  <2> HIDE DEF s, pending
  <2>5. Departs(c)
    BY <2>1, <2>2, <2>3, <2>4 DEF Departs, SessionType
  <2> QED BY <2>5, DepartKeeps
<1> QED BY <1>1, <1>2

--------------------------------------------------------------------------------
(* Only a reader whose reply would not name it has one on its way.                              *)
LEMMA WhoIsExpected ==
    ASSUME ClientInv, NEW c \in Callers, Waits(c), session.overdue = FALSE
    PROVE  \/ NoNameless(session)
           \/ caller[c].command = "apply" /\ session.peer = "legacy"
           \/ caller[c].command = "refresh" /\ caller[c].protocol # "v2"
<1>1. NamelessIsExpected(session, caller) /\ TrafficIsSound(session, requests) /\ session.reader = c
  BY DEF ClientInv, Waits
<1>2. session.peer \in {"legacy", "v2"}
  BY DEF ClientInv, ClientType, SessionType, Peers
<1>3. ASSUME NEW i \in 1..Len(session.wire), NamelessFrame(session, session.wire[i])
      PROVE  \/ caller[c].command = "apply" /\ session.peer = "legacy"
             \/ caller[c].command = "refresh" /\ caller[c].protocol # "v2"
  BY <1>1, <1>2, <1>3 DEF NamelessIsExpected, Expected, Expects, NamelessFrame, TrafficIsSound, FrameIsSound
<1>4. ASSUME NEW i \in 1..Len(session.received), Nameless(session.received[i])
      PROVE  \/ caller[c].command = "apply" /\ session.peer = "legacy"
             \/ caller[c].command = "refresh" /\ caller[c].protocol # "v2"
  BY <1>1, <1>2, <1>4 DEF NamelessIsExpected, Expected, Expects, Nameless, TrafficIsSound, ReplyIsSound
<1> QED BY <1>1, <1>3, <1>4 DEF NoNameless, NamelessIsExpected

LEMMA GiveUpKeeps == ASSUME ClientInv, NEW c \in Callers, GiveUp(c) PROVE ClientInv'
<1>1. /\ caller[c].pc = "wait" /\ caller' = Return(c)
      /\ UNCHANGED <<apply_wait_generation, connections, requests, clientHistory>>
  BY DEF GiveUp
<1>2. CASE Retire
  BY <1>1, <1>2, RetireReturns
<1>3. CASE ~Retire
  <2> DEFINE s == Unlocked(c)
  <2>1. /\ connection' = connection
        /\ \/ session' = s /\ ~(Abandons(c) /\ Current(c))
           \/ session' = [s EXCEPT !.overdue = TRUE]
    BY <1>3 DEF GiveUp
  <2>2. /\ s \in SessionType /\ s.wire = session.wire /\ s.received = session.received
        /\ s.response_inbox = session.response_inbox /\ s.peer = session.peer
        /\ s.protocol = session.protocol /\ s.connected = session.connected /\ s.overdue = session.overdue
        /\ s.untagged_response_pending = session.untagged_response_pending
        /\ s.reader = IF Waits(c) THEN Nobody ELSE session.reader
    BY DEF Unlocked, ClientInv, ClientType, SessionType
  <2>3. ASSUME Waits(c), ~(Abandons(c) /\ Current(c)), session.overdue = FALSE PROVE NoNameless(session)
    <3>1. Current(c) /\ ~Abandons(c)
      BY <2>3 DEF Waits
    <3>2. ~(caller[c].command = "refresh" /\ caller[c].protocol # "v2")
      BY <3>1 DEF Abandons, Cancelled
    <3>3. ~(caller[c].command = "apply" /\ session.peer = "legacy")
      BY <1>1, <3>1 DEF Abandons, ClientInv, AppliesPend
    <3> QED BY <2>3, <3>2, <3>3, WhoIsExpected
  <2> HIDE DEF s
  <2>4. Departs(c)
    BY <1>1, <2>1, <2>2, <2>3 DEF Departs, SessionType
  <2> QED BY <2>4, DepartKeeps
<1> QED BY <1>2, <1>3

(* What happens to the traffic alone.                                                            *)
LEMMA TrafficKeeps ==
    ASSUME ClientInv, UNCHANGED <<apply_wait_generation, connection, connections, caller, requests, clientHistory>>,
           session' \in SessionType, session'.reader = session.reader, session'.peer = session.peer,
           session'.protocol = session.protocol, session'.overdue = session.overdue,
           session'.untagged_response_pending = session.untagged_response_pending,
           session'.connected => session.connected,
           TrafficIsSound(session', requests),
           session.overdue = FALSE => NamelessIsExpected(session', caller)
    PROVE  ClientInv'
<1>1. \A c : (Current(c)' <=> Current(c)) /\ (Superseded(c)' <=> Superseded(c)) /\ (Reads(c)' <=> Reads(c))
  BY DEF Current, Superseded, Reads
<1>2. ClientType' /\ Numbered' /\ OneReader' /\ OneApply' /\ Known' /\ AppliesPend'
  BY <1>1 DEF ClientInv, ClientType, Numbered, CallIsNumbered, OneReader, OneApply, Known, AppliesPend
<1> QED BY <1>2 DEF ClientInv, ReplyIsOwn, NoOvertaking

LEMMA PipeBreaksKeeps == ASSUME ClientInv, PipeBreaks PROVE ClientInv'
<1> DEFINE s == session
<1>1. s \in SessionType /\ <<>> \in Seq(FrameType) /\ session' = [s EXCEPT !.connected = FALSE, !.wire = <<>>]
  BY DEF PipeBreaks, ClientInv, ClientType
<1>2. /\ session' \in SessionType /\ session'.reader = s.reader /\ session'.wire = <<>>
      /\ session'.received = s.received /\ session'.response_inbox = s.response_inbox
      /\ session'.peer = s.peer /\ session'.protocol = s.protocol
      /\ session'.overdue = s.overdue /\ session'.connected = FALSE
      /\ session'.untagged_response_pending = s.untagged_response_pending
  <2> HIDE DEF s
  <2> QED BY <1>1 DEF SessionType
<1>3. UNCHANGED <<apply_wait_generation, connection, connections, caller, requests, clientHistory>>
  BY DEF PipeBreaks
<1>4. TrafficIsSound(session', requests)
  BY <1>2 DEF TrafficIsSound, ReplyIsSound, ClientInv
<1>5. session.overdue = FALSE => NamelessIsExpected(session', caller)
  BY <1>2 DEF NamelessIsExpected, Expected, ClientInv
<1> QED BY <1>2, <1>3, <1>4, <1>5, TrafficKeeps

--------------------------------------------------------------------------------
(* A frame is answered, and is gone or asks for a reply that names it: p says where each frame   *)
(* that is left was before.                                                                      *)
Answered(s, t, k, reply, p) ==
    /\ k \in 1..Len(s.wire) /\ reply \in ReplyType
    /\ p \in [1..Len(t.wire) -> 1..Len(s.wire)] /\ s.received \in Seq(ReplyType)
    /\ \A i, j \in 1..Len(t.wire) : p[i] = p[j] => i = j
    /\ \A i \in 1..Len(t.wire) : \/ p[i] # k /\ t.wire[i] = s.wire[p[i]]
                                 \/ ~NamelessFrame(s, t.wire[i])
    /\ Nameless(reply) <=> NamelessFrame(s, s.wire[k])
    /\ reply.type = s.wire[k].command /\ reply.of = s.wire[k].id
    /\ \/ t.received = Append(s.received, reply)
       \/ t.received = s.received /\ ~Nameless(reply)
    /\ t.response_inbox = s.response_inbox /\ t.peer = s.peer /\ t.reader = s.reader

LEMMA FrameIsAnswered ==
    ASSUME NEW s, NEW t, NEW calls, NEW k, NEW reply, NEW p, Answered(s, t, k, reply, p),
           NamelessIsExpected(s, calls)
    PROVE  NamelessIsExpected(t, calls)
<1> USE DEF Answered
<1>1. \A command, id : Expected(s, calls, command, id) => Expected(t, calls, command, id)
  BY DEF Expected
<1>2. \A frame : NamelessFrame(t, frame) <=> NamelessFrame(s, frame)
  BY DEF NamelessFrame
<1>3. \A i \in 1..Len(t.wire) : NamelessFrame(t, t.wire[i]) =>
         p[i] \in 1..Len(s.wire) /\ p[i] # k /\ t.wire[i] = s.wire[p[i]] /\ NamelessFrame(s, s.wire[p[i]])
  BY <1>2
<1>4. CASE NamelessFrame(s, s.wire[k])
  <2>1. \A i \in 1..Len(t.wire) : ~NamelessFrame(t, t.wire[i])
    BY <1>3, <1>4 DEF NamelessIsExpected
  <2>2. \A i \in 1..Len(s.received) : ~Nameless(s.received[i])
    BY <1>4 DEF NamelessIsExpected
  <2>3. \A i \in 1..Len(t.received) : Nameless(t.received[i]) => i = Len(s.received) + 1 /\ t.received[i] = reply
    <3> TAKE i \in 1..Len(t.received)
    <3>1. t.received = Append(s.received, reply)
      BY <1>4
    <3>2. (i = Len(s.received) + 1 /\ t.received[i] = reply)
          \/ (i \in 1..Len(s.received) /\ t.received[i] = s.received[i])
      BY <3>1
    <3> QED BY <2>2, <3>2
  <2>4. Expected(t, calls, reply.type, reply.of)
    BY <1>1, <1>4 DEF NamelessIsExpected
  <2> QED BY <2>1, <2>3, <2>4 DEF NamelessIsExpected
<1>5. CASE ~NamelessFrame(s, s.wire[k])
  <2>1. \A i \in 1..Len(t.received) : Nameless(t.received[i]) =>
           i \in 1..Len(s.received) /\ t.received[i] = s.received[i]
    <3> TAKE i \in 1..Len(t.received)
    <3>1. \/ t.received[i] = reply
          \/ i \in 1..Len(s.received) /\ t.received[i] = s.received[i]
      OBVIOUS
    <3> QED BY <1>5, <3>1
  <2>2. ASSUME NEW i \in 1..Len(t.wire), NamelessFrame(t, t.wire[i])
        PROVE  /\ Expected(t, calls, t.wire[i].command, t.wire[i].id)
               /\ \A j \in 1..Len(t.wire) : NamelessFrame(t, t.wire[j]) => i = j
               /\ \A j \in 1..Len(t.received) : ~Nameless(t.received[j])
    <3>1. /\ p[i] \in 1..Len(s.wire) /\ t.wire[i] = s.wire[p[i]] /\ NamelessFrame(s, s.wire[p[i]])
      BY <1>3, <2>2
    <3>2. /\ Expected(s, calls, s.wire[p[i]].command, s.wire[p[i]].id)
          /\ \A j \in 1..Len(s.wire) : NamelessFrame(s, s.wire[j]) => p[i] = j
          /\ \A j \in 1..Len(s.received) : ~Nameless(s.received[j])
      BY <3>1 DEF NamelessIsExpected
    <3>3. \A j \in 1..Len(t.wire) : NamelessFrame(t, t.wire[j]) => i = j
      BY <1>3, <3>2
    <3> QED BY <1>1, <2>1, <3>1, <3>2, <3>3
  <2>3. ASSUME NEW i \in 1..Len(t.received), Nameless(t.received[i])
        PROVE  /\ Expected(t, calls, t.received[i].type, t.received[i].of)
               /\ \A j \in 1..Len(t.received) : Nameless(t.received[j]) => i = j
    BY <1>1, <2>1, <2>3 DEF NamelessIsExpected
  <2>4. \A r \in t.response_inbox : ~Nameless(r)
    BY DEF NamelessIsExpected
  <2> QED BY <2>2, <2>3, <2>4 DEF NamelessIsExpected
<1> QED BY <1>4, <1>5

(* Where the elements of a sequence are when one has been taken out.                             *)
LEMMA TakenOut ==
    ASSUME NEW S, NEW q \in Seq(S), NEW k \in 1..Len(q)
    PROVE  /\ RemoveAt(q, k) \in Seq(S) /\ Len(RemoveAt(q, k)) = Len(q) - 1
           /\ \A i \in 1..(Len(q) - 1) : RemoveAt(q, k)[i] = IF i < k THEN q[i] ELSE q[i + 1]
<1> DEFINE a == SubSeq(q, 1, k - 1)
           b == SubSeq(q, k + 1, Len(q))
<1>1. a \in Seq(S) /\ Len(a) = k - 1 /\ \A i \in 1..(k - 1) : a[i] = q[i]
  OBVIOUS
<1>2. b \in Seq(S) /\ Len(b) = Len(q) - k /\ \A i \in 1..(Len(q) - k) : b[i] = q[k + i]
  OBVIOUS
<1>3. RemoveAt(q, k) = a \o b
  BY DEF RemoveAt
<1> HIDE DEF a, b
<1>4. a \o b \in Seq(S) /\ Len(a \o b) = Len(q) - 1
  <2>1. a \o b \in Seq(S) /\ Len(a \o b) = Len(a) + Len(b)
    BY <1>1, <1>2, ConcatProperties
  <2>2. Len(a) + Len(b) = Len(q) - 1
    BY <1>1, <1>2
  <2> QED BY <2>1, <2>2
<1>5. ASSUME NEW i \in 1..(Len(q) - 1) PROVE (a \o b)[i] = IF i < k THEN q[i] ELSE q[i + 1]
  <2>1. CASE i < k
    BY <1>1, <1>2, <2>1
  <2>2. CASE ~(i < k)
    <3>1. (a \o b)[i] = b[i - Len(a)] /\ i - Len(a) \in 1..(Len(q) - k)
      BY <1>1, <1>2, <2>2
    <3>2. i - Len(a) = i - k + 1 /\ k + (i - k + 1) = i + 1
      BY <1>1
    <3> QED BY <1>2, <2>2, <3>1, <3>2
  <2> QED BY <2>1, <2>2
<1> QED BY <1>3, <1>4, <1>5

LEMMA HeadIsTaken ==
    ASSUME NEW S, NEW q \in Seq(S), q # <<>>
    PROVE  /\ Tail(q) \in Seq(S) /\ Len(Tail(q)) = Len(q) - 1 /\ 1 \in 1..Len(q) /\ Head(q) = q[1]
           /\ Head(q) \in S /\ \A i \in 1..(Len(q) - 1) : Tail(q)[i] = q[i + 1]
OBVIOUS

(* The helper answers one frame, with one reply or with none.                                    *)
LEMMA AnswerKeeps ==
    ASSUME ClientInv, NEW k \in 1..Len(session.wire), NEW reply \in ReplyType,
           NEW w \in Seq(FrameType), NEW r, NEW p \in [1..Len(w) -> 1..Len(session.wire)],
           \A i, j \in 1..Len(w) : p[i] = p[j] => i = j,
           \A i \in 1..Len(w) : \/ p[i] # k /\ w[i] = session.wire[p[i]]
                                \/ ~NamelessFrame(session, w[i]) /\ FrameIsSound(session, requests, w[i]),
           Nameless(reply) <=> NamelessFrame(session, session.wire[k]),
           reply.type = session.wire[k].command, reply.of = session.wire[k].id,
           \/ r = Append(session.received, reply) /\ ReplyIsSound(session, requests, reply)
           \/ r = session.received /\ ~Nameless(reply),
           session' = [session EXCEPT !.wire = w, !.received = r],
           UNCHANGED <<apply_wait_generation, connection, connections, caller, requests, clientHistory>>
    PROVE  ClientInv'
<1> DEFINE s == session
<1>1. s \in SessionType /\ s.received \in Seq(ReplyType) /\ TrafficIsSound(s, requests)
  BY DEF ClientInv, ClientType, SessionType
<1>2. r \in Seq(ReplyType)
  <2>1. Append(s.received, reply) \in Seq(ReplyType)
    BY <1>1, AppendProperties
  <2> QED BY <1>1, <2>1
<1>3. /\ session' \in SessionType /\ session'.reader = s.reader /\ session'.wire = w
      /\ session'.received = r /\ session'.response_inbox = s.response_inbox
      /\ session'.peer = s.peer /\ session'.protocol = s.protocol
      /\ session'.overdue = s.overdue /\ session'.connected = s.connected
      /\ session'.untagged_response_pending = s.untagged_response_pending
  <2>1. session' = [s EXCEPT !.wire = w, !.received = r]
    OBVIOUS
  <2> HIDE DEF s
  <2> QED BY <1>1, <1>2, <2>1 DEF SessionType
<1>4. TrafficIsSound(session', requests)
  <2>1. \A frame : FrameIsSound(s, requests, frame) => FrameIsSound(session', requests, frame)
    BY <1>3 DEF FrameIsSound
  <2>2. \A x : ReplyIsSound(s, requests, x) => ReplyIsSound(session', requests, x)
    BY <1>3 DEF ReplyIsSound
  <2>3. \A i \in 1..Len(w) : FrameIsSound(s, requests, w[i])
    BY <1>1 DEF TrafficIsSound
  <2>4. \A i \in 1..Len(r) : ReplyIsSound(s, requests, r[i])
    <3> TAKE i \in 1..Len(r)
    <3>1. CASE r = s.received
      BY <1>1, <3>1 DEF TrafficIsSound
    <3>2. CASE r = Append(s.received, reply) /\ ReplyIsSound(s, requests, reply)
      <4>1. r[i] = reply \/ (i \in 1..Len(s.received) /\ r[i] = s.received[i])
        BY <1>1, <3>2
      <4> QED BY <1>1, <3>2, <4>1 DEF TrafficIsSound
    <3> QED BY <3>1, <3>2
  <2>5. \A x \in s.response_inbox : ReplyIsSound(s, requests, x)
    BY <1>1 DEF TrafficIsSound
  <2> QED BY <1>3, <2>1, <2>2, <2>3, <2>4, <2>5 DEF TrafficIsSound
<1>5. ASSUME session.overdue = FALSE PROVE NamelessIsExpected(session', caller)
  <2>1. NamelessIsExpected(session, caller)
    BY <1>5 DEF ClientInv
  <2>2. Answered(session, session', k, reply, p)
    BY <1>1, <1>3 DEF Answered
  <2> QED BY <2>1, <2>2, FrameIsAnswered
<1> QED BY <1>3, <1>4, <1>5, TrafficKeeps

(* Each frame that is left keeps its place, or moves up by one.                                  *)
LEMMA PlacesMoveUp ==
    ASSUME ClientInv, NEW k \in 1..Len(session.wire), NEW w \in Seq(FrameType),
           Len(w) = Len(session.wire) - 1,
           \A i \in 1..(Len(session.wire) - 1) : w[i] = IF i < k THEN session.wire[i] ELSE session.wire[i + 1]
    PROVE  \E p \in [1..Len(w) -> 1..Len(session.wire)] :
              /\ \A i, j \in 1..Len(w) : p[i] = p[j] => i = j
              /\ \A i \in 1..Len(w) : p[i] # k /\ w[i] = session.wire[p[i]]
<1> DEFINE n == Len(session.wire)
           p == [i \in 1..Len(w) |-> IF i < k THEN i ELSE i + 1]
<1>1. n \in Nat /\ k \in 1..n /\ Len(w) = n - 1
  BY DEF ClientInv, ClientType, SessionType
<1>2. p \in [1..Len(w) -> 1..n]
  BY <1>1
<1>3. \A i \in 1..Len(w) : p[i] = IF i < k THEN i ELSE i + 1
  OBVIOUS
<1> HIDE DEF p
<1>4. \A i, j \in 1..Len(w) : p[i] = p[j] => i = j
  BY <1>1, <1>3
<1>5. \A i \in 1..Len(w) : p[i] # k /\ w[i] = session.wire[p[i]]
  BY <1>1, <1>3
<1> QED BY <1>2, <1>4, <1>5

LEMMA LegacyAnswerKeeps ==
    ASSUME ClientInv, session.wire # <<>>, session.peer = "legacy", AnswersLegacy,
           UNCHANGED <<apply_wait_generation, connection, connections, caller, requests, clientHistory>>
    PROVE  ClientInv'
<1> DEFINE frame == session.wire[1]
<1>1. /\ session.wire \in Seq(FrameType) /\ session.received \in Seq(ReplyType)
      /\ TrafficIsSound(session, requests) /\ requests \in 0..MaxRequests
  BY DEF ClientInv, ClientType, SessionType
<1>2. /\ 1 \in 1..Len(session.wire) /\ Head(session.wire) = frame /\ frame \in FrameType
      /\ Tail(session.wire) \in Seq(FrameType) /\ Len(Tail(session.wire)) = Len(session.wire) - 1
      /\ \A i \in 1..(Len(session.wire) - 1) : Tail(session.wire)[i] = session.wire[i + 1]
  BY <1>1, HeadIsTaken
<1>3. FrameIsSound(session, requests, frame)
  BY <1>1, <1>2 DEF TrafficIsSound
<1>4. PICK tag \in {Untagged, Noise} :
         /\ tag = Noise => frame.command = "apply"
         /\ session' = [session EXCEPT
               !.wire = Tail(@),
               !.received = IF frame.command = "snapshot" THEN @
                            ELSE Append(@, Reply(frame, frame.command, tag, tag = Untagged))]
  BY <1>2 DEF AnswersLegacy
<1> DEFINE w == Tail(session.wire)
           silent == frame.command = "snapshot"
           named == IF silent THEN frame.id ELSE tag
           reply == Reply(frame, frame.command, named, tag = Untagged)
           r == IF silent THEN session.received ELSE Append(session.received, reply)
<1>5. /\ frame.command \in Commands /\ frame.id \in Nat /\ frame.id \in 1..requests /\ frame.command # "verify"
      /\ frame.id # tag /\ tag \in Nat /\ named \in Nat
  BY <1>1, <1>2, <1>3, ClientAssumption DEF FrameType, FrameIsSound, Untagged, Noise
<1>6. /\ reply \in ReplyType /\ reply.type = frame.command /\ reply.of = frame.id /\ reply.tag = named
      /\ reply.success = (tag = Untagged)
  <2> DEFINE type == frame.command
             of == frame.id
             success == tag = Untagged
  <2>1. type \in Commands /\ of \in Nat /\ named \in Nat /\ success \in BOOLEAN
    BY <1>5
  <2>2. reply = [type |-> type, of |-> of, tag |-> named, success |-> success]
    BY DEF Reply
  <2> HIDE DEF reply, type, of, named, success
  <2>3. /\ reply \in ReplyType /\ reply.type = type /\ reply.of = of /\ reply.tag = named
        /\ reply.success = success
    BY <2>1, <2>2 DEF ReplyType
  <2> QED BY <2>3 DEF type, of, success
<1>7. session' = [session EXCEPT !.wire = w, !.received = r]
  BY <1>4
<1>8. PICK p \in [1..Len(w) -> 1..Len(session.wire)] :
         /\ \A i, j \in 1..Len(w) : p[i] = p[j] => i = j
         /\ \A i \in 1..Len(w) : p[i] # 1 /\ w[i] = session.wire[p[i]]
  <2>1. \A i \in 1..(Len(session.wire) - 1) : w[i] = IF i < 1 THEN session.wire[i] ELSE session.wire[i + 1]
    BY <1>2
  <2> QED BY <1>2, <2>1, PlacesMoveUp
<1>9. /\ silent => r = session.received /\ named = frame.id
      /\ ~silent => r = Append(session.received, reply) /\ named = tag
  OBVIOUS
<1> HIDE DEF reply, r, w
<1>10. Nameless(reply) <=> ~silent
  BY <1>5, <1>6, <1>9 DEF Nameless
<1>11. NamelessFrame(session, frame) <=> ~silent
  BY <1>5 DEF NamelessFrame, Commands
<1>12. ~silent => ReplyIsSound(session, requests, reply)
  <2>1. ~silent => reply.tag = tag /\ frame.command \in {"apply", "refresh"}
    BY <1>5, <1>6, <1>9 DEF Commands
  <2>2. tag = Untagged \/ (tag = Noise /\ frame.command = "apply" /\ tag # Untagged)
    BY <1>1, <1>4, ClientAssumption DEF Untagged, Noise
  <2> QED BY <1>5, <1>6, <2>1, <2>2 DEF ReplyIsSound
<1>13. \/ r = Append(session.received, reply) /\ ReplyIsSound(session, requests, reply)
       \/ r = session.received /\ ~Nameless(reply)
  BY <1>9, <1>10, <1>12
<1>14. \A i \in 1..Len(w) : \/ p[i] # 1 /\ w[i] = session.wire[p[i]]
                            \/ ~NamelessFrame(session, w[i]) /\ FrameIsSound(session, requests, w[i])
  BY <1>8
<1>15. w \in Seq(FrameType) /\ (Nameless(reply) <=> NamelessFrame(session, session.wire[1]))
  BY <1>2, <1>10, <1>11 DEF w
<1>16. reply.type = session.wire[1].command /\ reply.of = session.wire[1].id
  BY <1>6
<1> HIDE DEF silent, named, frame
<1> QED BY <1>2, <1>6, <1>7, <1>8, <1>13, <1>14, <1>15, <1>16, AnswerKeeps

LEMMA V2AnswerKeeps ==
    ASSUME ClientInv, session.peer = "v2", NEW k \in 1..Len(session.wire), AnswersV2(k),
           UNCHANGED <<apply_wait_generation, connection, connections, caller, requests, clientHistory>>
    PROVE  ClientInv'
<1> DEFINE frame == session.wire[k]
           tag == IF frame.tagged THEN frame.id ELSE Untagged
           silent == frame.command = "snapshot" /\ ~frame.tagged
<1>1. /\ session.wire \in Seq(FrameType) /\ session.received \in Seq(ReplyType)
      /\ TrafficIsSound(session, requests) /\ requests \in Nat
      /\ frame \in FrameType /\ FrameIsSound(session, requests, frame)
  BY DEF ClientInv, ClientType, SessionType, TrafficIsSound
<1>2. PICK success \in {TRUE, frame.command # "apply"} :
         session' = [session EXCEPT
            !.wire = IF frame.command = "apply" /\ success
                     THEN [@ EXCEPT ![k].command = "verify"] ELSE RemoveAt(@, k),
            !.received = IF silent THEN @ ELSE Append(@, Reply(frame, frame.command, tag, success))]
  BY DEF AnswersV2
<1> DEFINE follows == frame.command = "apply" /\ success
           verify == [frame EXCEPT !.command = "verify"]
           w == IF follows THEN [session.wire EXCEPT ![k] = verify] ELSE RemoveAt(session.wire, k)
           named == IF silent THEN frame.id ELSE tag
           reply == Reply(frame, frame.command, named, success)
           r == IF silent THEN session.received ELSE Append(session.received, reply)
<1>3. /\ frame.command \in Commands /\ frame.id \in Nat /\ frame.id \in 1..requests /\ frame.tagged \in BOOLEAN
      /\ frame.command \in {"apply", "verify"} => frame.tagged = TRUE
      /\ tag \in Nat /\ named \in Nat /\ success \in BOOLEAN
      /\ frame.tagged = TRUE => tag = frame.id
      /\ frame.tagged = FALSE => tag = Untagged /\ frame.id # Untagged
  <2>1. /\ frame.command \in Commands /\ frame.id \in Nat /\ frame.id \in 1..requests /\ frame.tagged \in BOOLEAN
        /\ frame.command \in {"apply", "verify"} => frame.tagged = TRUE
    <3>1. frame \in FrameType /\ FrameIsSound(session, requests, frame)
      BY <1>1
    <3> HIDE DEF frame
    <3> QED BY <3>1 DEF FrameType, FrameIsSound
  <2>2. success \in BOOLEAN
    OBVIOUS
  <2> HIDE DEF frame
  <2> QED BY <2>1, <2>2, <1>1 DEF Untagged
<1>4. session' = [session EXCEPT !.wire = w, !.received = r]
  <2>1. follows => [session.wire EXCEPT ![k].command = "verify"] = [session.wire EXCEPT ![k] = verify]
    BY <1>1
  <2> QED BY <1>2, <2>1
<1>5. /\ reply \in ReplyType /\ reply.type = frame.command /\ reply.of = frame.id /\ reply.tag = named
  <2> DEFINE type == frame.command
             of == frame.id
  <2>1. type \in Commands /\ of \in Nat /\ named \in Nat /\ success \in BOOLEAN
    BY <1>3
  <2>2. reply = [type |-> type, of |-> of, tag |-> named, success |-> success]
    BY DEF Reply
  <2> HIDE DEF reply, type, of, named
  <2>3. reply \in ReplyType /\ reply.type = type /\ reply.of = of /\ reply.tag = named
    BY <2>1, <2>2 DEF ReplyType
  <2> QED BY <2>3 DEF type, of
<1>6. \E p \in [1..Len(w) -> 1..Len(session.wire)] :
         /\ w \in Seq(FrameType)
         /\ \A i, j \in 1..Len(w) : p[i] = p[j] => i = j
         /\ \A i \in 1..Len(w) : \/ p[i] # k /\ w[i] = session.wire[p[i]]
                                 \/ ~NamelessFrame(session, w[i]) /\ FrameIsSound(session, requests, w[i])
  <2>1. CASE follows
    <3> DEFINE p == [i \in 1..Len(session.wire) |-> i]
    <3>1. verify \in FrameType /\ verify.command = "verify" /\ verify.id = frame.id /\ verify.tagged = frame.tagged
      <4>1. frame \in FrameType /\ "verify" \in Commands
        BY <1>1 DEF Commands
      <4> HIDE DEF frame
      <4> QED BY <4>1 DEF FrameType
    <3> HIDE DEF verify
    <3>2. w = [session.wire EXCEPT ![k] = verify]
      BY <2>1
    <3>3. w \in Seq(FrameType) /\ Len(w) = Len(session.wire)
      BY <1>1, <3>1, <3>2
    <3>4. \A i \in 1..Len(w) : w[i] = IF i = k THEN verify ELSE session.wire[i]
      BY <1>1, <3>2, <3>3
    <3>5. ~NamelessFrame(session, verify) /\ FrameIsSound(session, requests, verify)
      BY <1>3, <2>1, <3>1 DEF NamelessFrame, FrameIsSound
    <3>6. p \in [1..Len(w) -> 1..Len(session.wire)] /\ \A i \in 1..Len(w) : p[i] = i
      BY <3>3
    <3> HIDE DEF p, w
    <3>7. \A i \in 1..Len(w) : \/ p[i] # k /\ w[i] = session.wire[p[i]]
                               \/ ~NamelessFrame(session, w[i]) /\ FrameIsSound(session, requests, w[i])
      BY <3>4, <3>5, <3>6
    <3>8. \A i, j \in 1..Len(w) : p[i] = p[j] => i = j
      BY <3>6
    <3> QED BY <3>3, <3>6, <3>7, <3>8
  <2>2. CASE ~follows
    <3>1. w = RemoveAt(session.wire, k)
      BY <2>2
    <3>2. /\ w \in Seq(FrameType) /\ Len(w) = Len(session.wire) - 1
          /\ \A i \in 1..(Len(session.wire) - 1) : w[i] = IF i < k THEN session.wire[i] ELSE session.wire[i + 1]
      BY <1>1, <3>1, TakenOut
    <3> HIDE DEF w
    <3>3. PICK p \in [1..Len(w) -> 1..Len(session.wire)] :
             /\ \A i, j \in 1..Len(w) : p[i] = p[j] => i = j
             /\ \A i \in 1..Len(w) : p[i] # k /\ w[i] = session.wire[p[i]]
      BY <3>2, PlacesMoveUp, ZenonT(60)
    <3> QED BY <3>2, <3>3
  <2> QED BY <2>1, <2>2
<1>7. /\ silent => r = session.received /\ named = frame.id
      /\ ~silent => r = Append(session.received, reply) /\ named = tag
  OBVIOUS
<1> HIDE DEF reply, r, w, follows, verify
<1>8. Nameless(reply) <=> ~silent /\ frame.tagged = FALSE
  BY <1>3, <1>5, <1>7 DEF Nameless
<1>9. NamelessFrame(session, frame) <=> ~silent /\ frame.tagged = FALSE
  BY <1>3 DEF NamelessFrame, Commands
<1>10. ~silent => ReplyIsSound(session, requests, reply)
  <2>1. ~silent /\ frame.tagged = FALSE => frame.command = "refresh"
    BY <1>3 DEF Commands
  <2> QED BY <1>3, <1>5, <1>7, <2>1 DEF ReplyIsSound
<1>11. \/ r = Append(session.received, reply) /\ ReplyIsSound(session, requests, reply)
       \/ r = session.received /\ ~Nameless(reply)
  BY <1>7, <1>8, <1>10
<1>12. /\ Nameless(reply) <=> NamelessFrame(session, session.wire[k])
       /\ reply.type = session.wire[k].command /\ reply.of = session.wire[k].id
  BY <1>5, <1>8, <1>9
<1> HIDE DEF silent, named, frame, tag
<1> QED BY <1>4, <1>5, <1>6, <1>11, <1>12, AnswerKeeps

LEMMA HelperAnswersKeeps == ASSUME ClientInv, HelperAnswers PROVE ClientInv'
<1>1. UNCHANGED <<apply_wait_generation, connection, connections, caller, requests, clientHistory>>
  BY DEF HelperAnswers
<1>2. CASE session.peer = "v2" /\ \E i \in 1..Len(session.wire) : AnswersV2(i)
  BY <1>1, <1>2, V2AnswerKeeps
<1>3. CASE session.wire # <<>> /\ session.peer = "legacy" /\ AnswersLegacy
  BY <1>1, <1>3, LegacyAnswerKeeps
<1> QED BY <1>2, <1>3 DEF HelperAnswers

--------------------------------------------------------------------------------
(* Reading.  A reply that does not name its request matches the reader.                          *)
LEMMA CurrentWaiterReads ==
    ASSUME ClientInv, NEW c \in Callers, caller[c].pc = "wait", ~Cancelled(c)
    PROVE  Waits(c)
BY DEF Cancelled, Waits, ClientInv, OneReader, Reads

LEMMA NamelessMatches ==
    ASSUME ClientInv, session.overdue = FALSE, NEW c \in Callers, Waits(c), caller[c].pc = "wait",
           NEW i \in 1..Len(session.received), Nameless(session.received[i])
    PROVE  Matches(c, session.received[i]) /\ session.received[i].of = caller[c].id
<1> DEFINE reply == session.received[i]
<1>1. /\ ReplyIsSound(session, requests, reply) /\ Expected(session, caller, reply.type, reply.of)
      /\ session.reader = c /\ requests \in 0..MaxRequests /\ session.peer \in {"legacy", "v2"}
  BY DEF ClientInv, ClientType, SessionType, TrafficIsSound, NamelessIsExpected, Waits, Peers
<1>2. /\ caller[c].command = reply.type /\ caller[c].id = reply.of
      /\ reply.type = "refresh" => caller[c].protocol # "v2"
  BY <1>1 DEF Expected, Expects
<1>3. \/ reply.type = "refresh" /\ reply.tag = Untagged
      \/ session.peer = "legacy" /\ reply.type = "apply" /\ reply.tag = Untagged
      \/ session.peer = "legacy" /\ reply.type = "apply" /\ reply.tag = Noise /\ reply.success = FALSE
  BY <1>1 DEF ReplyIsSound, Nameless
<1>4. ~Issued(Noise)
  BY <1>1, ClientAssumption DEF Issued, Noise
<1>5. session.peer = "legacy" => caller[c].protocol \in {"unknown", "legacy"}
  BY DEF ClientInv, Known, Waits
<1> HIDE DEF reply
<1>6. Matches(c, reply)
  BY <1>2, <1>3, <1>4, <1>5 DEF Matches
<1> QED BY <1>2, <1>6 DEF reply

(* One that does is its reader's, and from helper v2.                                             *)
LEMMA NamedMatchIsOwn ==
    ASSUME ClientInv, NEW c \in Callers, Waits(c), caller[c].pc = "wait",
           NEW reply, ReplyIsSound(session, requests, reply), Matches(c, reply), ~Nameless(reply)
    PROVE  reply.of = caller[c].id /\ session.peer = "v2"
<1>1. /\ reply.tag = reply.of /\ reply.of \in 1..requests /\ requests \in 0..MaxRequests
      /\ session.peer \in {"legacy", "v2"}
  BY DEF Nameless, ReplyIsSound, ClientInv, ClientType, SessionType, Peers
<1>2. session.peer = "v2"
  BY <1>1, ClientAssumption DEF ReplyIsSound, Untagged, Noise
<1>3. caller[c].protocol # "legacy"
  BY <1>2 DEF ClientInv, Known, Waits
<1>4. reply.tag # Untagged /\ Issued(reply.tag)
  BY <1>1 DEF Untagged, Issued
<1>5. reply.tag = caller[c].id
  BY <1>3, <1>4 DEF Matches
<1> QED BY <1>1, <1>2, <1>5

(* The protocol a reply shows is the helper's.                                                    *)
LEMMA ProtocolIsLearned ==
    ASSUME ClientInv, NEW c \in Callers, Waits(c), caller[c].pc = "wait",
           NEW reply, ReplyIsSound(session, requests, reply), Matches(c, reply)
    PROVE  /\ ProtocolOf(c, reply) \in {"unknown", session.peer}
           /\ session.protocol # "unknown" \/ caller[c].command # "apply" => ProtocolOf(c, reply) = session.protocol
<1>1. session.protocol \in {"unknown", session.peer} /\ session.peer \in {"legacy", "v2"}
  BY DEF ClientInv, ClientType, SessionType, Known, Peers
<1>2. CASE caller[c].command # "apply" \/ session.protocol # "unknown"
  BY <1>1, <1>2 DEF ProtocolOf
<1>3. CASE caller[c].command = "apply" /\ session.protocol = "unknown"
  <2>1. /\ caller[c].id \in 1..requests /\ requests \in 0..MaxRequests /\ reply.of \in 1..requests
        /\ reply.type = "apply"
    BY <1>3 DEF ClientInv, ClientType, Numbered, CallIsNumbered, ReplyIsSound, Matches
  <2>2. CASE session.peer = "legacy"
    <3>1. reply.tag # caller[c].id
      BY <2>1, <2>2, ClientAssumption DEF ReplyIsSound, Untagged, Noise
    <3> QED BY <1>3, <2>2, <3>1 DEF ProtocolOf
  <2>3. CASE session.peer = "v2"
    <3>1. ~Nameless(reply)
      BY <2>1, <2>3 DEF ReplyIsSound, Nameless
    <3>2. reply.tag = caller[c].id
      BY <3>1, NamedMatchIsOwn DEF Nameless
    <3> QED BY <1>3, <2>3, <3>2 DEF ProtocolOf
  <2> QED BY <1>1, <2>2, <2>3
<1> QED BY <1>2, <1>3

(* Once the reader has a reply, no other is on its way that would not name its request.           *)
LEMMA MatchIsTheOne ==
    ASSUME ClientInv, session.overdue = FALSE, NEW c \in Callers, Waits(c), caller[c].pc = "wait",
           NEW reply, ReplyIsSound(session, requests, reply), Matches(c, reply)
    PROVE  NoNameless(session) \/ Nameless(reply)
<1>1. reply.of # Untagged
  BY DEF ReplyIsSound, Untagged, ClientInv, ClientType
<1>2. CASE caller[c].command = "apply" /\ session.peer = "legacy"
  BY <1>2, NamedMatchIsOwn
<1>3. CASE caller[c].command = "refresh" /\ caller[c].protocol # "v2"
  BY <1>1, <1>3 DEF Matches, Nameless
<1> QED BY <1>2, <1>3, WhoIsExpected

(* The reader has its reply and lets go of response_mutex: for good, or to wait for the            *)
(* verification as a new reader.                                                                  *)
LEMMA DeliveredKeeps ==
    ASSUME ClientInv, NEW c \in Callers, caller[c].pc = "wait", ~Cancelled(c),
           NEW reply, NEW rest \in SessionType, Matches(c, reply), ReplyIsSound(session, requests, reply),
           Delivered(c, reply, rest),
           rest.peer = session.peer, rest.protocol = session.protocol, rest.connected = session.connected,
           rest.overdue = session.overdue, TrafficIsSound(rest, requests),
           session.overdue = FALSE => NoNameless(rest) /\ reply.of = caller[c].id
    PROVE  ClientInv'
<1> DEFINE call == caller[c]
           protocol == ProtocolOf(c, reply)
           verify == call.command = "apply" /\ reply.success /\ protocol = "v2"
           x == IF verify THEN [call EXCEPT !.pc = "reader", !.command = "verify", !.protocol = "v2"] ELSE NoCall
           pending == rest.untagged_response_pending /\ call.command \notin {"apply", "refresh"}
           misread == clientHistory.misread \/ (reply.of # call.id /\ ~session.overdue)
<1>1. /\ Waits(c) /\ Current(c) /\ session.reader = c /\ call \in CallType /\ CallIsNumbered(c)
      /\ session \in SessionType
      /\ UNCHANGED <<apply_wait_generation, connection, connections, requests>>
  BY CurrentWaiterReads DEF Waits, Delivered, ClientInv, ClientType, Numbered
<1>2. /\ protocol \in {"unknown", session.peer}
      /\ session.protocol # "unknown" \/ call.command # "apply" => protocol = session.protocol
  BY <1>1, ProtocolIsLearned
<1>3. protocol \in Protocols
  BY <1>1, <1>2 DEF SessionType, Protocols
<1> HIDE DEF protocol
<1>4. /\ x \in CallType
      /\ verify => /\ x.pc = "reader" /\ x.connection = call.connection /\ x.command = "verify"
                   /\ x.id = call.id /\ x.generation = call.generation /\ x.protocol = "v2" /\ protocol = "v2"
      /\ ~verify => x = NoCall
  <2>1. call \in CallType /\ "v2" \in Protocols /\ (verify => protocol = "v2")
    BY <1>1 DEF Protocols, Peers
  <2> HIDE DEF call, verify
  <2> QED BY <2>1, IdleCall DEF CallType, Commands
<1>5. caller' = [caller EXCEPT ![c] = x]
  BY DEF Delivered, Return, ClientInv, ClientType, protocol
<1>6. session' = [rest EXCEPT !.reader = Nobody, !.protocol = protocol, !.untagged_response_pending = pending]
  BY DEF Delivered, protocol
<1>7. clientHistory' = [clientHistory EXCEPT !.misread = misread]
  BY DEF Delivered
<1> HIDE DEF x, verify
<1>8. /\ caller' \in [Callers -> CallType] /\ caller'[c] = x
      /\ \A d \in Callers : d # c => caller'[d] = caller[d]
  BY <1>4, <1>5, CallerMoves DEF ClientInv
<1>9. /\ session' \in SessionType /\ session'.reader = Nobody /\ session'.protocol = protocol
      /\ session'.wire = rest.wire /\ session'.received = rest.received
      /\ session'.response_inbox = rest.response_inbox /\ session'.peer = session.peer
      /\ session'.connected = session.connected /\ session'.overdue = session.overdue
  <2>1. pending \in BOOLEAN
    BY DEF SessionType
  <2> HIDE DEF pending
  <2> QED BY <1>3, <1>6, <2>1 DEF SessionType
<1>10. /\ clientHistory' \in HistoryType /\ clientHistory'.newest <= apply_wait_generation
       /\ NoOvertaking' /\ ReplyIsOwn'
  <2>1. misread = FALSE
    <3>1. session.overdue \in BOOLEAN
      BY <1>1 DEF SessionType
    <3> QED BY <3>1 DEF ClientInv, ReplyIsOwn
  <2>2. /\ clientHistory \in HistoryType /\ clientHistory.newest <= apply_wait_generation
        /\ clientHistory.overtook = FALSE
    BY DEF ClientInv, ClientType, Numbered, NoOvertaking, HistoryType
  <2> HIDE DEF misread
  <2> QED BY <1>7, <2>1, <2>2 DEF HistoryType, NoOvertaking, ReplyIsOwn
<1>11. \A d \in Callers : d # c => (Current(d)' <=> Current(d)) /\ (Superseded(d)' <=> Superseded(d))
  BY <1>1, <1>8 DEF Current, Superseded
<1>12. \A d \in Callers : d # c => ~(Current(d) /\ Reads(d))
  BY <1>1 DEF ClientInv, OneReader
<1>13. ClientType'
  BY <1>1, <1>8, <1>9, <1>10 DEF ClientInv, ClientType
<1>14. Numbered'
  <2>1. CallIsNumbered(c)'
    BY <1>1, <1>4, <1>8, IdleCall DEF CallIsNumbered, NoCall, NeedsNoReply, ClientInv, ClientType
  <2>2. ASSUME NEW d \in Callers, d # c PROVE CallIsNumbered(d)'
    BY <1>1, <1>8, <2>2 DEF CallIsNumbered, ClientInv, Numbered
  <2> QED BY <1>1, <1>9, <1>10, <2>1, <2>2 DEF Numbered, ClientInv
<1>15. ~Reads(c)'
  BY <1>4, <1>8, IdleCall DEF Reads
<1>16. OneReader' /\ AppliesPend'
  <2>1. \A d \in Callers : ~(Current(d)' /\ Reads(d)')
    BY <1>8, <1>11, <1>12, <1>15 DEF Reads
  <2> QED BY <1>9, <2>1 DEF OneReader, AppliesPend, Reads
<1>17. OneApply'
  BY <1>4, <1>8, <1>11, IdleCall DEF OneApply, ClientInv
<1>18. Known'
  <2>1. session'.protocol \in {"unknown", session'.peer}
    BY <1>2, <1>9
  <2>2. CASE session'.protocol = session.protocol
    BY <1>4, <1>8, <1>9, <1>11, <2>1, <2>2, IdleCall DEF Known, ClientInv, Current
  <2>3. CASE session'.protocol # session.protocol
    <3>1. call.command = "apply" /\ session.protocol = "unknown"
      BY <1>2, <1>9, <2>3
    <3>2. call.protocol = "unknown"
      BY <1>1, <3>1 DEF Known, ClientInv
    <3>3. ~Superseded(c)
      BY <3>1, <3>2 DEF Cancelled
    <3>4. \A d \in Callers : d # c /\ Current(d) =>
             /\ caller[d].protocol = "unknown"
             /\ ~(caller[d].command = "apply" /\ ~Superseded(d))
      BY <3>1, <3>3 DEF Known, OneApply, ClientInv
    <3> QED BY <1>4, <1>8, <1>9, <1>11, <2>1, <3>4, IdleCall DEF Known, Current
  <2> QED BY <2>2, <2>3
<1>19. TrafficIsSound(session', requests')
  <2>1. requests \in Nat /\ requests <= requests
    BY DEF ClientInv, ClientType
  <2> QED BY <1>1, <1>9, <2>1, TrafficStays
<1>20. ASSUME session'.overdue = FALSE PROVE NamelessIsExpected(session', caller')
  <2>1. NoNameless(rest)
    BY <1>9, <1>20
  <2>2. NoNameless(session')
    BY <1>9, <2>1, AbsenceStays
  <2> QED BY <2>2, NoneExpected
<1> QED BY <1>10, <1>13, <1>14, <1>16, <1>17, <1>18, <1>19, <1>20 DEF ClientInv

LEMMA TakeBufferedKeeps == ASSUME ClientInv, NEW c \in Callers, TakeBuffered(c) PROVE ClientInv'
<1> DEFINE s == session
<1>1. /\ caller[c].pc = "wait" /\ ~Cancelled(c) /\ s \in SessionType /\ Waits(c)
      /\ TrafficIsSound(s, requests)
  BY CurrentWaiterReads DEF TakeBuffered, ClientInv, ClientType
<1>2. PICK reply \in s.response_inbox :
         Matches(c, reply) /\ Delivered(c, reply, [s EXCEPT !.response_inbox = @ \ {reply}])
  BY DEF TakeBuffered
<1> DEFINE rest == [s EXCEPT !.response_inbox = @ \ {reply}]
<1>3. /\ rest \in SessionType /\ rest.response_inbox \subseteq s.response_inbox
      /\ rest.wire = s.wire /\ rest.received = s.received /\ rest.peer = s.peer
      /\ rest.protocol = s.protocol /\ rest.connected = s.connected /\ rest.overdue = s.overdue
  <2> DEFINE inbox == s.response_inbox \ {reply}
  <2>1. inbox \in SUBSET ReplyType /\ inbox \subseteq s.response_inbox /\ rest = [s EXCEPT !.response_inbox = inbox]
    BY <1>1 DEF SessionType
  <2> HIDE DEF inbox, s, rest
  <2> QED BY <1>1, <2>1 DEF SessionType
<1>4. Matches(c, reply) /\ Delivered(c, reply, rest) /\ ReplyIsSound(session, requests, reply)
  BY <1>1, <1>2 DEF TrafficIsSound
<1> HIDE DEF rest
<1>5. TrafficIsSound(rest, requests)
  BY <1>1, <1>3 DEF TrafficIsSound, FrameIsSound, ReplyIsSound
<1>6. ASSUME session.overdue = FALSE PROVE NoNameless(rest) /\ reply.of = caller[c].id
  <2>1. ~Nameless(reply)
    BY <1>2, <1>6 DEF ClientInv, NamelessIsExpected
  <2>2. NoNameless(session)
    BY <1>1, <1>4, <1>6, <2>1, MatchIsTheOne
  <2>3. NoNameless(rest)
    BY <1>3, <2>2 DEF NoNameless, NamelessFrame
  <2> QED BY <1>1, <1>4, <2>1, <2>3, NamedMatchIsOwn
<1> QED BY <1>1, <1>3, <1>4, <1>5, <1>6, DeliveredKeeps

(* The first reply is taken off the connection, and kept when it is somebody else's.              *)
LEMMA ReplyIsTaken ==
    ASSUME NEW s, NEW t, NEW calls, s.received \in Seq(ReplyType), s.received # <<>>,
           NamelessIsExpected(s, calls), t.received = Tail(s.received), t.wire = s.wire,
           t.peer = s.peer, t.reader = s.reader, t.response_inbox = s.response_inbox
    PROVE  /\ NamelessIsExpected(t, calls)
           /\ Nameless(s.received[1]) => NoNameless(t)
<1>1. /\ Len(t.received) = Len(s.received) - 1 /\ 1 \in 1..Len(s.received) /\ Len(s.received) \in Nat
      /\ \A i \in 1..(Len(s.received) - 1) : t.received[i] = s.received[i + 1]
  BY HeadIsTaken
<1>2. \A i \in 1..Len(t.received) : i + 1 \in 1..Len(s.received) /\ t.received[i] = s.received[i + 1] /\ i + 1 # 1
  BY <1>1
<1>3. \A command, id : Expected(s, calls, command, id) => Expected(t, calls, command, id)
  BY DEF Expected
<1>4. \A frame : NamelessFrame(t, frame) <=> NamelessFrame(s, frame)
  BY DEF NamelessFrame
<1>5. ASSUME NEW i \in 1..Len(t.received), Nameless(t.received[i])
      PROVE  /\ Expected(t, calls, t.received[i].type, t.received[i].of)
             /\ \A j \in 1..Len(t.received) : Nameless(t.received[j]) => i = j
  <2>1. /\ Expected(s, calls, s.received[i + 1].type, s.received[i + 1].of)
        /\ \A j \in 1..Len(s.received) : Nameless(s.received[j]) => i + 1 = j
    BY <1>2, <1>5 DEF NamelessIsExpected
  <2>2. ASSUME NEW j \in 1..Len(t.received), Nameless(t.received[j]) PROVE i = j
    <3>1. i + 1 = j + 1
      BY <1>2, <2>1, <2>2
    <3> QED BY <3>1
  <2> QED BY <1>2, <1>3, <2>1, <2>2
<1>6. ASSUME NEW i \in 1..Len(t.wire), NamelessFrame(t, t.wire[i])
      PROVE  /\ Expected(t, calls, t.wire[i].command, t.wire[i].id)
             /\ \A j \in 1..Len(t.wire) : NamelessFrame(t, t.wire[j]) => i = j
             /\ \A j \in 1..Len(t.received) : ~Nameless(t.received[j])
  BY <1>2, <1>3, <1>4, <1>6 DEF NamelessIsExpected
<1>7. \A reply \in t.response_inbox : ~Nameless(reply)
  BY DEF NamelessIsExpected
<1>8. ASSUME Nameless(s.received[1]) PROVE NoNameless(t)
  <2>1. \A j \in 1..Len(s.received) : Nameless(s.received[j]) => 1 = j
    BY <1>1, <1>8 DEF NamelessIsExpected
  <2>2. \A i \in 1..Len(t.received) : ~Nameless(t.received[i])
    BY <1>2, <2>1
  <2>3. \A i \in 1..Len(t.wire) : ~NamelessFrame(t, t.wire[i])
    BY <1>1, <1>4, <1>8 DEF NamelessIsExpected
  <2> QED BY <1>7, <2>2, <2>3 DEF NoNameless
<1> QED BY <1>5, <1>6, <1>7, <1>8 DEF NamelessIsExpected

LEMMA ReceiveKeeps == ASSUME ClientInv, NEW c \in Callers, Receive(c) PROVE ClientInv'
<1> DEFINE s == session
           reply == s.received[1]
           rest == [s EXCEPT !.received = Tail(@)]
<1>1. /\ caller[c].pc = "wait" /\ ~Cancelled(c) /\ s \in SessionType /\ Waits(c)
      /\ TrafficIsSound(s, requests) /\ s.received \in Seq(ReplyType) /\ s.received # <<>>
      /\ requests \in Nat
  <2>1. caller[c].pc = "wait" /\ ~Cancelled(c) /\ s.received # <<>>
    BY DEF Receive
  <2>2. Waits(c)
    BY <2>1, CurrentWaiterReads
  <2>3. s \in SessionType /\ TrafficIsSound(s, requests) /\ requests \in Nat
    BY DEF ClientInv, ClientType
  <2>4. s.received \in Seq(ReplyType)
    BY <2>3 DEF SessionType
  <2> QED BY <2>1, <2>2, <2>3, <2>4
<1>2. /\ Head(s.received) = reply /\ reply \in ReplyType /\ 1 \in 1..Len(s.received)
      /\ Tail(s.received) \in Seq(ReplyType) /\ Len(Tail(s.received)) = Len(s.received) - 1
      /\ \A i \in 1..(Len(s.received) - 1) : Tail(s.received)[i] = s.received[i + 1]
  BY <1>1, HeadIsTaken
<1>3. /\ rest \in SessionType /\ rest.response_inbox = s.response_inbox /\ rest.received = Tail(s.received)
      /\ rest.wire = s.wire /\ rest.peer = s.peer /\ rest.reader = s.reader
      /\ rest.protocol = s.protocol /\ rest.connected = s.connected /\ rest.overdue = s.overdue
      /\ rest.untagged_response_pending = s.untagged_response_pending
  <2> DEFINE received == Tail(s.received)
  <2>1. received \in Seq(ReplyType) /\ rest = [s EXCEPT !.received = received]
    BY <1>2
  <2> HIDE DEF received, s, rest
  <2>2. /\ rest \in SessionType /\ rest.response_inbox = s.response_inbox /\ rest.received = received
        /\ rest.wire = s.wire /\ rest.peer = s.peer /\ rest.reader = s.reader
        /\ rest.protocol = s.protocol /\ rest.connected = s.connected /\ rest.overdue = s.overdue
        /\ rest.untagged_response_pending = s.untagged_response_pending
    BY <1>1, <2>1 DEF SessionType
  <2> QED BY <2>2 DEF received
<1>4. ReplyIsSound(s, requests, reply)
  BY <1>1, <1>2 DEF TrafficIsSound
<1>5. TrafficIsSound(rest, requests)
  <2>1. \A frame : FrameIsSound(s, requests, frame) => FrameIsSound(rest, requests, frame)
    BY <1>3 DEF FrameIsSound
  <2>2. \A x : ReplyIsSound(s, requests, x) => ReplyIsSound(rest, requests, x)
    BY <1>3 DEF ReplyIsSound
  <2>3. \A i \in 1..Len(Tail(s.received)) :
           i + 1 \in 1..Len(s.received) /\ Tail(s.received)[i] = s.received[i + 1]
    BY <1>1, <1>2
  <2> HIDE DEF rest
  <2>4. \A i \in 1..Len(rest.received) : ReplyIsSound(s, requests, rest.received[i])
    BY <1>1, <1>3, <2>3 DEF TrafficIsSound
  <2> QED BY <1>1, <1>3, <2>1, <2>2, <2>4 DEF TrafficIsSound
<1>6. /\ Matches(c, reply) => Delivered(c, reply, rest)
      /\ ~Matches(c, reply) =>
            /\ session' = IF Bufferable(c, reply) THEN [rest EXCEPT !.response_inbox = @ \cup {reply}] ELSE rest
            /\ UNCHANGED <<apply_wait_generation, connection, connections, caller, requests, clientHistory>>
  BY <1>2 DEF Receive
<1> HIDE DEF rest
<1>7. session.overdue = FALSE =>
         NamelessIsExpected(rest, caller) /\ (Nameless(reply) => NoNameless(rest))
  BY <1>1, <1>3, ReplyIsTaken DEF ClientInv
<1>8. CASE Matches(c, reply)
  <2>1. ASSUME session.overdue = FALSE PROVE NoNameless(rest) /\ reply.of = caller[c].id
    <3>1. CASE Nameless(reply)
      BY <1>1, <1>2, <1>7, <2>1, <3>1, NamelessMatches
    <3>2. CASE ~Nameless(reply)
      <4>1. NoNameless(session)
        BY <1>1, <1>4, <1>8, <2>1, <3>2, MatchIsTheOne
      <4>2. \A i \in 1..Len(rest.received) : ~Nameless(rest.received[i])
        <5> TAKE i \in 1..Len(rest.received)
        <5>1. i + 1 \in 1..Len(s.received) /\ rest.received[i] = s.received[i + 1]
          BY <1>1, <1>2, <1>3
        <5> QED BY <4>1, <5>1 DEF NoNameless
      <4>3. NoNameless(rest)
        BY <1>3, <4>1, <4>2 DEF NoNameless, NamelessFrame
      <4> QED BY <1>1, <1>4, <1>8, <3>2, <4>3, NamedMatchIsOwn
    <3> QED BY <3>1, <3>2
  <2> HIDE DEF reply
  <2> QED BY <1>1, <1>3, <1>4, <1>5, <1>6, <1>8, <2>1, DeliveredKeeps
<1>9. CASE ~Matches(c, reply)
  <2> DEFINE inbox == IF Bufferable(c, reply) THEN rest.response_inbox \cup {reply} ELSE rest.response_inbox
  <2>1. /\ session' = [rest EXCEPT !.response_inbox = inbox]
        /\ inbox \in SUBSET ReplyType /\ inbox \subseteq s.response_inbox \cup {reply}
    BY <1>2, <1>3, <1>6, <1>9 DEF SessionType
  <2> HIDE DEF inbox, reply
  <2>2. /\ session' \in SessionType /\ session'.response_inbox = inbox /\ session'.received = rest.received
        /\ session'.wire = rest.wire /\ session'.peer = rest.peer /\ session'.reader = rest.reader
        /\ session'.protocol = rest.protocol /\ session'.connected = rest.connected
        /\ session'.overdue = rest.overdue
        /\ session'.untagged_response_pending = rest.untagged_response_pending
    BY <1>3, <2>1 DEF SessionType
  <2>3. TrafficIsSound(session', requests)
    <3>1. \A x \in inbox : ReplyIsSound(s, requests, x)
      BY <1>1, <1>4, <2>1 DEF TrafficIsSound
    <3> QED BY <1>3, <1>5, <2>2, <3>1 DEF TrafficIsSound, FrameIsSound, ReplyIsSound
  <2>4. ASSUME session.overdue = FALSE PROVE NamelessIsExpected(session', caller)
    <3>1. ~Nameless(reply)
      BY <1>1, <1>2, <1>9, <2>4, NamelessMatches DEF reply
    <3>2. \A x \in inbox : ~Nameless(x)
      BY <2>1, <2>4, <3>1 DEF ClientInv, NamelessIsExpected
    <3> QED BY <1>7, <2>2, <2>4, <3>2 DEF NamelessIsExpected, Expected, NamelessFrame
  <2>5. /\ session'.reader = session.reader /\ session'.peer = session.peer
        /\ session'.protocol = session.protocol /\ session'.overdue = session.overdue
        /\ session'.untagged_response_pending = session.untagged_response_pending
        /\ session'.connected = session.connected
    BY <1>3, <2>2
  <2> QED BY <1>6, <1>9, <2>2, <2>3, <2>4, <2>5, TrafficKeeps
<1> QED BY <1>8, <1>9

--------------------------------------------------------------------------------
LEMMA StepKeeps == ASSUME ClientInv, ClientNext PROVE ClientInv'
<1>1. ASSUME NEW c \in Callers, Begin(c) \/ Connect(c) \/ LockReader(c) \/ Send(c) PROVE ClientInv'
  BY <1>1, BeginKeeps, ConnectKeeps, LockReaderKeeps, SendKeeps
<1>2. ASSUME NEW c \in Callers, TakeBuffered(c) \/ Receive(c) \/ GiveUp(c) PROVE ClientInv'
  BY <1>2, TakeBufferedKeeps, ReceiveKeeps, GiveUpKeeps
<1> QED BY <1>1, <1>2, HelperAnswersKeeps, PipeBreaksKeeps DEF ClientNext

LEMMA StutterKeeps == ASSUME ClientInv, UNCHANGED clientVars PROVE ClientInv'
<1>1. UNCHANGED <<apply_wait_generation, connection, connections, session, caller, requests, clientHistory>>
  BY DEF clientVars
<1>2. \A c : (Current(c)' <=> Current(c)) /\ (Superseded(c)' <=> Superseded(c)) /\ (Reads(c)' <=> Reads(c))
  BY <1>1 DEF Current, Superseded, Reads
<1>3. ClientType' /\ Numbered' /\ OneReader' /\ OneApply' /\ Known' /\ AppliesPend'
  BY <1>1, <1>2 DEF ClientInv, ClientType, Numbered, CallIsNumbered, OneReader, OneApply, Known, AppliesPend
<1> QED BY <1>1, <1>3 DEF ClientInv, ReplyIsOwn, NoOvertaking

LEMMA ClientInvHolds == ClientSpec => []ClientInv
<1>1. ClientInit => ClientInv
  BY InitEstablishes
<1>2. ClientInv /\ [ClientNext]_clientVars => ClientInv'
  BY StepKeeps, StutterKeeps
<1> QED BY <1>1, <1>2, PTL DEF ClientSpec

(* A reply is handed only to the request it answers: while the retirement of an unanswered          *)
(* connection has never run out of time, at most one reply that would not name its request is on    *)
(* its way, and the thread that gave the request holds response_mutex (send_apply_json,             *)
(* begin_untagged_response_locked, retire_untagged_response_session_if_needed_locked).              *)
THEOREM RepliesAreOwn == ClientSpec => []ReplyIsOwn
<1>1. ClientInv => ReplyIsOwn
  BY DEF ClientInv
<1> QED BY <1>1, ClientInvHolds, PTL

(* A command that is written is the newest there is, for whatever has been written was begun under  *)
(* the generation of then or an earlier one (send_serialized, cancel_or_begin_apply_wait).          *)
THEOREM NothingOvertakes == ClientSpec => []NoOvertaking
<1>1. ClientInv => NoOvertaking
  BY DEF ClientInv
<1> QED BY <1>1, ClientInvHolds, PTL

===================================================================================
