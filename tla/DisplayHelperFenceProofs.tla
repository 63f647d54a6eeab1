------------------------- MODULE DisplayHelperFenceProofs -------------------------
(* THEOREM FenceHolds: at most one mutation is under way, and the fence names it.   *)
(* THEOREM GateOpensOnRequest: a session gate opens on the desktop it asked for.    *)
(*                                                                                  *)
(* Both follow from where a task can be: in a queue, on a timer, on the worker      *)
(* thread, or posted as a completion that is not yet handled.  The invariant says   *)
(* which of three modes the memory is in: nothing that could act on it is under way *)
(* (quiet), one mutation is and the fence names it (manned), or one verification of *)
(* the current generation is and nobody works (checked).  A handler receives one of *)
(* them, passes through memories that nothing acts on, and leaves one of them.      *)
EXTENDS DisplayHelperProofs, SequenceTheorems

(* A dispatched closure, and what its completion makes of it.                       *)
Item == Task \cup Completion
Mutating == {t \in Item : t.kind \in MutationKinds}
Checking(generation) ==
    {t \in Item : t.kind = "Verification" /\ t.generation = generation}
(* ... none of which must exist:                                                    *)
Unborn(generation) ==
    {t \in Item : t.kind = "Verification" /\ t.generation > generation}
Astray(generation, id) == {t \in Checking(generation) : t.request # id}
Unfenced(worker) ==
    {t \in Mutating : worker # [kind |-> FenceKind(t.kind), generation |-> t.generation]}
Misleading(generation, shown) ==
    {t \in Completion : /\ t.kind = "Verification" /\ t.generation = generation
                        /\ t.status = "Ok" /\ t.request # shown}

(* The four lanes of a task: `out` holds those outside of the memory, what the      *)
(* desktop shows, and the sessions whose gate may be open.                          *)
NoneIn(s, items) == \A i \in DOMAIN s : s[i] \notin items
OneIn(s, items) ==
    \E i \in DOMAIN s : s[i] \in items /\ \A j \in DOMAIN s : s[j] \in items => j = i
Nowhere(m, out, items) ==
    /\ NoneIn(out.posted, items) /\ NoneIn(out.running, items)
    /\ NoneIn(m.tasks, items) /\ NoneIn(m.timers, items)
Once(m, out, items) ==
    \/ /\ OneIn(out.posted, items) /\ NoneIn(out.running, items)
       /\ NoneIn(m.tasks, items) /\ NoneIn(m.timers, items)
    \/ /\ NoneIn(out.posted, items) /\ OneIn(out.running, items)
       /\ NoneIn(m.tasks, items) /\ NoneIn(m.timers, items)
    \/ /\ NoneIn(out.posted, items) /\ NoneIn(out.running, items)
       /\ OneIn(m.tasks, items) /\ NoneIn(m.timers, items)
    \/ /\ NoneIn(out.posted, items) /\ NoneIn(out.running, items)
       /\ NoneIn(m.tasks, items) /\ OneIn(m.timers, items)

(* What holds in every mode: types, no verification of a generation to come, no     *)
(* delayed mutation, and no success of the current generation that is not so.       *)
Base(m, out) ==
    /\ IsRecord(m)
    /\ m.generation \in Nat /\ m.request \in Request /\ m.deferred \in Seq(Command)
    /\ m.tasks \in Seq(Task) /\ m.timers \in Seq(Task)
    /\ out.posted \in Seq(Completion) /\ out.running \in Seq(Task)
    /\ Nowhere(m, out, Unborn(m.generation))
    /\ NoneIn(m.timers, Mutating)
    /\ NoneIn(out.posted, Misleading(m.generation, out.desk))
    /\ \A id \in RequestIds : m.verdict[id] = "ok" => id \in out.ok

(* The states of a session at rest, and those in which a check may be under way.    *)
Resting == {"Waiting", "VirtualDisplayMonitoring"}
Awaits(m) == m.state = "Verification" \/ (m.state \in Resting /\ m.check_pending = TRUE)

(* The modes.  Within a handler there are two more: "vacant", quiet but for the     *)
(* fence that is still up, and "pending", checked but for the state.                *)
Mode(m, out, x) ==
    /\ Base(m, out)
    /\ x # "manned" => Nowhere(m, out, Mutating)
    /\ x \notin {"checked", "pending"} => Nowhere(m, out, Checking(m.generation))
    /\ x \in {"quiet", "checked", "pending"} => m.worker = NoWorker
    /\ x = "manned" =>
         /\ m.worker # NoWorker
         /\ Once(m, out, Mutating) /\ Nowhere(m, out, Unfenced(m.worker))
         /\ m.worker.kind = "RefreshRate" => m.state \in Resting
    /\ x \in {"checked", "pending"} =>
         /\ Once(m, out, Checking(m.generation))
         /\ Nowhere(m, out, Astray(m.generation, m.request.id))
    /\ x = "checked" => Awaits(m)
    /\ x = "pending" => m.check_pending = TRUE
Fenced(m, out) == \E x \in {"quiet", "manned", "checked"} : Mode(m, out, x)

--------------------------------------------------------------------------------
(* Lanes                                                                            *)

(* A task that joins a lane.                                                        *)
LEMMA AppendItems ==
  ASSUME NEW S, NEW s \in Seq(S), NEW t \in S, NEW items
  PROVE  /\ NoneIn(s, items) /\ t \notin items => NoneIn(Append(s, t), items)
         /\ OneIn(s, items) /\ t \notin items => OneIn(Append(s, t), items)
         /\ NoneIn(s, items) /\ t \in items => OneIn(Append(s, t), items)
<1> DEFINE a == Append(s, t)
<1>1. /\ Len(s) \in Nat /\ DOMAIN s = 1..Len(s) /\ DOMAIN a = 1..(Len(s) + 1)
      /\ \A i \in 1..Len(s) : a[i] = s[i]
      /\ a[Len(s) + 1] = t
  BY AppendProperties
<1> HIDE DEF a
<1>2. NoneIn(s, items) /\ t \notin items => NoneIn(a, items)
  BY <1>1 DEF NoneIn
<1>3. OneIn(s, items) /\ t \notin items => OneIn(a, items)
  BY <1>1 DEF OneIn
<1>4. NoneIn(s, items) /\ t \in items => OneIn(a, items)
  BY <1>1 DEF OneIn, NoneIn
<1> QED
  BY <1>2, <1>3, <1>4 DEF a

(* The task at the head of a lane leaves it.                                        *)
LEMMA TailItems ==
  ASSUME NEW S, NEW s \in Seq(S), s # <<>>, NEW items
  PROVE  /\ Head(s) \in S /\ Tail(s) \in Seq(S)
         /\ NoneIn(s, items) => NoneIn(Tail(s), items) /\ Head(s) \notin items
         /\ OneIn(s, items) => \/ NoneIn(Tail(s), items) /\ Head(s) \in items
                               \/ OneIn(Tail(s), items) /\ Head(s) \notin items
<1> DEFINE r == Tail(s)
<1>1. /\ Len(s) \in Nat \ {0} /\ DOMAIN s = 1..Len(s) /\ DOMAIN r = 1..(Len(s) - 1)
      /\ \A i \in 1..(Len(s) - 1) : r[i] = s[i + 1]
      /\ Head(s) = s[1] /\ Head(s) \in S /\ r \in Seq(S)
  BY HeadTailProperties, LenProperties, EmptySeq
<1> HIDE DEF r
<1>2. NoneIn(s, items) => NoneIn(r, items) /\ Head(s) \notin items
  BY <1>1 DEF NoneIn
<1>3. ASSUME OneIn(s, items)
      PROVE  \/ NoneIn(r, items) /\ Head(s) \in items
             \/ OneIn(r, items) /\ Head(s) \notin items
  <2>1. PICK i \in DOMAIN s : s[i] \in items /\ \A j \in DOMAIN s : s[j] \in items => j = i
    BY <1>3 DEF OneIn
  <2>2. CASE i = 1
    BY <1>1, <2>1, <2>2 DEF NoneIn
  <2>3. CASE i # 1
    <3>1. i - 1 \in DOMAIN r /\ r[i - 1] \in items
      BY <1>1, <2>1, <2>3
    <3>2. \A j \in DOMAIN r : r[j] \in items => j = i - 1
      BY <1>1, <2>1
    <3>3. Head(s) \notin items
      BY <1>1, <2>1, <2>3
    <3> QED
      BY <3>1, <3>2, <3>3 DEF OneIn
  <2> QED
    BY <2>2, <2>3
<1> QED
  BY <1>1, <1>2, <1>3 DEF r

(* A lane with at most one task.                                                    *)
LEMMA ShortItems ==
  ASSUME NEW t, NEW items
  PROVE  /\ NoneIn(<<>>, items) /\ ~OneIn(<<>>, items)
         /\ NoneIn(<<t>>, items) <=> t \notin items
         /\ OneIn(<<t>>, items) <=> t \in items
  BY DEF NoneIn, OneIn

(* A handler adds a task to a queue of the dispatcher.                              *)
LEMMA JoinItems ==
  ASSUME NEW m, NEW n, NEW out, m.tasks \in Seq(Task), m.timers \in Seq(Task), NEW t \in Task,
         \/ n.tasks = Append(m.tasks, t) /\ n.timers = m.timers
         \/ n.tasks = m.tasks /\ n.timers = Append(m.timers, t),
         NEW items
  PROVE  /\ Nowhere(m, out, items) /\ t \notin items => Nowhere(n, out, items)
         /\ Once(m, out, items) /\ t \notin items => Once(n, out, items)
         /\ Nowhere(m, out, items) /\ t \in items => Once(n, out, items)
<1>1. ASSUME NEW s \in Seq(Task)
      PROVE  /\ NoneIn(s, items) /\ t \notin items => NoneIn(Append(s, t), items)
             /\ OneIn(s, items) /\ t \notin items => OneIn(Append(s, t), items)
             /\ NoneIn(s, items) /\ t \in items => OneIn(Append(s, t), items)
  BY AppendItems
<1>2. CASE n.tasks = Append(m.tasks, t) /\ n.timers = m.timers
  BY <1>1, <1>2 DEF Nowhere, Once
<1>3. CASE n.tasks = m.tasks /\ n.timers = Append(m.timers, t)
  BY <1>1, <1>3 DEF Nowhere, Once
<1> QED
  BY <1>2, <1>3

--------------------------------------------------------------------------------
(* Assignments                                                                      *)

(* The members the modes speak of.                                                  *)
FenceFields == {"state", "worker", "deferred", "request", "check_pending", "generation",
                "tasks", "timers", "verdict"}

(* Memories that agree on those members are in the same mode.                       *)
LEMMA SameMode ==
  ASSUME NEW m, NEW n, NEW out, NEW x, Mode(m, out, x), IsRecord(n),
         \A g \in FenceFields : n[g] = m[g]
  PROVE  Mode(n, out, x)
<1>1. /\ n.state = m.state /\ n.worker = m.worker /\ n.deferred = m.deferred
      /\ n.request = m.request /\ n.check_pending = m.check_pending
      /\ n.generation = m.generation /\ n.tasks = m.tasks /\ n.timers = m.timers
      /\ n.verdict = m.verdict
  BY DEF FenceFields
<1>2. \A items : /\ Nowhere(n, out, items) <=> Nowhere(m, out, items)
                 /\ Once(n, out, items) <=> Once(m, out, items)
  BY <1>1 DEF Nowhere, Once
<1>3. Base(n, out)
  BY <1>1, <1>2 DEF Base, Mode
<1> QED
  BY <1>1, <1>2, <1>3 DEF Mode, Awaits

(* An assignment to any other member keeps the mode, and these.                     *)
LEMMA UpdateMode ==
  ASSUME NEW m, NEW out, NEW x, Mode(m, out, x), NEW f \in Fields \ FenceFields, NEW v
  PROVE  Mode([m EXCEPT ![f] = v], out, x)
<1> DEFINE n == [m EXCEPT ![f] = v]
<1>1. IsRecord(n)
  BY UpdateIsRecord DEF Mode, Base
<1>2. \A g \in FenceFields : n[g] = m[g]
  BY DEF Mode, Base, IsRecord, Fields, FenceFields
<1> HIDE DEF n
<1>3. Mode(n, out, x)
  BY <1>1, <1>2, SameMode
<1> QED
  BY <1>3 DEF n

(* When nothing is under way, the state and the ladder's flag are free.             *)
LEMMA FreeMode ==
  ASSUME NEW m, NEW out, NEW x \in {"vacant", "quiet"}, Mode(m, out, x),
         NEW f \in {"state", "check_pending"}, NEW v
  PROVE  Mode([m EXCEPT ![f] = v], out, x)
<1> DEFINE n == [m EXCEPT ![f] = v]
<1>1. IsRecord(n)
  BY UpdateIsRecord DEF Mode, Base, Fields
<1>2. /\ n.worker = m.worker /\ n.deferred = m.deferred /\ n.request = m.request
      /\ n.generation = m.generation /\ n.tasks = m.tasks /\ n.timers = m.timers
      /\ n.verdict = m.verdict
  BY DEF Mode, Base, IsRecord, Fields
<1> HIDE DEF n
<1>3. \A items : Nowhere(n, out, items) <=> Nowhere(m, out, items)
  BY <1>2 DEF Nowhere
<1>4. Base(n, out)
  BY <1>1, <1>2, <1>3 DEF Base, Mode
<1>5. Mode(n, out, x)
  BY <1>2, <1>3, <1>4 DEF Mode
<1> QED
  BY <1>5 DEF n

(* So is the request, and a fence that is up does not look at it either.            *)
LEMMA RequestMode ==
  ASSUME NEW m, NEW out, NEW x \in {"vacant", "quiet", "manned"}, Mode(m, out, x),
         NEW r \in Request
  PROVE  Mode([m EXCEPT !.request = r], out, x)
<1> DEFINE n == [m EXCEPT !.request = r]
<1>1. IsRecord(n)
  BY UpdateIsRecord DEF Mode, Base, Fields
<1>2. /\ n.state = m.state /\ n.worker = m.worker /\ n.deferred = m.deferred /\ n.request = r
      /\ n.generation = m.generation /\ n.tasks = m.tasks /\ n.timers = m.timers
      /\ n.verdict = m.verdict
  BY DEF Mode, Base, IsRecord, Fields
<1> HIDE DEF n
<1>3. \A items : /\ Nowhere(n, out, items) <=> Nowhere(m, out, items)
                 /\ Once(n, out, items) <=> Once(m, out, items)
  BY <1>2 DEF Nowhere, Once
<1>4. Base(n, out)
  BY <1>1, <1>2, <1>3 DEF Base, Mode
<1>5. Mode(n, out, x)
  BY <1>2, <1>3, <1>4 DEF Mode
<1> QED
  BY <1>5 DEF n

(* The deferred queue is nobody's business.                                         *)
LEMMA DeferredMode ==
  ASSUME NEW m, NEW out, NEW x, Mode(m, out, x), NEW queue \in Seq(Command)
  PROVE  Mode([m EXCEPT !.deferred = queue], out, x)
<1> DEFINE n == [m EXCEPT !.deferred = queue]
<1>1. IsRecord(n)
  BY UpdateIsRecord DEF Mode, Base, Fields
<1>2. /\ n.state = m.state /\ n.worker = m.worker /\ n.deferred = queue
      /\ n.request = m.request /\ n.check_pending = m.check_pending
      /\ n.generation = m.generation /\ n.tasks = m.tasks /\ n.timers = m.timers
      /\ n.verdict = m.verdict
  BY DEF Mode, Base, IsRecord, Fields
<1> HIDE DEF n
<1>3. \A items : /\ Nowhere(n, out, items) <=> Nowhere(m, out, items)
                 /\ Once(n, out, items) <=> Once(m, out, items)
  BY <1>2 DEF Nowhere, Once
<1>4. Base(n, out)
  BY <1>1, <1>2, <1>3 DEF Base, Mode
<1>5. Mode(n, out, x)
  BY <1>2, <1>3, <1>4 DEF Mode, Awaits
<1> QED
  BY <1>5 DEF n

(* cancel_operations(): a verification under way belongs to the past now.           *)
LEMMA CancelOperationsMode ==
  ASSUME NEW m, NEW out, NEW x, Mode(m, out, x)
  PROVE  /\ Mode(CancelOperations(m), out, IF x \in {"checked", "pending"} THEN "quiet" ELSE x)
         /\ CancelOperations(m).worker = m.worker
         /\ CancelOperations(m).state = m.state
         /\ CancelOperations(m).generation = m.generation + 1
<1> DEFINE n == CancelOperations(m)
           y == IF x \in {"checked", "pending"} THEN "quiet" ELSE x
<1>1. IsRecord(n)
  BY UpdateIsRecord DEF Mode, Base, Fields, CancelOperations
<1>2. /\ n.state = m.state /\ n.worker = m.worker /\ n.deferred = m.deferred
      /\ n.request = m.request /\ n.check_pending = m.check_pending
      /\ n.generation = m.generation + 1 /\ n.tasks = m.tasks /\ n.timers = m.timers
      /\ n.verdict = m.verdict /\ m.generation \in Nat
  BY DEF Mode, Base, IsRecord, Fields, CancelOperations
<1> HIDE DEF n
<1>3. \A items : /\ Nowhere(n, out, items) <=> Nowhere(m, out, items)
                 /\ Once(n, out, items) <=> Once(m, out, items)
  BY <1>2 DEF Nowhere, Once
<1>4. \A items : items \subseteq Unborn(m.generation) /\ Nowhere(m, out, Unborn(m.generation))
                   => Nowhere(m, out, items)
  BY DEF Nowhere, NoneIn
<1>5. /\ Unborn(n.generation) \subseteq Unborn(m.generation)
      /\ Checking(n.generation) \subseteq Unborn(m.generation)
      /\ Misleading(n.generation, out.desk) \subseteq Unborn(m.generation)
  BY <1>2 DEF Unborn, Checking, Misleading, Item, Task, Completion
<1>6. /\ Nowhere(m, out, Unborn(n.generation)) /\ Nowhere(m, out, Checking(n.generation))
      /\ Nowhere(m, out, Misleading(n.generation, out.desk))
  BY <1>4, <1>5 DEF Mode, Base
<1>7. NoneIn(out.posted, Misleading(n.generation, out.desk))
  BY <1>6 DEF Nowhere
<1>8. Base(n, out)
  BY <1>1, <1>2, <1>3, <1>6, <1>7 DEF Base, Mode
<1> HIDE DEF y
<1>9. /\ y \notin {"checked", "pending"} /\ (y = "manned" => x = "manned")
      /\ y # "manned" => x # "manned"
      /\ y = "quiet" => x \in {"quiet", "checked", "pending"}
  BY DEF y
<1>10. Mode(n, out, y)
  BY <1>2, <1>3, <1>6, <1>8, <1>9 DEF Mode
<1> QED
  BY <1>2, <1>10 DEF n, y

(* active_mutation_worker_.reset(), once nothing is under way.                      *)
LEMMA ReleaseFenceMode ==
  ASSUME NEW m, NEW out, Mode(m, out, "vacant")
  PROVE  Mode(ReleaseFence(m), out, "quiet")
<1> DEFINE n == ReleaseFence(m)
<1>1. IsRecord(n)
  BY UpdateIsRecord DEF Mode, Base, Fields, ReleaseFence
<1>2. /\ n.worker = NoWorker /\ n.deferred = m.deferred /\ n.request = m.request
      /\ n.generation = m.generation /\ n.tasks = m.tasks /\ n.timers = m.timers
      /\ n.verdict = m.verdict
  BY DEF Mode, Base, IsRecord, Fields, ReleaseFence
<1> HIDE DEF n
<1>3. \A items : Nowhere(n, out, items) <=> Nowhere(m, out, items)
  BY <1>2 DEF Nowhere
<1>4. Base(n, out)
  BY <1>1, <1>2, <1>3 DEF Base, Mode
<1>5. Mode(n, out, "quiet")
  BY <1>2, <1>3, <1>4 DEF Mode
<1> QED
  BY <1>5 DEF n

(* send_verification_result(): a gate opens for a session that `out` admits.        *)
LEMMA RepliesMode ==
  ASSUME NEW m, NEW out, NEW x, Mode(m, out, x), NEW success \in BOOLEAN,
         success = TRUE => m.request.id \in out.ok
  PROVE  /\ Mode(SendApplyResult(m), out, x)
         /\ Mode(SendVerificationResult(m, success), out, x)
<1>1. Mode(SendApplyResult(m), out, x)
  BY UpdateMode DEF SendApplyResult, Fields, FenceFields
<1> DEFINE told == [m EXCEPT !.verification_sent = TRUE]
           verdict == [id \in RequestIds |-> IF id = m.request.id
                                            THEN IF success THEN "ok" ELSE "failed"
                                            ELSE m.verdict[id]]
           n == [told EXCEPT !.verdict = verdict]
<1>2. Mode(told, out, x)
  BY UpdateMode DEF Fields, FenceFields
<1>3. SendVerificationResult(m, success) = IF m.verification_sent THEN m ELSE n
  BY DEF SendVerificationResult, Mode, Base, IsRecord, Fields
<1>4. \A id \in RequestIds : m.verdict[id] = "ok" => id \in out.ok
  BY DEF Mode, Base
<1>5. \A id \in RequestIds : verdict[id] = "ok" => id \in out.ok
  BY <1>4
<1> HIDE DEF told, verdict
<1>6. IsRecord(n)
  BY <1>2, UpdateIsRecord DEF Mode, Base, Fields
<1>7. /\ n.state = told.state /\ n.worker = told.worker /\ n.deferred = told.deferred
      /\ n.request = told.request /\ n.check_pending = told.check_pending
      /\ n.generation = told.generation /\ n.tasks = told.tasks /\ n.timers = told.timers
      /\ n.verdict = verdict
  BY <1>2 DEF Mode, Base, IsRecord, Fields
<1> HIDE DEF n
<1>8. \A items : /\ Nowhere(n, out, items) <=> Nowhere(told, out, items)
                 /\ Once(n, out, items) <=> Once(told, out, items)
  BY <1>7 DEF Nowhere, Once
<1>9. Base(n, out)
  BY <1>2, <1>5, <1>6, <1>7, <1>8 DEF Base, Mode
<1>10. Mode(n, out, x)
  BY <1>2, <1>7, <1>8, <1>9 DEF Mode, Awaits
<1> QED
  BY <1>1, <1>3, <1>10

--------------------------------------------------------------------------------
(* Dispatches                                                                       *)

(* The task a closure becomes: of this kind, generation and request.                *)
TaskOf(t, m, kind) ==
    /\ t \in Task /\ t \in Item /\ t.kind = kind
    /\ t.generation = m.generation /\ t.request = m.request.id
LEMMA TaskForItem ==
  ASSUME NEW m, NEW out, NEW x, Mode(m, out, x), NEW kind \in TaskKinds
  PROVE  /\ TaskOf(TaskFor(m, kind), m, kind)
         /\ \A device \in Devices : TaskOf([TaskFor(m, kind) EXCEPT !.device = device], m, kind)
         /\ \A purpose \in Purposes :
              TaskOf([TaskFor(m, kind) EXCEPT !.purpose = purpose], m, kind)
<1>1. m.request \in Request /\ m.generation \in Nat
  BY DEF Mode, Base
<1> DEFINE t == TaskFor(m, kind)
<1>2. /\ t \in Task /\ t.kind = kind /\ t.generation = m.generation /\ t.request = m.request.id
  BY <1>1 DEF TaskFor, Task, Request, Purposes
<1> HIDE DEF t
<1>3. /\ TaskOf(t, m, kind)
      /\ \A device \in Devices : TaskOf([t EXCEPT !.device = device], m, kind)
      /\ \A purpose \in Purposes : TaskOf([t EXCEPT !.purpose = purpose], m, kind)
  BY <1>2 DEF TaskOf, Task, Item
<1> QED
  BY <1>3 DEF t

(* A reset of the staged state joins the queue; no mode speaks of it.               *)
LEMMA BeginStagedStateResetMode ==
  ASSUME NEW m, NEW out, NEW x, Mode(m, out, x)
  PROVE  Mode(BeginStagedStateReset(m), out, x)
<1> DEFINE k == [m EXCEPT !.reset_pending = TRUE]
           t == TaskFor(m, "Reset")
           n == [k EXCEPT !.tasks = Append(@, t)]
<1>1. Mode(k, out, x)
  BY UpdateMode DEF Fields, FenceFields
<1>2. t \in Task /\ t.kind = "Reset"
  BY TaskForItem DEF TaskKinds, TaskOf
<1>3. BeginStagedStateReset(m) = IF m.reset_pending THEN m ELSE n
  BY DEF BeginStagedStateReset, Enqueue
<1> HIDE DEF k, t
<1>4. IsRecord(n)
  BY <1>1, UpdateIsRecord DEF Mode, Base, Fields
<1>5. /\ n.state = k.state /\ n.worker = k.worker /\ n.deferred = k.deferred
      /\ n.request = k.request /\ n.check_pending = k.check_pending
      /\ n.generation = k.generation /\ n.tasks = Append(k.tasks, t) /\ n.timers = k.timers
      /\ n.verdict = k.verdict
  BY <1>1 DEF Mode, Base, IsRecord, Fields
<1> HIDE DEF n
<1>6. /\ t \notin Mutating /\ t \notin Unborn(k.generation) /\ t \notin Checking(k.generation)
      /\ t \notin Astray(k.generation, k.request.id) /\ t \notin Unfenced(k.worker)
  BY <1>2 DEF Mutating, MutationKinds, WorkerKinds, Unborn, Checking, Astray, Unfenced
<1>7. k.tasks \in Seq(Task) /\ k.timers \in Seq(Task)
  BY <1>1 DEF Mode, Base
<1>8. \A items : t \notin items => /\ Nowhere(k, out, items) => Nowhere(n, out, items)
                                   /\ Once(k, out, items) => Once(n, out, items)
  BY <1>2, <1>5, <1>7, JoinItems
<1>9. n.tasks \in Seq(Task)
  BY <1>2, <1>5, <1>7, AppendProperties
<1>10. Base(n, out)
  BY <1>1, <1>4, <1>5, <1>6, <1>8, <1>9 DEF Base, Mode
<1>11. Mode(n, out, x)
  BY <1>1, <1>5, <1>6, <1>8, <1>10 DEF Mode, Awaits
<1> QED
  BY <1>3, <1>11

(* A mutation joins the queue and its fence goes up, when nothing is under way.     *)
LEMMA MutationMode ==
  ASSUME NEW m, NEW out, Mode(m, out, "vacant") \/ Mode(m, out, "quiet"), NEW t \in Task, t \in Mutating,
         NEW worker, worker = [kind |-> FenceKind(t.kind), generation |-> t.generation],
         worker.kind = "RefreshRate" => m.state \in Resting,
         NEW n, n = [Enqueue(m, t) EXCEPT !.worker = worker]
  PROVE  Mode(n, out, "manned")
<1>1. Mode(m, out, "vacant")
  BY DEF Mode
<1>2. IsRecord(n)
  BY <1>1, UpdateIsRecord DEF Mode, Base, Fields, Enqueue
<1>3. /\ n.state = m.state /\ n.worker = worker /\ n.deferred = m.deferred
      /\ n.request = m.request /\ n.check_pending = m.check_pending
      /\ n.generation = m.generation /\ n.tasks = Append(m.tasks, t) /\ n.timers = m.timers
      /\ n.verdict = m.verdict
  BY <1>1 DEF Mode, Base, IsRecord, Fields, Enqueue
<1>4. m.tasks \in Seq(Task) /\ m.timers \in Seq(Task)
  BY <1>1 DEF Mode, Base
<1>5. t.kind # "Verification" /\ t \notin Unfenced(worker)
  BY DEF Mutating, MutationKinds, WorkerKinds, Unfenced
<1>6. t \notin Unborn(m.generation) /\ t \notin Checking(m.generation)
  BY <1>5 DEF Unborn, Checking
<1>7. \A items : /\ Nowhere(m, out, items) /\ t \notin items => Nowhere(n, out, items)
                 /\ Nowhere(m, out, items) /\ t \in items => Once(n, out, items)
  BY <1>3, <1>4, JoinItems
<1>8. Nowhere(m, out, Mutating) => Nowhere(m, out, Unfenced(worker))
  BY DEF Nowhere, NoneIn, Unfenced
<1>9. n.tasks \in Seq(Task)
  <2>1. Append(m.tasks, t) \in Seq(Task)
    BY <1>4, AppendProperties
  <2> QED
    BY <1>3, <2>1
<1>10. Base(n, out)
  BY <1>1, <1>2, <1>3, <1>6, <1>7, <1>9 DEF Base, Mode
<1>11. worker # NoWorker
  BY DEF NoWorker, FenceKind, Mutating, MutationKinds, WorkerKinds
<1> QED
  BY <1>1, <1>3, <1>5, <1>6, <1>7, <1>8, <1>10, <1>11 DEF Mode

(* dispatch_apply_worker(), and the dispatches of a recovery and a refresh rate.    *)
LEMMA DispatchMode ==
  ASSUME NEW m, NEW out, Mode(m, out, "vacant") \/ Mode(m, out, "quiet"), NEW device \in Devices
  PROVE  /\ Mode(DispatchApply(m), out, "manned")
         /\ Mode(DispatchRecovery(m), out, "manned")
         /\ m.state \in Resting => Mode(DispatchRefreshRate(m, device), out, "manned")
<1>1. Mode(m, out, "vacant")
  BY DEF Mode
<1>2. ASSUME NEW kind \in WorkerKinds,
             NEW t \in {TaskFor(m, kind), [TaskFor(m, kind) EXCEPT !.device = device]},
             kind = "RefreshRate" => m.state \in Resting
      PROVE  Mode(Fence(Enqueue(m, t), kind), out, "manned")
  <2> DEFINE worker == [kind |-> kind, generation |-> m.generation]
             n == [Enqueue(m, t) EXCEPT !.worker = worker]
  <2>1. /\ t \in Task /\ t \in Item /\ t.kind = kind /\ t.generation = m.generation
    <3>1. TaskOf(t, m, kind)
      BY <1>1, TaskForItem DEF TaskKinds
    <3> QED
      BY <3>1 DEF TaskOf
  <2>2. t \in Mutating /\ FenceKind(t.kind) = kind
    BY <2>1 DEF Mutating, MutationKinds, FenceKind, WorkerKinds
  <2>3. Enqueue(m, t).generation = m.generation
    BY <1>1 DEF Mode, Base, IsRecord, Fields, Enqueue
  <2>4. Fence(Enqueue(m, t), kind) = n
    BY <2>3 DEF Fence
  <2>5. worker = [kind |-> FenceKind(t.kind), generation |-> t.generation]
    BY <2>1, <2>2
  <2>6. worker.kind = "RefreshRate" => m.state \in Resting
    BY <1>2
  <2> HIDE DEF n, worker
  <2>7. n = [Enqueue(m, t) EXCEPT !.worker = worker]
    BY DEF n
  <2>8. Mode(n, out, "manned")
    BY <1>1, <2>1, <2>2, <2>5, <2>6, <2>7, MutationMode
  <2> QED
    BY <2>4, <2>8
<1> QED
  BY <1>2 DEF DispatchApply, DispatchRecovery, DispatchRefreshRate, WorkerKinds

(* The validation joins the queue under the recovery's fence.                       *)
LEMMA DispatchValidationMode ==
  ASSUME NEW m, NEW out, Mode(m, out, "vacant"), m.worker.kind = "Recovery",
         m.worker = [kind |-> m.worker.kind, generation |-> m.worker.generation]
  PROVE  Mode(DispatchValidation(m), out, "manned")
<1> DEFINE t == TaskFor(m, "Validation")
           worker == [kind |-> "Recovery", generation |-> m.generation]
           n == [Enqueue(m, t) EXCEPT !.worker = worker]
<1>1. /\ t \in Task /\ t \in Item /\ t.kind = "Validation" /\ t.generation = m.generation
  BY TaskForItem DEF TaskKinds, TaskOf
<1>2. t \in Mutating /\ FenceKind(t.kind) = "Recovery"
  BY <1>1 DEF Mutating, MutationKinds, FenceKind, WorkerKinds
<1> HIDE DEF t
<1>3. Enqueue(m, t).worker = m.worker
  BY DEF Mode, Base, IsRecord, Fields, Enqueue
<1>4. [m.worker EXCEPT !.generation = m.generation] = worker
  OBVIOUS
<1>5. DispatchValidation(m) = n
  BY <1>3, <1>4 DEF DispatchValidation, t
<1>6. worker = [kind |-> FenceKind(t.kind), generation |-> t.generation]
  BY <1>1, <1>2
<1>7. worker.kind # "RefreshRate"
  OBVIOUS
<1> HIDE DEF n, worker
<1>8. n = [Enqueue(m, t) EXCEPT !.worker = worker]
  BY DEF n
<1>9. Mode(n, out, "manned")
  BY <1>1, <1>2, <1>6, <1>7, <1>8, MutationMode
<1> QED
  BY <1>5, <1>9

(* A verification joins a queue, when nothing is under way.                         *)
LEMMA CheckMode ==
  ASSUME NEW m, NEW out, Mode(m, out, "quiet"), NEW purpose \in Purposes,
         NEW n \in {DispatchVerification(m, purpose), DispatchVerificationAfter(m, purpose)}
  PROVE  /\ n.state = m.state
         /\ Awaits(m) => Mode(n, out, "checked")
         /\ m.check_pending = TRUE => Mode(n, out, "pending")
<1> DEFINE t == [TaskFor(m, "Verification") EXCEPT !.purpose = purpose]
<1>1. /\ t \in Task /\ t \in Item /\ t.kind = "Verification" /\ t.generation = m.generation
      /\ t.request = m.request.id
  BY TaskForItem DEF TaskKinds, TaskOf
<1> HIDE DEF t
<1>2. n \in {[m EXCEPT !.tasks = Append(@, t)], [m EXCEPT !.timers = Append(@, t)]}
  BY DEF DispatchVerification, DispatchVerificationAfter, Enqueue, t
<1>3. IsRecord(n)
  <2>1. IsRecord(m) /\ "tasks" \in Fields /\ "timers" \in Fields
    BY DEF Mode, Base, Fields
  <2>2. \A v : IsRecord([m EXCEPT !.tasks = v]) /\ IsRecord([m EXCEPT !.timers = v])
    BY <2>1, UpdateIsRecord
  <2> QED
    BY <1>2, <2>2
<1>4. /\ n.state = m.state /\ n.worker = m.worker /\ n.deferred = m.deferred
      /\ n.request = m.request /\ n.check_pending = m.check_pending
      /\ n.generation = m.generation /\ n.verdict = m.verdict
      /\ \/ n.tasks = Append(m.tasks, t) /\ n.timers = m.timers
         \/ n.tasks = m.tasks /\ n.timers = Append(m.timers, t)
  BY <1>2 DEF Mode, Base, IsRecord, Fields
<1>5. m.tasks \in Seq(Task) /\ m.timers \in Seq(Task) /\ m.generation \in Nat
  BY DEF Mode, Base
<1>6. /\ t \notin Unborn(m.generation) /\ t \notin Mutating
      /\ t \in Checking(m.generation) /\ t \notin Astray(m.generation, m.request.id)
  BY <1>1, <1>5 DEF Unborn, Checking, Astray, Mutating, MutationKinds, WorkerKinds
<1>7. \A items : /\ Nowhere(m, out, items) /\ t \notin items => Nowhere(n, out, items)
                 /\ Nowhere(m, out, items) /\ t \in items => Once(n, out, items)
  BY <1>1, <1>4, <1>5, JoinItems
<1>8. Nowhere(m, out, Checking(m.generation)) => Nowhere(m, out, Astray(m.generation, m.request.id))
  BY DEF Nowhere, NoneIn, Astray
<1>9. n.tasks \in Seq(Task) /\ n.timers \in Seq(Task) /\ NoneIn(n.timers, Mutating)
  <2>1. NoneIn(m.timers, Mutating)
    BY DEF Mode, Base
  <2>2. NoneIn(Append(m.timers, t), Mutating)
    BY <1>1, <1>5, <1>6, <2>1, AppendItems
  <2>3. Append(m.tasks, t) \in Seq(Task) /\ Append(m.timers, t) \in Seq(Task)
    BY <1>1, <1>5, AppendProperties
  <2> QED
    BY <1>4, <1>5, <2>1, <2>2, <2>3
<1>10. Base(n, out)
  BY <1>3, <1>4, <1>6, <1>7, <1>9 DEF Base, Mode
<1>11. Awaits(m) => Mode(n, out, "checked")
  BY <1>4, <1>6, <1>7, <1>8, <1>10 DEF Mode, Awaits
<1>12. m.check_pending = TRUE => Mode(n, out, "pending")
  BY <1>4, <1>6, <1>7, <1>8, <1>10 DEF Mode
<1> QED
  BY <1>4, <1>11, <1>12

--------------------------------------------------------------------------------
(* Ladders, lease and settlement                                                    *)

(* Out of a handler's two modes into those of the invariant.                        *)
LEMMA ModeIsFenced ==
  ASSUME NEW m, NEW out
  PROVE  /\ Mode(m, out, "quiet") => Fenced(m, out) /\ Mode(m, out, "vacant")
         /\ Mode(m, out, "manned") => Fenced(m, out)
         /\ Mode(m, out, "checked") => Fenced(m, out)
  BY DEF Fenced, Mode

(* A transition while nothing is under way.                                         *)
LEMMA TransitionMode ==
  ASSUME NEW m, NEW out, NEW x \in {"vacant", "quiet"}, Mode(m, out, x), NEW next
  PROVE  Mode(Transition(m, next), out, x) /\ Transition(m, next).state = next
<1>1. Mode(Transition(m, next), out, x)
  BY FreeMode DEF Transition
<1>2. Transition(m, next).state = next
  BY DEF Mode, Base, IsRecord, Fields, Transition
<1> QED
  BY <1>1, <1>2

(* What the settlement, the lease and the restore task touch, no mode speaks of.    *)
LEMMA LeaseMode ==
  ASSUME NEW m, NEW out, NEW x, Mode(m, out, x), NEW c, NEW e
  PROVE  /\ Mode(ResetSettlement(m), out, x) /\ Mode(ResetRequestProgress(m), out, x)
         /\ Mode(ApplyRecoveryPolicy(m), out, x) /\ Mode(ActivateRecoveryLease(m), out, x)
         /\ Mode(CreateRestoreTaskIfMissing(m, e), out, x)
         /\ Mode(RetainAfterMutation(m, c, e), out, x)
         /\ Mode(RetainAfterCancelledRecovery(m), out, x)
<1>1. ASSUME NEW n, Mode(n, out, x) PROVE Mode(ApplyRecoveryPolicy(n), out, x)
  BY <1>1, UpdateMode DEF ApplyRecoveryPolicy, Fields, FenceFields
<1>2. ASSUME NEW n, Mode(n, out, x) PROVE Mode(ActivateRecoveryLease(n), out, x)
  <2>1. Mode([n EXCEPT !.recovery_armed = TRUE, !.changes_pending = TRUE], out, x)
    BY <1>2, UpdateMode DEF Fields, FenceFields
  <2> QED
    BY <1>1, <2>1 DEF ActivateRecoveryLease
<1>3. ASSUME NEW n, Mode(n, out, x) PROVE Mode(CreateRestoreTaskIfMissing(n, e), out, x)
  BY <1>3, UpdateMode DEF CreateRestoreTaskIfMissing, Fields, FenceFields
<1>4. Mode(ResetSettlement(m), out, x)
  BY UpdateMode DEF ResetSettlement, Fields, FenceFields
<1>5. Mode(ResetRequestProgress(m), out, x) /\ Mode([m EXCEPT !.task_created = @ \/ c.durable], out, x)
  BY UpdateMode DEF ResetRequestProgress, Fields, FenceFields
<1>6. Mode(RetainAfterCancelledRecovery(m), out, x)
  BY UpdateMode DEF RetainAfterCancelledRecovery, Fields, FenceFields
<1> QED
  BY <1>1, <1>2, <1>3, <1>4, <1>5, <1>6 DEF RetainAfterMutation

(* clear_recovery_state()                                                           *)
LEMMA ClearRecoveryStateMode ==
  ASSUME NEW m, NEW out, NEW x, Mode(m, out, x)
  PROVE  Mode(ClearRecoveryState(m), out, x)
<1> DEFINE n == ResetSettlement(ResetRequestProgress(m))
           k == [n EXCEPT !.scheduler = "off", !.recovery_armed = FALSE,
                          !.changes_pending = FALSE, !.explicit_recovery = FALSE]
<1>1. Mode(n, out, x)
  BY LeaseMode
<1> HIDE DEF n
<1>2. Mode(k, out, x)
  BY <1>1, UpdateMode DEF Fields, FenceFields
<1> HIDE DEF k
<1>3. Mode([k EXCEPT !.last_apply = "none", !.os_task = FALSE,
                     !.task_created = FALSE, !.owed = FALSE], out, x)
  BY <1>2, UpdateMode DEF Fields, FenceFields
<1> QED
  BY <1>3 DEF ClearRecoveryState, k, n

(* reset_uncommitted_staged_state()                                                 *)
LEMMA ResetUncommittedStagedStateMode ==
  ASSUME NEW m, NEW out, NEW x, Mode(m, out, x)
  PROVE  Mode(ResetUncommittedStagedState(m), out, x)
<1>1. Mode([m EXCEPT !.os_task = FALSE, !.task_created = FALSE], out, x)
  BY UpdateMode DEF Fields, FenceFields
<1> QED
  BY <1>1, BeginStagedStateResetMode DEF ResetUncommittedStagedState

(* The ladder rewinds and resets while nothing is under way.                        *)
LEMMA LaddersMode ==
  ASSUME NEW m, NEW out, NEW x \in {"vacant", "quiet"}, Mode(m, out, x)
  PROVE  /\ Mode(ResetStabilization(m), out, x) /\ ResetStabilization(m).state = m.state
         /\ Mode(RewindStabilization(m), out, x) /\ RewindStabilization(m).state = m.state
<1> DEFINE n == [m EXCEPT !.check_pending = FALSE]
<1>1. Mode(n, out, x)
  BY FreeMode
<1> HIDE DEF n
<1>2. /\ Mode([n EXCEPT !.next_check = 0], out, x)
      /\ Mode([n EXCEPT !.next_check = 0, !.checks = 0, !.next_reapply = 0, !.reapplies = 0], out, x)
  BY <1>1, UpdateMode DEF Fields, FenceFields
<1>3. /\ ResetStabilization(m).state = m.state
      /\ RewindStabilization(m).state = m.state
  BY DEF Mode, Base, IsRecord, Fields, ResetStabilization, RewindStabilization
<1> QED
  BY <1>2, <1>3 DEF ResetStabilization, RewindStabilization, n

(* start_recovery()                                                                 *)
LEMMA StartRecoveryMode ==
  ASSUME NEW m, NEW out, Mode(m, out, "quiet")
  PROVE  Mode(StartRecovery(m), out, "manned")
<1>1. Mode([m EXCEPT !.recovery_reset = "none"], out, "quiet")
  BY UpdateMode DEF Fields, FenceFields
<1>2. 0 \in Devices
  BY DeviceAssumption DEF Devices
<1> QED
  BY <1>1, <1>2, TransitionMode, DispatchMode DEF StartRecovery

(* An APPLY dispatched by a session in progress.                                    *)
LEMMA ApplyAgainMode ==
  ASSUME NEW m, NEW out, Mode(m, out, "quiet"), NEW next
  PROVE  Mode(DispatchApply(Transition(m, next)), out, "manned") /\ Mode(DispatchApply(m), out, "manned")
<1>2. 0 \in Devices
  BY DeviceAssumption DEF Devices
<1> QED
  BY <1>2, TransitionMode, DispatchMode

(* The steady state is one in which a pending check may be under way.               *)
LEMMA EnterSteadyStateMode ==
  ASSUME NEW m, NEW out
  PROVE  /\ Mode(m, out, "quiet") => Mode(EnterSteadyState(m), out, "quiet")
         /\ Mode(m, out, "pending") => Mode(EnterSteadyState(m), out, "checked")
<1>1. Mode(m, out, "quiet") => Mode(EnterSteadyState(m), out, "quiet")
  BY TransitionMode DEF EnterSteadyState
<1>2. ASSUME Mode(m, out, "pending") PROVE Mode(EnterSteadyState(m), out, "checked")
  <2> DEFINE n == EnterSteadyState(m)
  <2>1. IsRecord(n)
    BY <1>2, UpdateIsRecord DEF Mode, Base, Fields, EnterSteadyState, Transition
  <2>2. /\ n.state \in Resting /\ n.worker = m.worker /\ n.deferred = m.deferred
        /\ n.request = m.request /\ n.check_pending = m.check_pending
        /\ n.generation = m.generation /\ n.tasks = m.tasks /\ n.timers = m.timers
        /\ n.verdict = m.verdict
    BY <1>2 DEF Mode, Base, IsRecord, Fields, EnterSteadyState, Transition, Resting
  <2> HIDE DEF n
  <2>3. \A items : /\ Nowhere(n, out, items) <=> Nowhere(m, out, items)
                   /\ Once(n, out, items) <=> Once(m, out, items)
    BY <2>2 DEF Nowhere, Once
  <2>4. Base(n, out)
    BY <1>2, <2>1, <2>2, <2>3 DEF Base, Mode
  <2>5. Mode(n, out, "checked")
    BY <1>2, <2>2, <2>3, <2>4 DEF Mode, Awaits
  <2> QED
    BY <2>5 DEF n
<1> QED
  BY <1>1, <1>2

(* A pending check that is under way in a state that awaits it.                     *)
LEMMA PendingMode ==
  ASSUME NEW m, NEW out, Mode(m, out, "pending"), m.state \in Resting \cup {"Verification"}
  PROVE  Mode(m, out, "checked")
  BY DEF Mode, Awaits

(* schedule_next_post_apply_check()                                                 *)
LEMMA ScheduleNextCheckMode ==
  ASSUME NEW m, NEW out, Mode(m, out, "quiet")
  PROVE  /\ Mode(ScheduleNextCheck(m), out, "quiet") \/ Mode(ScheduleNextCheck(m), out, "pending")
         /\ ScheduleNextCheck(m).state = m.state
<1> DEFINE k == [m EXCEPT !.next_check = @ + 1]
           n == [k EXCEPT !.check_pending = TRUE]
<1>1. Mode(k, out, "quiet")
  BY UpdateMode DEF Fields, FenceFields
<1>2. k.state = m.state
  BY DEF Mode, Base, IsRecord, Fields
<1> HIDE DEF k
<1>3. Mode(n, out, "quiet")
  BY <1>1, FreeMode
<1>4. n.check_pending = TRUE /\ n.state = m.state
  BY <1>1, <1>2 DEF Mode, Base, IsRecord, Fields
<1> HIDE DEF n
<1>5. /\ Mode(DispatchVerificationAfter(n, "Stabilization"), out, "pending")
      /\ DispatchVerificationAfter(n, "Stabilization").state = m.state
  BY <1>3, <1>4, CheckMode DEF Purposes
<1> QED
  BY <1>5 DEF ScheduleNextCheck, n, k

(* A repair of a rejected session, or none.                                         *)
LEMMA NextReapplyMode ==
  ASSUME NEW m, NEW out, Mode(m, out, "quiet"), m.next_reapply \in Nat, m.reapplies \in Nat
  PROVE  /\ CanReapply(m) => Mode(NextReapply(m), out, "manned")
         /\ ~CanReapply(m) => Mode(NextReapply(m), out, "quiet")
<1> DEFINE check == IF m.next_check < m.next_reapply THEN m.next_reapply ELSE m.next_check
           n == [m EXCEPT !.next_reapply = @ + 1, !.next_check = check]
<1>1. Mode([m EXCEPT !.next_reapply = @ + 1], out, "quiet")
  BY UpdateMode DEF Fields, FenceFields
<1>2. n = [m EXCEPT !.next_reapply = @ + 1,
                    !.next_check = IF @ < m.next_reapply THEN m.next_reapply ELSE @]
  BY DEF Mode, Base, IsRecord, Fields
<1> HIDE DEF check
<1>3. Mode(n, out, "quiet")
  BY UpdateMode DEF Fields, FenceFields
<1> HIDE DEF n
<1>4. Mode(DispatchApply(Transition(n, "InProgress")), out, "manned")
  BY <1>3, ApplyAgainMode
<1> QED
  BY <1>1, <1>2, <1>4 DEF NextReapply, CanReapply

(* A stage of the disconnect settlement, or none.                                   *)
LEMMA NextSettleMode ==
  ASSUME NEW m, NEW out, Mode(m, out, "quiet")
  PROVE  /\ Fenced(NextSettle(m), out)
         /\ ~CanSettle(m) => Mode(NextSettle(m), out, "quiet")
<1> DEFINE n == [m EXCEPT !.next_settle = @ + 1, !.settle_pending = TRUE]
           k == Transition(n, "Verification")
<1>1. Mode(n, out, "quiet")
  BY UpdateMode DEF Fields, FenceFields
<1> HIDE DEF n
<1>2. Mode(k, out, "quiet") /\ k.state = "Verification"
  BY <1>1, TransitionMode
<1> HIDE DEF k
<1>3. Mode(DispatchVerificationAfter(k, "TransientDisconnect"), out, "checked")
  BY <1>2, CheckMode DEF Awaits, Purposes
<1>4. Mode(ResetSettlement(m), out, "quiet")
  BY LeaseMode
<1>5. NextSettle(m) = IF m.settle_pending THEN m ELSE IF ~CanSettle(m) THEN ResetSettlement(m)
                      ELSE DispatchVerificationAfter(k, "TransientDisconnect")
  BY DEF NextSettle, k, n
<1>6. m.settle_pending => CanSettle(m)
  BY DEF CanSettle
<1> QED
  BY <1>3, <1>4, <1>5, <1>6, ModeIsFenced

(* The repairs that follow a failed check.                                          *)
LEMMA RepairMode ==
  ASSUME NEW m, NEW out, Mode(m, out, "quiet")
  PROVE  /\ Mode(SettlementRepair(m), out, "manned")
         /\ Mode(StabilizationRepair(m), out, "manned")
<1> DEFINE n == CancelOperations(m)
           stage == IF m.next_reapply < m.next_check + 1 THEN m.next_check + 1 ELSE m.next_reapply
<1>1. Mode(n, out, "quiet")
  BY CancelOperationsMode
<1> HIDE DEF n
<1>2. Mode([n EXCEPT !.settle_pending = FALSE, !.settle_repairing = TRUE], out, "quiet")
  BY <1>1, UpdateMode DEF Fields, FenceFields
<1>3. StabilizationRepair(m) =
        DispatchApply(Transition([m EXCEPT !.next_reapply = stage], "InProgress"))
  BY DEF StabilizationRepair, Mode, Base, IsRecord, Fields
<1> HIDE DEF stage
<1>4. Mode([m EXCEPT !.next_reapply = stage], out, "quiet")
  BY UpdateMode DEF Fields, FenceFields
<1> QED
  BY <1>2, <1>3, <1>4, ApplyAgainMode DEF SettlementRepair, n

(* The settlement of a lost connection replaces the ladder and its check.           *)
LEMMA ReplaceStabilizationMode ==
  ASSUME NEW m, NEW out, m.verified \in BOOLEAN, m.check_pending \in BOOLEAN,
         Mode(m, out, "quiet") \/
           (Mode(m, out, "checked") /\ ~(~m.verified /\ m.state = "Verification"))
  PROVE  Mode(ReplaceStabilization(m), out, "quiet")
<1> DEFINE n == IF m.check_pending \/ (m.verified /\ m.state = "Verification")
                THEN CancelOperations(m) ELSE m
<1>1. Mode(m, out, "checked") => m.check_pending \/ m.state = "Verification"
  BY DEF Mode, Awaits
<1>2. Mode(n, out, "quiet")
  BY <1>1, CancelOperationsMode
<1> HIDE DEF n
<1> QED
  BY <1>2, LaddersMode DEF ReplaceStabilization, n

(* The exit callback cancels.                                                       *)
LEMMA ExitHelperMode ==
  ASSUME NEW m, NEW out, Fenced(m, out), NEW code
  PROVE  Fenced(ExitHelper(m, code), out)
<1>1. PICK x \in {"quiet", "manned", "checked"} : Mode(m, out, x)
  BY DEF Fenced
<1>2. Mode([m EXCEPT !.restore_origin = 0], out, x)
  BY <1>1, UpdateMode DEF Fields, FenceFields
<1> DEFINE n == CancelOperations(m)
           y == IF x \in {"checked", "pending"} THEN "quiet" ELSE x
<1>3. Mode(n, out, y)
  BY <1>1, CancelOperationsMode
<1> HIDE DEF n
<1>4. y \in {"quiet", "manned"}
  OBVIOUS
<1> HIDE DEF y
<1>5. Mode([n EXCEPT !.exited = TRUE, !.exit_code = code], out, y)
  BY <1>3, UpdateMode DEF Fields, FenceFields
<1> QED
  BY <1>2, <1>4, <1>5 DEF ExitHelper, Fenced, n

(* The deferred queue keeps the newest intent, behind the fence.                    *)
LEMMA DeferMode ==
  ASSUME NEW m, NEW out, NEW c \in Command
  PROVE  /\ \A x : Mode(m, out, x) => Mode(Defer(m, c), out, x)
         /\ Mode(m, out, "manned") => Mode(Supersede(m, c), out, "manned")
<1>1. ASSUME NEW n, NEW x, Mode(n, out, x)
      PROVE  Mode(Defer(n, c), out, x)
  <2> DEFINE queue == Append(IF IsReset(c) THEN n.deferred ELSE WithoutIntent(n.deferred), c)
  <2>1. queue \in Seq(Command)
    BY <1>1, WithoutIntentType DEF Mode, Base
  <2>2. Defer(n, c) = [n EXCEPT !.deferred = queue]
    BY <1>1 DEF Defer, Mode, Base, IsRecord, Fields
  <2> HIDE DEF queue
  <2> QED
    BY <1>1, <2>1, <2>2, DeferredMode
<1>2. Mode(m, out, "manned") => Mode(CancelOperations(m), out, "manned")
  BY CancelOperationsMode
<1> QED
  BY <1>1, <1>2 DEF Supersede

--------------------------------------------------------------------------------
(* Commands                                                                         *)

(* Who finds nobody at work may cancel what is under way, and somebody at work is   *)
(* the one that the fence names.                                                    *)
LEMMA FencedModes ==
  ASSUME NEW m, NEW out, Fenced(m, out)
  PROVE  /\ ~WorkerActive(m) => Mode(m, out, "quiet") \/ Mode(m, out, "checked")
         /\ ~WorkerActive(m) => Mode(CancelOperations(m), out, "quiet")
         /\ WorkerActive(m) => Mode(m, out, "manned")
         /\ Mode(m, out, "checked") => Awaits(m) /\ ~WorkerActive(m)
<1>1. PICK x \in {"quiet", "manned", "checked"} : Mode(m, out, x)
  BY DEF Fenced
<1>2. x = "manned" <=> WorkerActive(m)
  BY <1>1 DEF Mode, WorkerActive
<1>3. x \in {"quiet", "checked"} => Mode(CancelOperations(m), out, "quiet")
  BY <1>1, CancelOperationsMode
<1>4. Mode(m, out, "checked") => Awaits(m) /\ ~WorkerActive(m)
  BY DEF Mode, WorkerActive
<1> QED
  BY <1>1, <1>2, <1>3, <1>4

(* An assignment to a member no mode speaks of keeps a memory fenced.               *)
LEMMA UpdateFenced ==
  ASSUME NEW m, NEW out, Fenced(m, out), NEW f \in Fields \ FenceFields, NEW v
  PROVE  Fenced([m EXCEPT ![f] = v], out) /\ [m EXCEPT ![f] = v].worker = m.worker
<1>1. PICK x \in {"quiet", "manned", "checked"} : Mode(m, out, x)
  BY DEF Fenced
<1>2. Mode([m EXCEPT ![f] = v], out, x)
  BY <1>1, UpdateMode
<1>3. [m EXCEPT ![f] = v].worker = m.worker
  BY <1>1 DEF Mode, Base, IsRecord, Fields, FenceFields
<1> QED
  BY <1>2, <1>3 DEF Fenced

(* A command that sets a member and clears the settlement, then goes on.            *)
LEMMA LatchedFenced ==
  ASSUME NEW m, NEW out, Fenced(m, out), NEW v
  PROVE  /\ Fenced(ResetSettlement([m EXCEPT !.explicit_recovery = v]), out)
         /\ ResetSettlement([m EXCEPT !.explicit_recovery = v]).worker = m.worker
<1> DEFINE k == [m EXCEPT !.explicit_recovery = v]
<1>1. Fenced(k, out) /\ k.worker = m.worker
  BY UpdateFenced DEF Fields, FenceFields
<1> HIDE DEF k
<1> DEFINE k1 == [k EXCEPT !.settle_requested = FALSE]
<1>2. Fenced(k1, out) /\ k1.worker = k.worker
  BY <1>1, UpdateFenced DEF Fields, FenceFields
<1> HIDE DEF k1
<1> DEFINE k2 == [k1 EXCEPT !.settle_pending = FALSE]
<1>3. Fenced(k2, out) /\ k2.worker = k1.worker
  BY <1>2, UpdateFenced DEF Fields, FenceFields
<1> HIDE DEF k2
<1> DEFINE k3 == [k2 EXCEPT !.settle_repairing = FALSE]
<1>4. Fenced(k3, out) /\ k3.worker = k2.worker
  BY <1>3, UpdateFenced DEF Fields, FenceFields
<1> HIDE DEF k3
<1> DEFINE k4 == [k3 EXCEPT !.next_settle = 0]
<1>5. Fenced(k4, out) /\ k4.worker = k3.worker
  BY <1>4, UpdateFenced DEF Fields, FenceFields
<1>6. ResetSettlement(k) = k4
  BY DEF ResetSettlement, k1, k2, k3
<1> HIDE DEF k4
<1>7. Fenced(ResetSettlement(k), out) /\ ResetSettlement(k).worker = m.worker
  BY <1>1, <1>2, <1>3, <1>4, <1>5, <1>6
<1> QED
  BY <1>7 DEF k

(* A command that waits its turn changes no mode.                                   *)
LEMMA DeferFenced ==
  ASSUME NEW m, NEW out, Fenced(m, out), NEW c \in Command
  PROVE  /\ Fenced(Defer(m, c), out)
         /\ WorkerActive(m) => Fenced(Supersede(m, c), out)
<1>1. PICK x \in {"quiet", "manned", "checked"} : Mode(m, out, x)
  BY DEF Fenced
<1>2. Mode(Defer(m, c), out, x)
  BY <1>1, DeferMode
<1>3. WorkerActive(m) => Mode(Supersede(m, c), out, "manned")
  BY FencedModes, DeferMode
<1> QED
  BY <1>2, <1>3, ModeIsFenced DEF Fenced

(* The start of a session cancels, then dispatches its APPLY.                       *)
LEMMA BeginApplyFenced ==
  ASSUME NEW m, NEW out, Fenced(m, out), ~WorkerActive(m), NEW c \in Command, NEW e
  PROVE  Fenced(BeginApply(m, c, e), out)
<1> DEFINE cancelled == CancelOperations(m)
           base == ResetStabilization(cancelled)
           first == [base EXCEPT
                !.lease_before_apply = m.recovery_armed \/ m.changes_pending,
                !.scheduler = "off", !.restore_unconfirmed = FALSE,
                !.attempt = 1, !.hdr_fallback = FALSE, !.apply_sent = FALSE,
                !.verification_sent = FALSE, !.verified = FALSE]
           second == [first EXCEPT !.request = c.request]
           accepted == [second EXCEPT !.reply_epoch = c.epoch]
           hdr == c.request.hdr # "unset"
           policy == ApplyRecoveryPolicy(accepted)
           session == [policy EXCEPT !.last_apply = "recent",
                         !.checks = IF hdr THEN 3 ELSE 1,
                         !.reapplies = IF hdr THEN 4 ELSE 2,
                         !.snapshot = @ \/ e.capture]
<1>1. Mode(cancelled, out, "quiet")
  BY FencedModes
<1> HIDE DEF cancelled
<1>2. Mode(base, out, "quiet")
  BY <1>1, LaddersMode
<1> HIDE DEF base
<1>3. Mode(first, out, "quiet")
  <2> DEFINE started == [base EXCEPT
                !.lease_before_apply = m.recovery_armed \/ m.changes_pending,
                !.scheduler = "off", !.restore_unconfirmed = FALSE, !.attempt = 1]
  <2>1. Mode(started, out, "quiet")
    BY <1>2, UpdateMode DEF Fields, FenceFields
  <2> HIDE DEF started
  <2>2. Mode([started EXCEPT !.hdr_fallback = FALSE, !.apply_sent = FALSE,
                             !.verification_sent = FALSE, !.verified = FALSE], out, "quiet")
    BY <2>1, UpdateMode DEF Fields, FenceFields
  <2> QED
    BY <2>2 DEF started
<1> HIDE DEF first
<1>4. Mode(second, out, "quiet")
  BY <1>3, RequestMode DEF Command
<1> HIDE DEF second
<1>5. Mode(accepted, out, "quiet")
  BY <1>4, UpdateMode DEF Fields, FenceFields
<1> HIDE DEF accepted
<1>6. Mode(policy, out, "quiet")
  BY <1>5, LeaseMode
<1> HIDE DEF policy, hdr
<1>7. Mode(session, out, "quiet")
  <2> DEFINE counted == [policy EXCEPT !.last_apply = "recent",
                           !.checks = IF hdr THEN 3 ELSE 1, !.reapplies = IF hdr THEN 4 ELSE 2]
  <2>1. Mode(counted, out, "quiet")
    BY <1>6, UpdateMode DEF Fields, FenceFields
  <2> HIDE DEF counted
  <2>2. Mode([counted EXCEPT !.snapshot = @ \/ e.capture], out, "quiet")
    BY <2>1, UpdateMode DEF Fields, FenceFields
  <2> QED
    BY <2>2 DEF counted
<1> HIDE DEF session
<1>8. Mode(SendApplyResult(accepted), out, "quiet")
  BY <1>5, RepliesMode
<1>9. /\ Fenced(DispatchApply(Transition(session, "InProgress")), out)
      /\ Fenced(Transition(SendApplyResult(accepted), "Waiting"), out)
  BY <1>7, <1>8, ApplyAgainMode, TransitionMode, ModeIsFenced
<1>10. BeginApply(m, c, e) = IF ~c.request.configured
         THEN Transition(SendApplyResult(accepted), "Waiting")
         ELSE DispatchApply(Transition(session, "InProgress"))
  BY DEF BeginApply, session, policy, accepted, second, first, base, cancelled, hdr
<1> QED
  BY <1>9, <1>10

(* handle_apply_command()                                                           *)
LEMMA HandleApplyCommandFenced ==
  ASSUME NEW m, NEW out, Fenced(m, out), NEW c \in Command, NEW e
  PROVE  Fenced(HandleApplyCommand(m, c, e), out)
<1> DEFINE latched == ResetSettlement([m EXCEPT !.explicit_recovery = FALSE])
<1>1. Fenced(latched, out) /\ latched.worker = m.worker
  BY LatchedFenced
<1> HIDE DEF latched
<1>2. WorkerActive(latched) <=> WorkerActive(m)
  BY <1>1 DEF WorkerActive
<1>3. Fenced(Defer(latched, c), out) /\ (WorkerActive(m) => Fenced(Supersede(latched, c), out))
  BY <1>1, <1>2, DeferFenced
<1>4. ~WorkerActive(m) => Fenced(BeginApply(latched, c, e), out)
  BY <1>1, <1>2, BeginApplyFenced
<1> QED
  BY <1>3, <1>4 DEF HandleApplyCommand, latched

(* handle_revert_command()                                                          *)
LEMMA HandleRevertCommandFenced ==
  ASSUME NEW m, NEW out, Fenced(m, out), NEW c \in Command
  PROVE  Fenced(HandleRevertCommand(m, c), out)
<1> DEFINE latched == IF c.from_disconnect THEN m
                      ELSE ResetSettlement([m EXCEPT !.explicit_recovery = TRUE])
           cancelled == CancelOperations(latched)
<1>1. Fenced(latched, out) /\ latched.worker = m.worker
  BY LatchedFenced
<1> HIDE DEF latched
<1>2. WorkerActive(latched) <=> WorkerActive(m)
  BY <1>1 DEF WorkerActive
<1>3. Fenced(Defer(latched, c), out) /\ (WorkerActive(m) => Fenced(Supersede(latched, c), out))
  BY <1>1, <1>2, DeferFenced
<1>4. ASSUME ~WorkerActive(m)
      PROVE  /\ Fenced(ReleaseOnDisconnect(latched), out)
             /\ Fenced(ExitHelper(ClearRecoveryState(cancelled), 0), out)
             /\ Fenced(BeginRevert(latched), out)
  <2>1. Mode(cancelled, out, "quiet")
    BY <1>1, <1>2, <1>4, FencedModes
  <2> HIDE DEF cancelled
  <2>2. Mode(ClearRecoveryState(cancelled), out, "quiet")
    BY <2>1, ClearRecoveryStateMode
  <2>3. Mode(Transition(ResetStabilization(ClearRecoveryState(cancelled)), "Waiting"), out, "quiet")
    BY <2>2, LaddersMode, TransitionMode
  <2> DEFINE armed == [cancelled EXCEPT !.recovery_armed = TRUE, !.changes_pending = TRUE,
                                        !.scheduler = "open"]
  <2>4. Mode(armed, out, "quiet")
    BY <2>1, UpdateMode DEF Fields, FenceFields
  <2> HIDE DEF armed
  <2>5. Mode(StartRecovery(ResetStabilization(armed)), out, "manned")
    BY <2>4, LaddersMode, StartRecoveryMode
  <2>6. Fenced(ExitHelper(ClearRecoveryState(cancelled), 0), out)
    BY <2>2, ModeIsFenced, ExitHelperMode
  <2> QED
    BY <2>3, <2>5, <2>6, ModeIsFenced DEF ReleaseOnDisconnect, BeginRevert, armed, cancelled
<1> QED
  BY <1>1, <1>3, <1>4 DEF HandleRevertCommand, latched

(* handle_disarm_command()                                                          *)
LEMMA HandleDisarmCommandFenced ==
  ASSUME NEW m, NEW out, Fenced(m, out), NEW c \in Command
  PROVE  Fenced(HandleDisarmCommand(m, c), out)
<1> DEFINE latched == ResetSettlement([m EXCEPT !.explicit_recovery = FALSE])
           off == [latched EXCEPT !.scheduler = "off"]
<1>1. Fenced(latched, out) /\ latched.worker = m.worker
  BY LatchedFenced
<1> HIDE DEF latched
<1>2. Fenced(off, out) /\ off.worker = m.worker
  BY <1>1, UpdateFenced DEF Fields, FenceFields
<1> HIDE DEF off
<1>3. /\ WorkerActive(latched) <=> WorkerActive(m)
      /\ WorkerActive(off) <=> WorkerActive(m)
  BY <1>1, <1>2 DEF WorkerActive
<1>4. Fenced(Defer(latched, c), out) /\ (WorkerActive(m) => Fenced(Supersede(off, c), out))
  BY <1>1, <1>2, <1>3, DeferFenced
<1>5. ASSUME ~WorkerActive(m) PROVE Fenced(BeginDisarm(latched), out)
  <2> DEFINE cancelled == CancelOperations(latched)
             lease == ClearRecoveryState(cancelled)
             cleared == IF latched.unconfirmed_mutation THEN cancelled
                        ELSE [lease EXCEPT !.task_created = FALSE]
             rested == [cleared EXCEPT !.attempt = 0, !.apply_sent = FALSE,
                          !.verification_sent = FALSE, !.verified = FALSE, !.last_apply = "none"]
  <2>1. Mode(cancelled, out, "quiet")
    BY <1>1, <1>3, <1>5, FencedModes
  <2> HIDE DEF cancelled
  <2>2. Mode(lease, out, "quiet")
    BY <2>1, ClearRecoveryStateMode
  <2> HIDE DEF lease
  <2>3. Mode([lease EXCEPT !.task_created = FALSE], out, "quiet")
    BY <2>2, UpdateMode DEF Fields, FenceFields
  <2>4. Mode(cleared, out, "quiet")
    BY <2>1, <2>3
  <2> HIDE DEF cleared
  <2>5. Mode(rested, out, "quiet")
    BY <2>4, UpdateMode DEF Fields, FenceFields
  <2> HIDE DEF rested
  <2>6. Fenced(Transition(ResetStabilization(rested), "Waiting"), out)
    BY <2>5, LaddersMode, TransitionMode, ModeIsFenced
  <2> QED
    BY <2>6 DEF BeginDisarm, rested, cleared, lease, cancelled
<1> QED
  BY <1>4, <1>5 DEF HandleDisarmCommand, latched, off

(* A reset of the staged state joins the queue beside whatever is under way.        *)
LEMMA BeginStagedStateResetFenced ==
  ASSUME NEW m, NEW out, Fenced(m, out)
  PROVE  Fenced(BeginStagedStateReset(m), out)
  BY BeginStagedStateResetMode DEF Fenced

(* handle_reset_command(), the captures                                             *)
LEMMA HandleResetCommandFenced ==
  ASSUME NEW m, NEW out, Fenced(m, out), NEW c \in Command, NEW epoch, NEW e
  PROVE  /\ Fenced(HandleResetCommand(m, c), out)
         /\ Fenced(HandleCapture(m, epoch, e), out)
<1>1. Fenced(HandleResetCommand(m, c), out)
  BY DeferFenced, BeginStagedStateResetFenced DEF HandleResetCommand
<1>2. Fenced(HandleCapture(m, epoch, e), out)
  BY UpdateFenced DEF HandleCapture, Fields, FenceFields
<1> QED
  BY <1>1, <1>2

(* handle_refresh_rate_command(): at rest, a check is under way only while the      *)
(* ladder says so, and then it is cancelled.                                        *)
LEMMA HandleRefreshRateCommandFenced ==
  ASSUME NEW m, NEW out, Fenced(m, out), m.state \in States, NEW device \in Devices, NEW epoch
  PROVE  Fenced(HandleRefreshRateCommand(m, device, epoch), out)
<1>1. SUFFICES ASSUME ~ApplyInFlight(m), ~RestorePending(m)
               PROVE  Fenced(HandleRefreshRateCommand(m, device, epoch), out)
  BY DEF HandleRefreshRateCommand
<1>2. m.state \in Resting /\ ~WorkerActive(m)
  BY <1>1 DEF ApplyInFlight, RestorePending, States, RestoreStates, Resting
<1> DEFINE k == CancelOperations(m)
           n == RewindStabilization(k)
<1>3. Mode(k, out, "quiet") /\ k.state = m.state
  <2>1. PICK x : Mode(m, out, x)
    BY DEF Fenced
  <2> QED
    BY <1>2, <2>1, FencedModes, CancelOperationsMode
<1> HIDE DEF k
<1>4. Mode(n, out, "quiet") /\ n.state = m.state
  BY <1>3, LaddersMode
<1> HIDE DEF n
<1>5. Fenced(DispatchRefreshRate(n, device), out)
  BY <1>2, <1>4, DispatchMode, ModeIsFenced
<1>6. ASSUME ~m.check_pending PROVE Fenced(DispatchRefreshRate(m, device), out)
  <2>1. Mode(m, out, "quiet")
    BY <1>2, <1>6, FencedModes DEF Awaits, Resting
  <2> QED
    BY <1>2, <2>1, DispatchMode, ModeIsFenced
<1> QED
  BY <1>5, <1>6 DEF HandleRefreshRateCommand, n, k

(* drain_deferred_mutation_commands()                                               *)
LEMMA DrainFenced ==
  ASSUME NEW m, NEW out, Fenced(m, out), NEW e
  PROVE  Fenced(Drain(m, e), out)
<1>1. ASSUME NEW n, Fenced(n, out)
      PROVE  Fenced(DrainOne(n, e), out)
  <2> DEFINE c == Head(n.deferred)
             popped == [n EXCEPT !.deferred = Tail(@)]
  <2>1. SUFFICES ASSUME n.deferred # <<>> PROVE Fenced(DrainOne(n, e), out)
    BY <1>1 DEF DrainOne
  <2>2. PICK x \in {"quiet", "manned", "checked"} : Mode(n, out, x)
    BY <1>1 DEF Fenced
  <2>3. n.deferred \in Seq(Command)
    BY <2>2 DEF Mode, Base
  <2>4. c \in Command /\ Tail(n.deferred) \in Seq(Command)
    BY <2>1, <2>3
  <2>5. popped = [n EXCEPT !.deferred = Tail(n.deferred)]
    BY <2>2 DEF Mode, Base, IsRecord, Fields
  <2>6. c.type \in {"APPLY", "REVERT", "DISARM", "RESET"}
    BY <2>4 DEF Command
  <2> HIDE DEF c, popped
  <2>7. Fenced(popped, out)
    BY <2>2, <2>4, <2>5, DeferredMode DEF Fenced
  <2>8. /\ Fenced(HandleApplyCommand(popped, c, e), out)
        /\ Fenced(HandleRevertCommand(popped, c), out)
        /\ Fenced(HandleDisarmCommand(popped, c), out)
        /\ Fenced(HandleResetCommand(popped, c), out)
    BY <2>4, <2>7, HandleApplyCommandFenced, HandleRevertCommandFenced,
       HandleDisarmCommandFenced, HandleResetCommandFenced
  <2>9. DrainOne(n, e) = IF WorkerActive(n) \/ n.reset_pending \/ n.deferred = <<>> THEN n
          ELSE CASE c.type = "APPLY" -> HandleApplyCommand(popped, c, e)
                 [] c.type = "REVERT" -> HandleRevertCommand(popped, c)
                 [] c.type = "DISARM" -> HandleDisarmCommand(popped, c)
                 [] c.type = "RESET" -> HandleResetCommand(popped, c)
    BY Zenon DEF DrainOne, c, popped
  <2> QED
    BY <1>1, <2>6, <2>8, <2>9
<1> QED
  BY <1>1 DEF Drain

--------------------------------------------------------------------------------
(* Completions.  `out` no longer holds the one that is handled: what was under way  *)
(* has ended, and the handler starts from a vacant or a quiet memory.               *)

(* A superseded APPLY, one that landed,                                             *)
LEMMA ApplyEndsFenced ==
  ASSUME NEW m, NEW out, Mode(m, out, "quiet"), NEW c, NEW e
  PROVE  Fenced(StaleApply(m, c, e), out) /\ Fenced(AppliedOk(m, e), out)
<1> DEFINE kept == RetainAfterMutation(m, c, e)
           repaired == [m EXCEPT !.settle_repairing = FALSE]
           n0 == NextSettle(repaired)
           n1 == [n0 EXCEPT !.verified = TRUE]
           n2 == ActivateRecoveryLease(n1)
           told == SendApplyResult(m)
           checked == Transition(told, "Verification")
<1>1. Mode(kept, out, "quiet")
  BY LeaseMode
<1> HIDE DEF kept
<1>2. Mode([kept EXCEPT !.unconfirmed_mutation = TRUE], out, "quiet")
  BY <1>1, UpdateMode DEF Fields, FenceFields
<1>3. Mode([m EXCEPT !.task_created = @ \/ c.durable], out, "quiet")
  BY UpdateMode DEF Fields, FenceFields
<1>4. Fenced(StaleApply(m, c, e), out)
  BY <1>2, <1>3, ResetUncommittedStagedStateMode, ModeIsFenced, DrainFenced DEF StaleApply, kept
<1>5. Mode(repaired, out, "quiet")
  BY UpdateMode DEF Fields, FenceFields
<1> HIDE DEF repaired
<1>6. Fenced(n0, out) /\ (~CanSettle(repaired) => Mode(n0, out, "quiet"))
  BY <1>5, NextSettleMode
<1> HIDE DEF n0
<1>7. ASSUME ~CanSettle(repaired)
      PROVE  Fenced(Drain(EnterSteadyState([n2 EXCEPT !.unconfirmed_mutation = FALSE]), e), out)
  <2>1. Mode(n1, out, "quiet")
    BY <1>6, <1>7, UpdateMode DEF Fields, FenceFields
  <2> HIDE DEF n1
  <2>2. Mode(n2, out, "quiet")
    BY <2>1, LeaseMode
  <2> HIDE DEF n2
  <2>3. Mode([n2 EXCEPT !.unconfirmed_mutation = FALSE], out, "quiet")
    BY <2>2, UpdateMode DEF Fields, FenceFields
  <2> QED
    BY <2>3, EnterSteadyStateMode, ModeIsFenced, DrainFenced
<1>8. Fenced(Drain(DispatchVerification(checked, "Initial"), e), out)
  <2>1. Mode(told, out, "quiet")
    BY RepliesMode
  <2> HIDE DEF told
  <2>2. Mode(checked, out, "quiet") /\ checked.state = "Verification"
    BY <2>1, TransitionMode
  <2> HIDE DEF checked
  <2>3. Mode(DispatchVerification(checked, "Initial"), out, "checked")
    BY <2>2, CheckMode DEF Awaits, Purposes
  <2> QED
    BY <2>3, ModeIsFenced, DrainFenced
<1>9. Fenced(AppliedOk(m, e), out)
  BY <1>6, <1>7, <1>8 DEF AppliedOk, n0, n1, n2, repaired, checked, told
<1> QED
  BY <1>4, <1>9

(* one that failed for good, one that is retried,                                   *)
LEMMA RetryApplyFenced ==
  ASSUME NEW m, NEW out, Mode(m, out, "quiet"), NEW c, NEW e
  PROVE  Fenced(RetryApply(m, c, e), out)
<1>1. Fenced(ApplyFailed(m, c, e), out)
  <2> DEFINE told == SendVerificationResult(SendApplyResult(m), FALSE)
             clean == IF c.changed THEN told ELSE ResetUncommittedStagedState(told)
  <2>1. Mode(told, out, "quiet")
    BY RepliesMode
  <2> HIDE DEF told
  <2>2. Mode(clean, out, "quiet")
    BY <2>1, ResetUncommittedStagedStateMode
  <2> HIDE DEF clean
  <2>3. /\ Fenced(Drain(EnterSteadyState(clean), e), out)
        /\ Fenced(Drain(Transition(clean, "Waiting"), e), out)
    BY <2>2, EnterSteadyStateMode, TransitionMode, ModeIsFenced, DrainFenced
  <2> QED
    BY <2>3 DEF ApplyFailed, clean, told
<1>2. Mode([m EXCEPT !.attempt = @ + 1], out, "quiet")
  BY UpdateMode DEF Fields, FenceFields
<1> DEFINE request == [m.request EXCEPT !.hdr = "off"]
           off == [m EXCEPT !.hdr_fallback = TRUE]
           k == [off EXCEPT !.request = request]
           n == [k EXCEPT !.attempt = 1]
<1>3. request \in Request
  BY DEF Mode, Base, Request
<1>4. n = [m EXCEPT !.hdr_fallback = TRUE, !.request.hdr = "off", !.attempt = 1]
  BY DEF Mode, Base, IsRecord, Fields
<1>5. Mode(off, out, "quiet")
  BY UpdateMode DEF Fields, FenceFields
<1> HIDE DEF request, off
<1>6. Mode(k, out, "quiet")
  BY <1>3, <1>5, RequestMode
<1> HIDE DEF k
<1>7. Mode(n, out, "quiet")
  BY <1>6, UpdateMode DEF Fields, FenceFields
<1> HIDE DEF n
<1>8. /\ Fenced(DispatchApply([m EXCEPT !.attempt = @ + 1]), out)
      /\ Fenced(DispatchApply(Transition(n, "InProgress")), out)
  BY <1>2, <1>7, ApplyAgainMode, ModeIsFenced
<1> QED
  BY <1>1, <1>4, <1>8 DEF RetryApply

(* and handle_apply_completed() as a whole.                                         *)
LEMMA HandleApplyCompletedFenced ==
  ASSUME NEW m, NEW out, Mode(m, out, "vacant"), NEW c, Owns(m, "Apply", c.generation), NEW e
  PROVE  Fenced(HandleApplyCompleted(m, c, e), out)
<1> DEFINE n0 == ReleaseFence(m)
           owned == [n0 EXCEPT !.staged_prepared = @ \/ c.staged]
           touched == c.status = "Ok" \/ c.changed
           leased == IF touched THEN ActivateRecoveryLease(owned) ELSE owned
           guarded == [leased EXCEPT !.task_created = @ \/ c.durable]
           tasked == IF touched THEN CreateRestoreTaskIfMissing(guarded, e) ELSE guarded
           settling == [tasked EXCEPT !.settle_repairing = FALSE]
<1>1. Mode(n0, out, "quiet")
  BY ReleaseFenceMode
<1> HIDE DEF n0, touched
<1>2. Mode(owned, out, "quiet")
  BY <1>1, UpdateMode DEF Fields, FenceFields
<1> HIDE DEF owned
<1>3. Mode(leased, out, "quiet")
  BY <1>2, LeaseMode
<1> HIDE DEF leased
<1>4. Mode(guarded, out, "quiet")
  BY <1>3, UpdateMode DEF Fields, FenceFields
<1> HIDE DEF guarded
<1>5. Mode(tasked, out, "quiet")
  BY <1>4, LeaseMode
<1> HIDE DEF tasked
<1>6. Mode(settling, out, "quiet")
  BY <1>5, UpdateMode DEF Fields, FenceFields
<1> HIDE DEF settling
<1>7. Fenced(NextSettle(settling), out)
      /\ (~CanSettle(settling) => Mode(NextSettle(settling), out, "quiet"))
  BY <1>6, NextSettleMode
<1>8. /\ Fenced(StaleApply(owned, c, e), out) /\ Fenced(AppliedOk(tasked, e), out)
      /\ Fenced(RetryApply(tasked, c, e), out)
      /\ ~CanSettle(settling) => Fenced(RetryApply(NextSettle(settling), c, e), out)
  BY <1>2, <1>5, <1>7, ApplyEndsFenced, RetryApplyFenced
<1>9. HandleApplyCompleted(m, c, e) =
        IF IsStale(m, c.generation) THEN StaleApply(owned, c, e)
        ELSE IF c.status = "Ok" THEN AppliedOk(tasked, e)
        ELSE IF ~m.settle_requested THEN RetryApply(tasked, c, e)
        ELSE IF CanSettle(settling) THEN NextSettle(settling)
        ELSE RetryApply(NextSettle(settling), c, e)
  BY DEF HandleApplyCompleted, settling, tasked, guarded, leased, touched, owned, n0
<1> QED
  BY <1>7, <1>8, <1>9

(* A verification of the current generation: the desktop shows what it looked for   *)
(* when it says so, and that is what the session asked for.                         *)
LEMMA HandleVerificationCompletedFenced ==
  ASSUME NEW m, NEW out, Mode(m, out, "quiet"), m.next_reapply \in Nat, m.reapplies \in Nat,
         m.state \in Resting \cup {"Verification"},
         NEW c, c.status = "Ok" => m.request.id \in out.ok
  PROVE  Fenced(HandleVerificationCompleted(m, c), out)
<1>1. ASSUME NEW n, Mode(n, out, "quiet")
      PROVE  /\ Fenced(NextSettle(n), out)
             /\ ~CanSettle(n) => /\ Fenced(EnterSteadyState(NextSettle(n)), out)
                                 /\ Fenced(Transition(NextSettle(n), "Waiting"), out)
  BY <1>1, NextSettleMode, EnterSteadyStateMode, TransitionMode, ModeIsFenced
<1>2. ASSUME NEW n, Mode(n, out, "quiet")
      PROVE  Fenced(YieldToSettlement(n), out)
  BY <1>1, <1>2 DEF YieldToSettlement
<1>3. Fenced(SettlementVerified(m, c), out)
  <2> DEFINE checked == [m EXCEPT !.settle_pending = FALSE]
             leased == ActivateRecoveryLease(checked)
             confirmed == IF m.verified THEN checked
                          ELSE [leased EXCEPT !.verified = TRUE, !.unconfirmed_mutation = FALSE]
  <2>1. Mode(checked, out, "quiet")
    BY UpdateMode DEF Fields, FenceFields
  <2> HIDE DEF checked
  <2>2. Mode(leased, out, "quiet")
    BY <2>1, LeaseMode
  <2> HIDE DEF leased
  <2>3. Mode([leased EXCEPT !.verified = TRUE, !.unconfirmed_mutation = FALSE], out, "quiet")
    BY <2>2, UpdateMode DEF Fields, FenceFields
  <2>4. Mode(confirmed, out, "quiet")
    BY <2>1, <2>3
  <2> HIDE DEF confirmed
  <2>5. /\ Fenced(EnterSteadyState(ResetSettlement(confirmed)), out)
        /\ Fenced(SettlementRepair(checked), out)
        /\ Fenced(Transition(ResetSettlement(checked), "Waiting"), out)
    BY <2>1, <2>4, LeaseMode, EnterSteadyStateMode, RepairMode, TransitionMode, ModeIsFenced
  <2> QED
    BY <2>5 DEF SettlementVerified, confirmed, leased, checked
<1>4. Fenced(StabilizationChecked(m, c), out)
  <2> DEFINE checked == [m EXCEPT !.check_pending = FALSE]
  <2>1. Mode(checked, out, "quiet") /\ checked.state = m.state
    <3>1. checked.state = m.state
      BY DEF Mode, Base, IsRecord, Fields
    <3> QED
      BY <3>1, FreeMode
  <2> HIDE DEF checked
  <2>2. Fenced(ScheduleNextCheck(checked), out)
    BY <2>1, ScheduleNextCheckMode, PendingMode, ModeIsFenced
  <2>3. Fenced(StabilizationRepair(checked), out)
    BY <2>1, RepairMode, ModeIsFenced
  <2> QED
    BY <1>1, <1>2, <2>1, <2>2, <2>3 DEF StabilizationChecked, checked
<1>5. ASSUME c.status = "Ok" PROVE Fenced(InitialVerified(m), out)
  <2> DEFINE verified == [m EXCEPT !.verified = TRUE]
             leased == ActivateRecoveryLease(verified)
             sure == [leased EXCEPT !.unconfirmed_mutation = FALSE]
             opened == SendVerificationResult(sure, TRUE)
             gated == IF m.verification_sent THEN m ELSE opened
  <2>1. Mode(verified, out, "quiet")
    BY UpdateMode DEF Fields, FenceFields
  <2>2. sure.request = m.request
    BY DEF Mode, Base, IsRecord, Fields, ActivateRecoveryLease, ApplyRecoveryPolicy
  <2> HIDE DEF verified
  <2>3. Mode(leased, out, "quiet")
    BY <2>1, LeaseMode
  <2> HIDE DEF leased
  <2>4. Mode(sure, out, "quiet")
    BY <2>3, UpdateMode DEF Fields, FenceFields
  <2> HIDE DEF sure
  <2>5. Mode(gated, out, "quiet")
    BY <1>5, <2>2, <2>4, RepliesMode
  <2> HIDE DEF gated
  <2>6. Fenced(EnterSteadyState(ScheduleNextCheck(gated)), out)
    BY <2>5, ScheduleNextCheckMode, EnterSteadyStateMode, ModeIsFenced
  <2> QED
    BY <1>1, <2>5, <2>6 DEF InitialVerified, gated, opened, sure, leased, verified
<1>6. Fenced(InitialRejected(m), out)
  <2> DEFINE rewound == RewindStabilization(m)
             next == NextReapply(rewound)
  <2>1. Mode(rewound, out, "quiet")
    BY LaddersMode
  <2>2. rewound.next_reapply \in Nat /\ rewound.reapplies \in Nat
    BY DEF Mode, Base, IsRecord, Fields, RewindStabilization
  <2> HIDE DEF rewound
  <2>3. /\ CanReapply(rewound) => Mode(next, out, "manned")
        /\ ~CanReapply(rewound) => Mode(next, out, "quiet")
    BY <2>1, <2>2, NextReapplyMode
  <2> HIDE DEF next
  <2>4. ~CanReapply(rewound) => /\ Fenced(EnterSteadyState(next), out)
          /\ Fenced(Transition(SendVerificationResult(next, FALSE), "Waiting"), out)
    BY <2>3, EnterSteadyStateMode, RepliesMode, TransitionMode, ModeIsFenced
  <2> QED
    BY <2>3, <2>4, ModeIsFenced DEF InitialRejected, next, rewound
<1> QED
  BY <1>2, <1>3, <1>4, <1>5, <1>6, ModeIsFenced DEF HandleVerificationCompleted

(* The reset of the staged state ends beside whatever is under way.                 *)
LEMMA HandleResetCompletedFenced ==
  ASSUME NEW m, NEW out, Fenced(m, out), NEW c, NEW e
  PROVE  Fenced(HandleResetCompleted(m, c, e), out)
<1> DEFINE ok == c.status = "Ok"
           lowered == [m EXCEPT !.reset_pending = FALSE]
           opened == [lowered EXCEPT !.staged_prepared = @ /\ ~ok]
           followed == [opened EXCEPT !.exit_after_reset = @ /\ ~DefersIntent(m)]
           drained == Drain(followed, e)
<1> HIDE DEF ok
<1>1. Fenced(lowered, out)
  BY UpdateFenced DEF Fields, FenceFields
<1> HIDE DEF lowered
<1>2. Fenced(opened, out)
  BY <1>1, UpdateFenced DEF Fields, FenceFields
<1> HIDE DEF opened
<1>3. Fenced(followed, out)
  BY <1>2, UpdateFenced DEF Fields, FenceFields
<1> HIDE DEF followed
<1>4. Fenced(drained, out)
  BY <1>3, DrainFenced
<1> HIDE DEF drained
<1>5. /\ Fenced([opened EXCEPT !.exit_after_reset = FALSE], out)
      /\ Fenced([drained EXCEPT !.exit_after_reset = FALSE], out)
  BY <1>2, <1>4, UpdateFenced DEF Fields, FenceFields
<1> QED
  BY <1>4, <1>5, ExitHelperMode
     DEF HandleResetCompleted, drained, followed, opened, lowered, ok

(* A refresh-rate change ends, and the check it replaced is scheduled again.        *)
LEMMA HandleRefreshRateCompletedFenced ==
  ASSUME NEW m, NEW out, Mode(m, out, "vacant"), NEW c, Owns(m, "RefreshRate", c.generation),
         m.state \in Resting, m.verified \in BOOLEAN, NEW e
  PROVE  Fenced(HandleRefreshRateCompleted(m, c, e), out)
<1> DEFINE freed == ReleaseFence(m)
           cancelled == CancelOperations(freed)
           rewound == RewindStabilization(cancelled)
           rechecked == IF ~RefreshTargetsRequest(m, c.device) THEN freed
                        ELSE IF m.settle_requested THEN ReplaceStabilization(rewound)
                        ELSE ScheduleNextCheck(rewound)
           settled == IF m.settle_requested THEN NextSettle(rechecked) ELSE rechecked
<1>1. Mode(freed, out, "quiet")
  BY ReleaseFenceMode
<1>2. freed.state = m.state /\ freed.verified = m.verified
  BY DEF Mode, Base, IsRecord, Fields, ReleaseFence
<1> HIDE DEF freed
<1>3. Mode(cancelled, out, "quiet") /\ cancelled.state = m.state
  BY <1>1, <1>2, CancelOperationsMode
<1>4. cancelled.verified = m.verified
  BY <1>1, <1>2 DEF Mode, Base, IsRecord, Fields, CancelOperations
<1> HIDE DEF cancelled
<1>5. Mode(rewound, out, "quiet") /\ rewound.state = m.state
  BY <1>3, LaddersMode
<1>6. rewound.verified = m.verified /\ rewound.check_pending = FALSE
  BY <1>3, <1>4 DEF Mode, Base, IsRecord, Fields, RewindStabilization
<1> HIDE DEF rewound
<1>7. Mode(ReplaceStabilization(rewound), out, "quiet")
  <2>1. rewound.verified \in BOOLEAN /\ rewound.check_pending \in BOOLEAN
    BY <1>6
  <2>2. Mode(rewound, out, "quiet") \/
           (Mode(rewound, out, "checked") /\ ~(~rewound.verified /\ rewound.state = "Verification"))
    BY <1>5
  <2> QED
    BY <2>1, <2>2, ReplaceStabilizationMode
<1>8. Fenced(ScheduleNextCheck(rewound), out)
  BY <1>5, ScheduleNextCheckMode, PendingMode, ModeIsFenced
<1>9. Fenced(rechecked, out) /\ (m.settle_requested => Mode(rechecked, out, "quiet"))
  BY <1>1, <1>7, <1>8, ModeIsFenced
<1> HIDE DEF rechecked
<1>10. Fenced(settled, out)
  BY <1>9, NextSettleMode
<1> HIDE DEF settled
<1>11. Fenced(Drain(freed, e), out) /\ Fenced(Drain(settled, e), out)
  BY <1>1, <1>10, ModeIsFenced, DrainFenced
<1> QED
  BY <1>11 DEF HandleRefreshRateCompleted, settled, rechecked, rewound, cancelled, freed

(* A recovery ends: its validation follows under the same fence, or it is retried,  *)
(* or it was superseded.                                                            *)
LEMMA HandleRecoveryCompletedFenced ==
  ASSUME NEW m, NEW out, Mode(m, out, "vacant"), NEW c, Owns(m, "Recovery", c.generation), NEW e
  PROVE  /\ Fenced(HandleRecoveryCompleted(m, c, e), out)
         /\ Fenced(RetryRestore(m, e), out)
         /\ Fenced(Drain(RetainAfterCancelledRecovery(ReleaseFence(m)), e), out)
<1> DEFINE freed == ReleaseFence(m)
           cleared == IF c.cleared = "none" THEN m.recovery_reset ELSE c.cleared
           reset == [m EXCEPT !.recovery_reset = cleared]
           n == Transition(reset, "RecoveryValidation")
<1>1. Mode(freed, out, "quiet")
  BY ReleaseFenceMode
<1> HIDE DEF freed
<1>2. /\ Fenced(Drain(RetainAfterCancelledRecovery(freed), e), out)
      /\ Fenced(Drain(ResetRequestProgress(freed), e), out)
      /\ Fenced(Drain(Transition(freed, "EventLoop"), e), out)
  BY <1>1, LeaseMode, TransitionMode, ModeIsFenced, DrainFenced
<1>3. reset = [m EXCEPT !.recovery_reset = IF c.cleared = "none" THEN @ ELSE c.cleared]
  BY DEF Mode, Base, IsRecord, Fields
<1>4. reset.worker = [kind |-> "Recovery", generation |-> c.generation]
  BY DEF Mode, Base, IsRecord, Fields, Owns
<1> HIDE DEF cleared
<1>5. Mode(reset, out, "vacant")
  BY UpdateMode DEF Fields, FenceFields
<1> HIDE DEF reset
<1>6. Mode(n, out, "vacant")
  BY <1>5, TransitionMode
<1>7. n.worker = [kind |-> "Recovery", generation |-> c.generation]
  BY <1>4, <1>5 DEF Mode, Base, IsRecord, Fields, Transition
<1> HIDE DEF n
<1>8. Fenced(DispatchValidation(n), out)
  BY <1>6, <1>7, DispatchValidationMode, ModeIsFenced
<1> QED
  BY <1>2, <1>3, <1>8 DEF HandleRecoveryCompleted, RetryRestore, n, freed

(* A confirmed restore ends the session, and a newer command may begin the next.    *)
LEMMA RestoreConfirmedFenced ==
  ASSUME NEW m, NEW out, Mode(m, out, "vacant"), NEW e
  PROVE  Fenced(RestoreConfirmed(m, e), out)
<1> DEFINE failed == m.staged_prepared /\ m.recovery_reset = "failed"
           released == ReleaseFence(m)
           freed == ResetRequestProgress(released)
           cleared == [freed EXCEPT
                        !.recovery_armed = FALSE, !.changes_pending = FALSE,
                        !.unconfirmed_mutation = FALSE, !.scheduler = "off", !.os_task = FALSE,
                        !.task_created = FALSE, !.staged_prepared = failed, !.owed = FALSE]
           home == Transition(cleared, "Waiting")
           exits == [home EXCEPT !.exit_after_reset = TRUE]
           reset == IF failed THEN BeginStagedStateReset(exits) ELSE home
           waits == reset.reset_pending \/ DefersReset(reset)
           drained == Drain([reset EXCEPT !.exit_after_reset = waits], e)
<1>1. Mode(released, out, "quiet")
  BY ReleaseFenceMode
<1> HIDE DEF released
<1>2. Mode(freed, out, "quiet")
  BY <1>1, LeaseMode
<1> HIDE DEF failed, freed
<1>3. Mode(cleared, out, "quiet")
  <2> DEFINE disarmed == [freed EXCEPT !.recovery_armed = FALSE, !.changes_pending = FALSE,
                                       !.unconfirmed_mutation = FALSE, !.scheduler = "off"]
  <2>1. Mode(disarmed, out, "quiet")
    BY <1>2, UpdateMode DEF Fields, FenceFields
  <2> HIDE DEF disarmed
  <2>2. Mode([disarmed EXCEPT !.os_task = FALSE, !.task_created = FALSE,
                              !.staged_prepared = failed, !.owed = FALSE], out, "quiet")
    BY <2>1, UpdateMode DEF Fields, FenceFields
  <2> QED
    BY <2>2 DEF disarmed
<1> HIDE DEF cleared
<1>4. Mode(home, out, "quiet")
  BY <1>3, TransitionMode
<1> HIDE DEF home
<1>5. Mode(exits, out, "quiet")
  BY <1>4, UpdateMode DEF Fields, FenceFields
<1> HIDE DEF exits
<1>6. Fenced(reset, out)
  BY <1>4, <1>5, BeginStagedStateResetMode, ModeIsFenced
<1> HIDE DEF reset, waits
<1>7. Fenced([reset EXCEPT !.exit_after_reset = waits], out)
  BY <1>6, UpdateFenced DEF Fields, FenceFields
<1>8. Fenced(drained, out)
  BY <1>7, DrainFenced
<1> HIDE DEF drained
<1>9. Fenced([drained EXCEPT !.exit_after_reset = FALSE], out)
  BY <1>8, UpdateFenced DEF Fields, FenceFields
<1>10. RestoreConfirmed(m, e) \in
        {[drained EXCEPT !.exit_after_reset = FALSE], drained, ExitHelper(drained, 0)}
  BY DEF RestoreConfirmed, drained, waits, reset, exits, home, cleared, failed, freed, released
<1> QED
  BY <1>8, <1>9, <1>10, ExitHelperMode

(* The end of a mutation: the fence names it, so its handler is the owner's.        *)
LEMMA MutationEndsFenced ==
  ASSUME NEW m, NEW out, Mode(m, out, "vacant"), m.verified \in BOOLEAN,
         NEW c \in Completion, c \in Mutating,
         m.worker = [kind |-> FenceKind(c.kind), generation |-> c.generation],
         c.kind = "RefreshRate" => m.state \in Resting, NEW e
  PROVE  Fenced(HandleCompletion(m, c, e), out)
<1>1. c.kind \in {"Apply", "RefreshRate", "Recovery", "Validation"}
  BY DEF Mutating, MutationKinds, WorkerKinds
<1>2. CASE c.kind = "Apply"
  BY <1>2, HandleApplyCompletedFenced DEF HandleCompletion, Owns, FenceKind
<1>3. CASE c.kind = "RefreshRate"
  BY <1>3, HandleRefreshRateCompletedFenced DEF HandleCompletion, Owns, FenceKind
<1>4. CASE c.kind = "Recovery"
  BY <1>4, HandleRecoveryCompletedFenced DEF HandleCompletion, Owns, FenceKind
<1>5. CASE c.kind = "Validation"
  <2>1. Owns(m, "Recovery", c.generation)
    BY <1>5 DEF Owns, FenceKind
  <2>2. Fenced(HandleValidationCompleted(m, c, e), out)
    BY <2>1, HandleRecoveryCompletedFenced, RestoreConfirmedFenced DEF HandleValidationCompleted
  <2> QED
    BY <1>5, <2>2 DEF HandleCompletion
<1> QED
  BY <1>1, <1>2, <1>3, <1>4, <1>5

--------------------------------------------------------------------------------
(* Display events, the timer tick, the loss of the connection                       *)

(* The virtual display came back under another id: the request follows it.          *)
LEMMA RetargetMode ==
  ASSUME NEW m, NEW out, NEW x \in {"quiet", "manned"}, Mode(m, out, x), NEW e, e.device \in Devices
  PROVE  Mode(Retarget(m, e), out, x) /\ Retarget(m, e).request \in Request
<1>1. [m.request EXCEPT !.device = e.device] \in Request
  BY DEF Mode, Base, Request
<1>2. [m EXCEPT !.request.device = e.device] =
        [m EXCEPT !.request = [m.request EXCEPT !.device = e.device]]
  BY DEF Mode, Base, IsRecord, Fields
<1> DEFINE r == [m.request EXCEPT !.device = e.device]
<1> HIDE DEF r
<1>3. Mode([m EXCEPT !.request = r], out, x) /\ [m EXCEPT !.request = r].request = r
  <2>1. Mode([m EXCEPT !.request = r], out, x)
    BY <1>1, RequestMode DEF r
  <2> QED
    BY <2>1 DEF Mode, Base, IsRecord, Fields
<1>4. Mode(m, out, x) /\ m.request \in Request
  BY DEF Mode, Base
<1> QED
  BY <1>1, <1>2, <1>3, <1>4 DEF Retarget, r

(* A repair of the display that waits behind the fence.                             *)
LEMMA RestartAfterMutationFenced ==
  ASSUME NEW m, NEW out, Fenced(m, out), WorkerActive(m), m.reply_epoch \in Nat,
         NEW e, e.device \in Devices
  PROVE  Fenced(RestartAfterMutation(m, e), out)
<1> DEFINE r == Retarget(m, e)
<1>1. Mode(m, out, "manned")
  BY FencedModes
<1>2. Mode(r, out, "manned") /\ r.request \in Request
  BY <1>1, RetargetMode
<1>3. r.reply_epoch = m.reply_epoch
  BY <1>1 DEF Retarget, Mode, Base, IsRecord, Fields
<1> HIDE DEF r
<1>4. RestartCommand(r) \in Command
  BY <1>2, <1>3 DEF RestartCommand, Command
<1>5. Mode(Supersede(r, RestartCommand(r)), out, "manned")
  BY <1>2, <1>4, DeferMode
<1> QED
  BY <1>5, ModeIsFenced DEF RestartAfterMutation, r

(* A display event of the session, and one while a restore waits for its retry.     *)
LEMMA HandleDisplayEventFenced ==
  ASSUME NEW m, NEW out, Fenced(m, out), m.reply_epoch \in Nat, m.check_pending \in BOOLEAN,
         m.state = "EventLoop" => m.worker = NoWorker, NEW e, e.device \in Devices
  PROVE  Fenced(HandleDisplayEvent(m, e), out)
<1> DEFINE cancelled == CancelOperations(m)
<1>1. WorkerActive(m) => Fenced(RestartAfterMutation(m, e), out)
  BY RestartAfterMutationFenced
<1>2. ~WorkerActive(m) => Mode(cancelled, out, "quiet")
  BY FencedModes
<1> HIDE DEF cancelled
<1>3. ASSUME ~WorkerActive(m)
      PROVE  /\ Fenced(DispatchApply(Transition(
                  [RewindStabilization(Retarget(cancelled, e)) EXCEPT !.attempt = 1], "InProgress")), out)
             /\ Fenced(DispatchApply(Transition(
                  Retarget(RewindStabilization([cancelled EXCEPT !.attempt = 1]), e), "InProgress")), out)
  <2> DEFINE moved == Retarget(cancelled, e)
             rewound == RewindStabilization(moved)
             again == [cancelled EXCEPT !.attempt = 1]
             rewound2 == RewindStabilization(again)
  <2>1. Mode(moved, out, "quiet") /\ Mode(again, out, "quiet")
    BY <1>2, <1>3, RetargetMode, UpdateMode DEF Fields, FenceFields
  <2> HIDE DEF moved, again
  <2>2. Mode(rewound, out, "quiet") /\ Mode(rewound2, out, "quiet")
    BY <2>1, LaddersMode
  <2> HIDE DEF rewound, rewound2
  <2>3. Mode([rewound EXCEPT !.attempt = 1], out, "quiet") /\ Mode(Retarget(rewound2, e), out, "quiet")
    BY <2>2, RetargetMode, UpdateMode DEF Fields, FenceFields
  <2>4. /\ Fenced(DispatchApply(Transition([rewound EXCEPT !.attempt = 1], "InProgress")), out)
        /\ Fenced(DispatchApply(Transition(Retarget(rewound2, e), "InProgress")), out)
    BY <2>3, ApplyAgainMode, ModeIsFenced
  <2> QED
    BY <2>4 DEF rewound, rewound2, moved, again
<1>4. ASSUME m.state = "VirtualDisplayMonitoring", ~WorkerActive(m), ~m.check_pending
      PROVE  Fenced(DispatchVerification([m EXCEPT !.check_pending = TRUE], "Stabilization"), out)
  <2> DEFINE n == [m EXCEPT !.check_pending = TRUE]
  <2>1. ~Awaits(m)
    BY <1>4 DEF Awaits
  <2>2. Mode(m, out, "quiet")
    BY <1>4, <2>1, FencedModes
  <2>3. Mode(n, out, "quiet")
    BY <2>2, FreeMode
  <2>4. n.check_pending = TRUE /\ n.state = m.state
    BY <2>2 DEF Mode, Base, IsRecord, Fields
  <2> HIDE DEF n
  <2>5. Awaits(n)
    BY <1>4, <2>4 DEF Awaits, Resting
  <2>6. Mode(DispatchVerification(n, "Stabilization"), out, "checked")
    BY <2>3, <2>5, CheckMode DEF Purposes
  <2> QED
    BY <2>6, ModeIsFenced DEF n
<1>5. ASSUME m.state = "EventLoop" PROVE Fenced(StartRecovery([m EXCEPT !.scheduler = "open"]), out)
  <2>1. ~WorkerActive(m) /\ ~Awaits(m)
    BY <1>5 DEF WorkerActive, Awaits, Resting
  <2>2. Mode(m, out, "quiet")
    BY <2>1, FencedModes
  <2>3. Mode([m EXCEPT !.scheduler = "open"], out, "quiet")
    BY <2>2, UpdateMode DEF Fields, FenceFields
  <2> QED
    BY <2>3, StartRecoveryMode, ModeIsFenced
<1>6. m.state = "VirtualDisplayMonitoring" => Fenced(MonitoredEvent(m, e), out)
  BY <1>1, <1>3, <1>4 DEF MonitoredEvent, cancelled
<1>7. Fenced(ApplyingEvent(m, e), out)
  BY <1>1, <1>3 DEF ApplyingEvent, cancelled
<1> QED
  BY <1>5, <1>6, <1>7 DEF HandleDisplayEvent

(* The retry of a restore is due, or its window has closed.                         *)
LEMMA TickFenced ==
  ASSUME NEW m, NEW out, Fenced(m, out), m.state = "EventLoop", m.worker = NoWorker
  PROVE  Fenced(TickAttempt(m), out) /\ Fenced(TickExpire(m), out)
<1>1. ~WorkerActive(m) /\ ~Awaits(m)
  BY DEF WorkerActive, Awaits, Resting
<1>2. Mode(m, out, "quiet")
  BY <1>1, FencedModes
<1>3. Fenced(StartRecovery(m), out)
  BY <1>2, StartRecoveryMode, ModeIsFenced
<1>4. Fenced([m EXCEPT !.scheduler = "expired"], out)
  BY UpdateFenced DEF Fields, FenceFields
<1> QED
  BY <1>3, <1>4 DEF TickAttempt, TickExpire

(* begin_transient_disconnect_settlement()                                          *)
LEMMA BeginSettlementFenced ==
  ASSUME NEW m, NEW out, Fenced(m, out), m.verified \in BOOLEAN, m.check_pending \in BOOLEAN
  PROVE  Fenced(BeginSettlement(m), out)
<1> DEFINE replaced == IF WorkerActive(m) THEN m ELSE ReplaceStabilization(m)
           asked == [replaced EXCEPT !.settle_requested = TRUE]
<1>1. CASE WorkerActive(m)
  <2>1. Fenced([m EXCEPT !.settle_requested = TRUE], out)
    BY UpdateFenced DEF Fields, FenceFields
  <2> QED
    BY <1>1, <2>1 DEF BeginSettlement
<1>2. CASE ~WorkerActive(m) /\ ~m.verified /\ m.state = "Verification"
  <2>1. Mode(m, out, "quiet") \/ Mode(m, out, "checked")
    BY <1>2, FencedModes
  <2>2. ASSUME m.check_pending PROVE Mode(ReplaceStabilization(m), out, "quiet")
    <3>1. Mode(CancelOperations(m), out, "quiet")
      BY <1>2, FencedModes
    <3> QED
      BY <2>2, <3>1, LaddersMode DEF ReplaceStabilization
  <2>3. ASSUME ~m.check_pending, NEW x, Mode(m, out, x)
        PROVE  Mode(ReplaceStabilization(m), out, x)
    <3>1. m = [m EXCEPT !.check_pending = FALSE]
      BY <2>3 DEF Mode, Base, IsRecord, Fields
    <3>2. Mode([m EXCEPT !.next_check = 0, !.checks = 0, !.next_reapply = 0, !.reapplies = 0], out, x)
      BY <2>3, UpdateMode DEF Fields, FenceFields
    <3>3. ResetStabilization(m) =
            [m EXCEPT !.next_check = 0, !.checks = 0, !.next_reapply = 0, !.reapplies = 0]
      BY <3>1 DEF ResetStabilization
    <3> QED
      BY <1>2, <2>3, <3>2, <3>3 DEF ReplaceStabilization
  <2>4. Fenced(ReplaceStabilization(m), out)
    BY <2>1, <2>2, <2>3, ModeIsFenced
  <2>5. replaced = ReplaceStabilization(m)
    BY <1>2
  <2> HIDE DEF replaced
  <2>6. Fenced(asked, out)
    BY <2>4, <2>5, UpdateFenced DEF Fields, FenceFields
  <2> HIDE DEF asked
  <2> QED
    BY <1>2, <2>6 DEF BeginSettlement, asked, replaced
<1>3. CASE ~WorkerActive(m) /\ ~(~m.verified /\ m.state = "Verification")
  <2>1. Mode(m, out, "quiet") \/ Mode(m, out, "checked")
    BY <1>3, FencedModes
  <2>2. Mode(ReplaceStabilization(m), out, "quiet")
    BY <1>3, <2>1, ReplaceStabilizationMode
  <2>3. replaced = ReplaceStabilization(m)
    BY <1>3
  <2> HIDE DEF replaced
  <2>4. Mode(asked, out, "quiet")
    BY <2>2, <2>3, UpdateMode DEF Fields, FenceFields
  <2> HIDE DEF asked
  <2>5. Fenced(NextSettle(asked), out)
    BY <2>4, NextSettleMode
  <2> QED
    BY <1>3, <2>5 DEF BeginSettlement, asked, replaced
<1> QED
  BY <1>1, <1>2, <1>3

(* The main loop notices that the connection is gone.                               *)
LEMMA HandleDisconnectFenced ==
  ASSUME NEW m, NEW out, Fenced(m, out), m.verified \in BOOLEAN, m.check_pending \in BOOLEAN,
         NEW epoch
  PROVE  Fenced(HandleDisconnect(m, epoch), out)
<1> DEFINE down == [m EXCEPT !.link = "down"]
           served == [down EXCEPT !.restore_origin = epoch]
<1>1. Fenced(down, out)
  BY UpdateFenced DEF Fields, FenceFields
<1>2. down.verified = m.verified /\ down.check_pending = m.check_pending
  BY DEF Fenced, Mode, Base, IsRecord, Fields
<1> HIDE DEF down
<1>3. Fenced(served, out)
  BY <1>1, UpdateFenced DEF Fields, FenceFields
<1> HIDE DEF served
<1>4. Fenced(BeginSettlement(down), out)
  BY <1>1, <1>2, BeginSettlementFenced
<1>5. Fenced(HandleRevertCommand(served, DisconnectRevert), out)
  BY <1>3, DisconnectRevertType, HandleRevertCommandFenced
<1> QED
  BY <1>1, <1>4, <1>5 DEF HandleDisconnect, served, down

--------------------------------------------------------------------------------
(* The lanes of the process                                                         *)

Lanes(posted, run, shown, ok) ==
    [posted |-> posted, running |-> IF run = Idle THEN <<>> ELSE <<run.task>>,
     desk |-> shown, ok |-> ok]
Held == {id \in RequestIds : h.verdict[id] = "ok"}

(* What a mode counts: whoever moves a task from lane to lane keeps these.          *)
Followed(m) ==
    {Mutating, Unborn(m.generation), Checking(m.generation),
     Astray(m.generation, m.request.id), Unfenced(m.worker)}

LEMMA MovedMode ==
  ASSUME NEW m, NEW n, NEW out, NEW new, NEW x, Mode(m, out, x), IsRecord(n),
         \A g \in FenceFields \ {"tasks", "timers"} : n[g] = m[g],
         n.tasks \in Seq(Task), n.timers \in Seq(Task),
         new.posted \in Seq(Completion), new.running \in Seq(Task),
         \A items \in Followed(m) : /\ Nowhere(m, out, items) => Nowhere(n, new, items)
                                    /\ Once(m, out, items) => Once(n, new, items),
         NoneIn(n.timers, Mutating), NoneIn(new.posted, Misleading(m.generation, new.desk)),
         \A id \in RequestIds : m.verdict[id] = "ok" => id \in new.ok
  PROVE  Mode(n, new, x)
<1>1. /\ n.state = m.state /\ n.worker = m.worker /\ n.deferred = m.deferred
      /\ n.request = m.request /\ n.check_pending = m.check_pending
      /\ n.generation = m.generation /\ n.verdict = m.verdict
  BY DEF FenceFields
<1>2. /\ Nowhere(m, out, Mutating) => Nowhere(n, new, Mutating)
      /\ Once(m, out, Mutating) => Once(n, new, Mutating)
      /\ Nowhere(m, out, Unborn(m.generation)) => Nowhere(n, new, Unborn(m.generation))
      /\ Nowhere(m, out, Checking(m.generation)) => Nowhere(n, new, Checking(m.generation))
      /\ Once(m, out, Checking(m.generation)) => Once(n, new, Checking(m.generation))
      /\ Nowhere(m, out, Astray(m.generation, m.request.id)) =>
           Nowhere(n, new, Astray(m.generation, m.request.id))
      /\ Nowhere(m, out, Unfenced(m.worker)) => Nowhere(n, new, Unfenced(m.worker))
  BY DEF Followed
<1>3. Base(n, new)
  BY <1>1, <1>2 DEF Mode, Base
<1> QED
  BY <1>1, <1>2, <1>3 DEF Mode, Awaits

(* The gates that may be open are another set: those that are.                      *)
LEMMA OpenGates ==
  ASSUME NEW m, NEW p, NEW r, NEW shown, NEW ok, NEW gates, NEW x,
         Mode(m, Lanes(p, r, shown, ok), x),
         \A id \in RequestIds : m.verdict[id] = "ok" => id \in gates
  PROVE  Mode(m, Lanes(p, r, shown, gates), x)
<1>1. \A items : /\ Nowhere(m, Lanes(p, r, shown, ok), items) => Nowhere(m, Lanes(p, r, shown, gates), items)
                 /\ Once(m, Lanes(p, r, shown, ok), items) => Once(m, Lanes(p, r, shown, gates), items)
  BY DEF Lanes, Nowhere, Once
<1>2. /\ Lanes(p, r, shown, gates).posted = Lanes(p, r, shown, ok).posted
      /\ Lanes(p, r, shown, gates).running = Lanes(p, r, shown, ok).running
      /\ Lanes(p, r, shown, gates).desk = Lanes(p, r, shown, ok).desk
      /\ Lanes(p, r, shown, gates).ok = gates
  BY DEF Lanes
<1> QED
  BY <1>1, <1>2, MovedMode DEF Mode, Base

(* The main loop takes a completion: the one the fence names, the check that was    *)
(* awaited, or one that nothing depends on.                                         *)
LEMMA ReceiveMode ==
  ASSUME NEW m, NEW p \in Seq(Completion), p # <<>>, NEW r, NEW shown, NEW ok,
         NEW x \in {"quiet", "manned", "checked"}, Mode(m, Lanes(p, r, shown, ok), x)
  PROVE  /\ Head(p) \in Mutating =>
              /\ Mode(m, Lanes(Tail(p), r, shown, ok), "vacant")
              /\ m.worker = [kind |-> FenceKind(Head(p).kind), generation |-> Head(p).generation]
              /\ Head(p).kind = "RefreshRate" => m.state \in Resting
         /\ Head(p) \in Checking(m.generation) =>
              /\ Mode(m, Lanes(Tail(p), r, shown, ok), "quiet")
              /\ m.state \in Resting \cup {"Verification"}
              /\ Head(p).request = m.request.id
              /\ Head(p).status = "Ok" => Head(p).request = shown
         /\ Head(p) \notin Mutating /\ Head(p) \notin Checking(m.generation) =>
              Mode(m, Lanes(Tail(p), r, shown, ok), x)
<1> DEFINE out == Lanes(p, r, shown, ok)
           new == Lanes(Tail(p), r, shown, ok)
           c == Head(p)
<1>1. /\ out.posted = p /\ new.posted = Tail(p) /\ new.running = out.running
      /\ new.desk = shown /\ out.desk = shown /\ new.ok = ok /\ out.ok = ok
  BY DEF Lanes
<1>2. c \in Completion /\ Tail(p) \in Seq(Completion)
  BY TailItems
<1>3. \A items : /\ NoneIn(p, items) => NoneIn(Tail(p), items) /\ c \notin items
                 /\ OneIn(p, items) => \/ NoneIn(Tail(p), items) /\ c \in items
                                       \/ OneIn(Tail(p), items) /\ c \notin items
  BY TailItems
<1> HIDE DEF out, new, c
<1>4. \A items : /\ Nowhere(m, out, items) => Nowhere(m, new, items) /\ c \notin items
                 /\ Once(m, out, items) /\ c \in items => Nowhere(m, new, items)
                 /\ Once(m, out, items) /\ c \notin items => Once(m, new, items)
  BY <1>1, <1>3 DEF Nowhere, Once, OneIn, NoneIn
<1>5. Mode(m, out, x)
  BY DEF out
<1>6. Base(m, new)
  BY <1>1, <1>2, <1>3, <1>4, <1>5 DEF Mode, Base
<1>7. ASSUME c \in Mutating
      PROVE  /\ Mode(m, new, "vacant")
             /\ m.worker = [kind |-> FenceKind(c.kind), generation |-> c.generation]
             /\ c.kind = "RefreshRate" => m.state \in Resting
  <2>1. x = "manned"
    BY <1>4, <1>5, <1>7 DEF Mode
  <2>2. c \notin Unfenced(m.worker) /\ Nowhere(m, new, Mutating)
        /\ Nowhere(m, new, Checking(m.generation))
    BY <1>4, <1>5, <1>7, <2>1 DEF Mode
  <2>3. m.worker = [kind |-> FenceKind(c.kind), generation |-> c.generation]
    BY <1>7, <2>2 DEF Unfenced
  <2>4. c.kind = "RefreshRate" => m.worker.kind = "RefreshRate"
    BY <2>3 DEF FenceKind
  <2>5. m.worker.kind = "RefreshRate" => m.state \in Resting
    BY <1>5, <2>1 DEF Mode
  <2> QED
    BY <1>6, <2>2, <2>3, <2>4, <2>5 DEF Mode
<1>8. ASSUME c \in Checking(m.generation)
      PROVE  /\ Mode(m, new, "quiet")
             /\ m.state \in Resting \cup {"Verification"}
             /\ c.request = m.request.id
             /\ c.status = "Ok" => c.request = shown
  <2>1. x = "checked"
    BY <1>4, <1>5, <1>8 DEF Mode
  <2>2. /\ Nowhere(m, new, Mutating) /\ Nowhere(m, new, Checking(m.generation))
        /\ c \notin Astray(m.generation, m.request.id) /\ m.worker = NoWorker /\ Awaits(m)
    BY <1>4, <1>5, <1>8, <2>1 DEF Mode
  <2>3. c \notin Misleading(m.generation, shown)
    BY <1>1, <1>3, <1>5 DEF Mode, Base
  <2> QED
    BY <1>2, <1>6, <1>8, <2>2, <2>3 DEF Mode, Astray, Misleading, Checking, Awaits
<1>9. ASSUME c \notin Mutating, c \notin Checking(m.generation)
      PROVE  Mode(m, new, x)
  BY <1>4, <1>5, <1>6, <1>9 DEF Mode
<1> QED
  BY <1>7, <1>8, <1>9 DEF new, c

(* The worker thread takes the task at the head of its queue.                       *)
LEMMA TakenMode ==
  ASSUME NEW m, NEW p, NEW run, NEW shown, NEW ok, NEW x, Mode(m, Lanes(p, Idle, shown, ok), x),
         m.tasks # <<>>, run # Idle, run.task = Head(m.tasks)
  PROVE  Mode([m EXCEPT !.tasks = Tail(@)], Lanes(p, run, shown, ok), x)
<1> DEFINE n == [m EXCEPT !.tasks = Tail(@)]
           out == Lanes(p, Idle, shown, ok)
           new == Lanes(p, run, shown, ok)
<1>1. /\ out.posted = p /\ new.posted = p /\ out.running = <<>> /\ new.running = <<run.task>>
      /\ out.desk = shown /\ new.desk = shown /\ out.ok = ok /\ new.ok = ok
  BY DEF Lanes
<1>2. IsRecord(n)
  BY UpdateIsRecord DEF Mode, Base, Fields
<1>3. /\ n.tasks = Tail(m.tasks) /\ n.timers = m.timers
      /\ \A g \in FenceFields \ {"tasks", "timers"} : n[g] = m[g]
  BY DEF Mode, Base, IsRecord, Fields, FenceFields
<1>4. m.tasks \in Seq(Task)
  BY DEF Mode, Base
<1>5. run.task \in Task /\ Tail(m.tasks) \in Seq(Task)
  BY <1>4, TailItems
<1>6. <<run.task>> \in Seq(Task)
  BY <1>5
<1>7. Mode(m, out, x)
  BY DEF out
<1> HIDE DEF n, out, new
<1>8. \A items : /\ NoneIn(m.tasks, items) => NoneIn(n.tasks, items) /\ run.task \notin items
                 /\ OneIn(m.tasks, items) => \/ NoneIn(n.tasks, items) /\ run.task \in items
                                             \/ OneIn(n.tasks, items) /\ run.task \notin items
  BY <1>3, <1>4, TailItems
<1>9. \A items : /\ NoneIn(out.running, items) /\ ~OneIn(out.running, items)
                 /\ NoneIn(new.running, items) <=> run.task \notin items
                 /\ OneIn(new.running, items) <=> run.task \in items
  BY <1>1, ShortItems
<1>10. \A items : /\ Nowhere(m, out, items) => Nowhere(n, new, items)
                  /\ Once(m, out, items) => Once(n, new, items)
  BY <1>1, <1>3, <1>8, <1>9 DEF Nowhere, Once
<1>11. /\ n.tasks \in Seq(Task) /\ n.timers \in Seq(Task)
       /\ new.posted \in Seq(Completion) /\ new.running \in Seq(Task)
       /\ NoneIn(n.timers, Mutating) /\ NoneIn(new.posted, Misleading(m.generation, new.desk))
       /\ \A id \in RequestIds : m.verdict[id] = "ok" => id \in new.ok
  BY <1>1, <1>3, <1>5, <1>6, <1>7 DEF Mode, Base
<1>12. Mode(n, new, x)
  BY <1>2, <1>3, <1>7, <1>10, <1>11, MovedMode
<1> QED
  BY <1>12 DEF n, new

(* The timer thread queues a verification whose delay has ended, or drops one of    *)
(* the past.                                                                        *)
LEMMA TimerMode ==
  ASSUME NEW m, NEW out, NEW x, Mode(m, out, x), m.timers # <<>>
  PROVE  /\ Mode(Enqueue([m EXCEPT !.timers = Tail(@)], Head(m.timers)), out, x)
         /\ IsStale(m, Head(m.timers).generation) => Mode([m EXCEPT !.timers = Tail(@)], out, x)
<1> DEFINE t == Head(m.timers)
           k == [m EXCEPT !.timers = Tail(@)]
           n == Enqueue(k, t)
<1>1. m.timers \in Seq(Task) /\ m.tasks \in Seq(Task)
  BY DEF Mode, Base
<1>2. t \in Task /\ Tail(m.timers) \in Seq(Task)
  BY <1>1, TailItems
<1>3. /\ k.tasks = m.tasks /\ k.timers = Tail(m.timers)
      /\ \A g \in FenceFields \ {"tasks", "timers"} : k[g] = m[g]
  BY DEF Mode, Base, IsRecord, Fields, FenceFields
<1>4. /\ n.tasks = Append(m.tasks, t) /\ n.timers = Tail(m.timers)
      /\ \A g \in FenceFields \ {"tasks", "timers"} : n[g] = m[g]
  BY DEF Mode, Base, IsRecord, Fields, FenceFields, Enqueue
<1>5. IsRecord(k) /\ IsRecord(n)
  BY UpdateIsRecord DEF Mode, Base, Fields, Enqueue
<1>6. Append(m.tasks, t) \in Seq(Task)
  BY <1>1, <1>2, AppendProperties
<1>7. \A items : /\ NoneIn(m.timers, items) => NoneIn(Tail(m.timers), items) /\ t \notin items
                 /\ OneIn(m.timers, items) => \/ NoneIn(Tail(m.timers), items) /\ t \in items
                                              \/ OneIn(Tail(m.timers), items) /\ t \notin items
  BY <1>1, TailItems
<1>8. \A items :
         /\ NoneIn(m.tasks, items) /\ t \notin items => NoneIn(Append(m.tasks, t), items)
         /\ OneIn(m.tasks, items) /\ t \notin items => OneIn(Append(m.tasks, t), items)
         /\ NoneIn(m.tasks, items) /\ t \in items => OneIn(Append(m.tasks, t), items)
  BY <1>1, <1>2, AppendItems
<1>9. t \notin Mutating /\ t \notin Unborn(m.generation)
  BY <1>7 DEF Mode, Base, Nowhere
<1> HIDE DEF n, k, t
<1>10. \A items : /\ Nowhere(m, out, items) => Nowhere(n, out, items) /\ Nowhere(k, out, items)
                  /\ Once(m, out, items) => Once(n, out, items)
                  /\ Once(m, out, items) /\ t \notin items => Once(k, out, items)
  BY <1>3, <1>4, <1>7, <1>8 DEF Nowhere, Once
<1>11. NoneIn(k.timers, Mutating) /\ NoneIn(n.timers, Mutating)
  BY <1>3, <1>4, <1>7 DEF Mode, Base
<1>12. /\ out.posted \in Seq(Completion) /\ out.running \in Seq(Task)
       /\ NoneIn(out.posted, Misleading(m.generation, out.desk))
       /\ \A id \in RequestIds : m.verdict[id] = "ok" => id \in out.ok
       /\ n.tasks \in Seq(Task) /\ n.timers \in Seq(Task)
       /\ k.tasks \in Seq(Task) /\ k.timers \in Seq(Task)
  BY <1>1, <1>2, <1>3, <1>4, <1>6 DEF Mode, Base
<1>13. Mode(n, out, x)
  BY <1>4, <1>5, <1>10, <1>11, <1>12, MovedMode
<1>14. ASSUME IsStale(m, t.generation) PROVE Mode(k, out, x)
  <2>1. /\ t \notin Checking(m.generation) /\ t \notin Astray(m.generation, m.request.id)
        /\ t \notin Unfenced(m.worker)
    BY <1>9, <1>14 DEF IsStale, Checking, Astray, Unfenced
  <2>2. \A items \in Followed(m) : t \notin items
    BY <1>9, <2>1 DEF Followed
  <2> QED
    BY <1>3, <1>5, <1>10, <1>11, <1>12, <2>2, MovedMode
<1> QED
  BY <1>13, <1>14 DEF n, k, t

(* The worker thread posts what the task came to; a success of a check is true, and *)
(* only a mutation changes the desktop.                                             *)
LEMMA PostedMode ==
  ASSUME NEW m, NEW p \in Seq(Completion), NEW run, run # Idle, NEW shown, NEW now, NEW ok, NEW x,
         Mode(m, Lanes(p, run, shown, ok), x), NEW c \in Completion, run.task \in Task,
         c.kind = run.task.kind, c.generation = run.task.generation, c.request = run.task.request,
         run.task.kind \in MutationKinds \/ now = shown,
         c.kind = "Verification" /\ c.generation = m.generation /\ c.status = "Ok" => c.request = shown
  PROVE  Mode(m, Lanes(Append(p, c), Idle, now, ok), x)
<1> DEFINE t == run.task
           out == Lanes(p, run, shown, ok)
           new == Lanes(Append(p, c), Idle, now, ok)
<1>1. /\ out.posted = p /\ new.posted = Append(p, c) /\ out.running = <<t>> /\ new.running = <<>>
      /\ out.desk = shown /\ new.desk = now /\ out.ok = ok /\ new.ok = ok
  BY DEF Lanes
<1>2. Append(p, c) \in Seq(Completion) /\ <<>> \in Seq(Task)
  BY AppendProperties
<1>3. \A items :
         /\ NoneIn(p, items) /\ c \notin items => NoneIn(Append(p, c), items)
         /\ OneIn(p, items) /\ c \notin items => OneIn(Append(p, c), items)
         /\ NoneIn(p, items) /\ c \in items => OneIn(Append(p, c), items)
  BY AppendItems
<1>4. \A items \in Followed(m) : c \in items <=> t \in items
  BY DEF Followed, Mutating, Unborn, Checking, Astray, Unfenced, Item
<1>5. Mode(m, out, x)
  BY DEF out
<1> HIDE DEF t, out, new
<1>6. \A items : /\ NoneIn(new.running, items) /\ ~OneIn(new.running, items)
                 /\ NoneIn(out.running, items) <=> t \notin items
                 /\ OneIn(out.running, items) <=> t \in items
  BY <1>1, ShortItems
<1>7. \A items \in Followed(m) : /\ Nowhere(m, out, items) => Nowhere(m, new, items)
                                 /\ Once(m, out, items) => Once(m, new, items)
  BY <1>1, <1>3, <1>4, <1>6 DEF Nowhere, Once
<1>8. NoneIn(new.posted, Misleading(m.generation, now))
  <2>1. CASE now = shown
    <3>1. NoneIn(p, Misleading(m.generation, shown))
      BY <1>1, <1>5 DEF Mode, Base
    <3>2. c \notin Misleading(m.generation, shown)
      BY DEF Misleading
    <3> QED
      BY <1>1, <1>3, <2>1, <3>1, <3>2
  <2>2. CASE run.task.kind \in MutationKinds
    <3>1. t \in Mutating
      BY <2>2 DEF Mutating, Item, t
    <3>2. x = "manned"
      BY <1>5, <1>6, <3>1 DEF Mode, Nowhere
    <3>3. NoneIn(p, Checking(m.generation))
      BY <1>1, <1>5, <3>2 DEF Mode, Nowhere
    <3>4. c \notin Checking(m.generation)
      BY <2>2 DEF Checking, MutationKinds, WorkerKinds
    <3>5. NoneIn(Append(p, c), Checking(m.generation))
      BY <1>3, <3>3, <3>4
    <3>6. Misleading(m.generation, now) \subseteq Checking(m.generation)
      BY DEF Misleading, Checking, Item
    <3> QED
      BY <1>1, <3>5, <3>6 DEF NoneIn
  <2> QED
    BY <2>1, <2>2
<1>9. /\ IsRecord(m) /\ m.tasks \in Seq(Task) /\ m.timers \in Seq(Task)
      /\ NoneIn(m.timers, Mutating)
      /\ \A id \in RequestIds : m.verdict[id] = "ok" => id \in new.ok
  BY <1>1, <1>5 DEF Mode, Base
<1>10. Mode(m, new, x)
  BY <1>1, <1>2, <1>5, <1>7, <1>8, <1>9, MovedMode
<1> QED
  BY <1>10 DEF new

--------------------------------------------------------------------------------
(* The process                                                                      *)

(* A StateMachine starts with nothing under way.                                    *)
LEMMA FreshHelperFenced ==
  ASSUME NEW snapshot, NEW osTask, NEW owed, NEW verdict, NEW shown, NEW ok,
         \A id \in RequestIds : verdict[id] = "ok" => id \in ok
  PROVE  Fenced(FreshHelper(snapshot, osTask, owed, verdict), Lanes(<<>>, Idle, shown, ok))
<1> DEFINE n == FreshHelper(snapshot, osTask, owed, verdict)
           out == Lanes(<<>>, Idle, shown, ok)
<1>1. IsRecord(n)
  BY DEF FreshHelper, IsRecord, Fields
<1>2. /\ n.generation = 0 /\ n.deferred = <<>> /\ n.worker = NoWorker /\ n.request = NoRequest
      /\ n.tasks = <<>> /\ n.timers = <<>> /\ n.verdict = verdict
  BY DEF FreshHelper
<1>3. out.posted = <<>> /\ out.running = <<>> /\ out.ok = ok
  BY DEF Lanes
<1> HIDE DEF n, out
<1>4. \A items : NoneIn(<<>>, items)
  BY ShortItems
<1>5. \A items : Nowhere(n, out, items)
  BY <1>2, <1>3, <1>4 DEF Nowhere
<1>6. Base(n, out)
  BY <1>1, <1>2, <1>3, <1>4, <1>5, NoRequestType DEF Base
<1>7. Mode(n, out, "quiet")
  BY <1>2, <1>5, <1>6 DEF Mode
<1> QED
  BY <1>7, ModeIsFenced DEF n, out

(* A worker thread that goes on with its task changes no lane.                      *)
LEMMA WorkingFenced ==
  ASSUME NEW ok, Fenced(h, Lanes(mail, running, desk, ok)), running # Idle, running' # Idle,
         running'.task = running.task, mail' = mail,
         desk' = desk \/ (running.task \in Task /\ running.task.kind \in MutationKinds),
         h' = h \/ \E f \in Fields \ FenceFields : \E v : h' = [h EXCEPT ![f] = v]
  PROVE  Fenced(h', Lanes(mail', running', desk', ok))
<1> DEFINE out == Lanes(mail, running, desk, ok)
           new == Lanes(mail', running', desk', ok)
<1>1. /\ out.posted = mail /\ out.running = <<running.task>> /\ out.ok = ok /\ out.desk = desk
      /\ new.posted = mail /\ new.running = <<running.task>> /\ new.ok = ok /\ new.desk = desk'
  BY DEF Lanes
<1>2. PICK x \in {"quiet", "manned", "checked"} : Mode(h, out, x)
  BY DEF Fenced
<1> HIDE DEF out, new
<1>3. NoneIn(mail, Misleading(h.generation, desk'))
  <2>1. CASE desk' = desk
    BY <1>1, <1>2, <2>1 DEF Mode, Base
  <2>2. CASE running.task \in Task /\ running.task.kind \in MutationKinds
    <3>1. running.task \in Mutating
      BY <2>2 DEF Mutating, Item
    <3>2. ~NoneIn(out.running, Mutating)
      BY <1>1, <3>1, ShortItems
    <3>3. NoneIn(mail, Checking(h.generation))
      BY <1>1, <1>2, <3>2 DEF Mode, Nowhere
    <3>4. Misleading(h.generation, desk') \subseteq Checking(h.generation)
      BY DEF Misleading, Checking, Item
    <3> QED
      BY <3>3, <3>4 DEF NoneIn
  <2> QED
    BY <2>1, <2>2
<1>4. \A items : /\ Nowhere(h, out, items) => Nowhere(h, new, items)
                 /\ Once(h, out, items) => Once(h, new, items)
  BY <1>1 DEF Nowhere, Once
<1>5. /\ IsRecord(h) /\ h.tasks \in Seq(Task) /\ h.timers \in Seq(Task)
      /\ new.posted \in Seq(Completion) /\ new.running \in Seq(Task)
      /\ NoneIn(h.timers, Mutating) /\ NoneIn(new.posted, Misleading(h.generation, new.desk))
      /\ \A id \in RequestIds : h.verdict[id] = "ok" => id \in new.ok
  BY <1>1, <1>2, <1>3 DEF Mode, Base
<1>6. Mode(h, new, x)
  BY <1>2, <1>4, <1>5, MovedMode
<1>7. Fenced(h, new)
  BY <1>6 DEF Fenced
<1> QED
  BY <1>7, UpdateFenced DEF new

(* ... and one that has finished posts its completion.                              *)
LEMMA PostFenced ==
  ASSUME TypeOK, NEW ok, Fenced(h, Lanes(mail, running, desk, ok)), running # Idle,
         NEW status \in Statuses, NEW changed \in BOOLEAN, NEW cleared \in {"none", "ok", "failed"},
         Post(status, changed, cleared), NEW now,
         running.task.kind \in MutationKinds \/ now = desk,
         running.task.kind = "Verification" /\ ~Cancelled /\ status = "Ok" => desk = running.task.request
  PROVE  Fenced(h, Lanes(mail', running', now, ok))
<1> DEFINE c == [kind |-> running.task.kind, generation |-> running.task.generation,
                 request |-> running.task.request, virtual |-> running.task.virtual,
                 device |-> running.task.device, purpose |-> running.task.purpose,
                 status |-> status, changed |-> changed, durable |-> running.durable,
                 staged |-> running.staged, cleared |-> cleared]
<1>1. running.task \in Task /\ running.durable \in BOOLEAN /\ running.staged \in BOOLEAN
      /\ mail \in Seq(Completion)
  BY DEF TypeOK, Run
<1>2. c \in Completion
  BY <1>1 DEF Task, Completion
<1>3. mail' = Append(mail, c) /\ running' = Idle
  BY DEF Post
<1>4. /\ c.kind = running.task.kind /\ c.generation = running.task.generation
      /\ c.request = running.task.request /\ c.status = status
  OBVIOUS
<1> HIDE DEF c
<1>5. PICK x \in {"quiet", "manned", "checked"} : Mode(h, Lanes(mail, running, desk, ok), x)
  BY DEF Fenced
<1>6. c.kind = "Verification" /\ c.generation = h.generation /\ c.status = "Ok" => c.request = desk
  BY <1>4 DEF Cancelled, IsStale
<1>7. Mode(h, Lanes(Append(mail, c), Idle, now, ok), x)
  BY <1>1, <1>2, <1>4, <1>5, <1>6, PostedMode
<1> QED
  BY <1>3, <1>7 DEF Fenced

(* The invariant: the memory is fenced in what surrounds it.                        *)
FenceKept == Fenced(h, Lanes(mail, running, desk, RequestIds))

(* What a step of the main loop does to the memory.                                 *)
LEMMA MailFenced ==
  ASSUME TypeOK, NEW ok, desk \in ok, Fenced(h, Lanes(mail, running, desk, ok)), HandleMail
  PROVE  Fenced(h', Lanes(mail', running', desk', ok))
<1>1. PICK x \in {"quiet", "manned", "checked"} : Mode(h, Lanes(mail, running, desk, ok), x)
  BY DEF Fenced
<1>2. PICK e \in Surroundings : h' = HandleCompletion(h, Head(mail), e)
  BY DEF HandleMail
<1>3. mail # <<>> /\ mail' = Tail(mail) /\ running' = running /\ desk' = desk
  BY DEF HandleMail, TakeMail
<1>4. mail \in Seq(Completion)
  BY DEF TypeOK
<1> DEFINE c == Head(mail)
           rest == Lanes(Tail(mail), running, desk, ok)
<1>5. c \in Completion
  BY <1>3, <1>4, TailItems
<1>6. /\ h.verified \in BOOLEAN /\ h.next_reapply \in Nat /\ h.reapplies \in Nat
      /\ h.generation \in Nat
  BY TypedMemory DEF Typed
<1>7. rest.ok = ok
  BY DEF Lanes
<1>8. /\ c \in Mutating =>
           /\ Mode(h, rest, "vacant")
           /\ h.worker = [kind |-> FenceKind(c.kind), generation |-> c.generation]
           /\ c.kind = "RefreshRate" => h.state \in Resting
      /\ c \in Checking(h.generation) =>
           /\ Mode(h, rest, "quiet")
           /\ h.state \in Resting \cup {"Verification"}
           /\ c.request = h.request.id
           /\ c.status = "Ok" => c.request = desk
      /\ c \notin Mutating /\ c \notin Checking(h.generation) => Mode(h, rest, x)
  BY <1>1, <1>3, <1>4, ReceiveMode
<1> HIDE DEF c, rest
<1>9. CASE c \in Mutating
  BY <1>2, <1>3, <1>5, <1>6, <1>8, <1>9, MutationEndsFenced DEF c, rest
<1>10. CASE c \in Checking(h.generation)
  <2>1. c.status = "Ok" => h.request.id \in rest.ok
    BY <1>7, <1>8, <1>10
  <2>2. Fenced(HandleVerificationCompleted(h, c), rest)
    BY <1>6, <1>8, <1>10, <2>1, HandleVerificationCompletedFenced
  <2>3. HandleCompletion(h, c, e) = HandleVerificationCompleted(h, c)
    BY <1>10 DEF HandleCompletion, Checking
  <2> QED
    BY <1>2, <1>3, <2>2, <2>3 DEF c, rest
<1>11. CASE c \notin Mutating /\ c \notin Checking(h.generation)
  <2>1. Fenced(h, rest)
    BY <1>8, <1>11 DEF Fenced
  <2>2. c.kind = "Verification" \/ c.kind = "Reset"
    BY <1>5, <1>11 DEF Mutating, Item, Completion, TaskKinds, MutationKinds
  <2>3. CASE c.kind = "Verification"
    <3>1. IsStale(h, c.generation)
      BY <1>5, <1>11, <2>3 DEF Checking, Item, IsStale
    <3>2. HandleCompletion(h, c, e) = h
      BY <2>3, <3>1 DEF HandleCompletion, HandleVerificationCompleted
    <3> QED
      BY <1>2, <1>3, <2>1, <3>2 DEF c, rest
  <2>4. CASE c.kind = "Reset"
    <3>1. Fenced(HandleResetCompleted(h, c, e), rest)
      BY <2>1, HandleResetCompletedFenced
    <3>2. HandleCompletion(h, c, e) = HandleResetCompleted(h, c, e)
      BY <2>4 DEF HandleCompletion
    <3> QED
      BY <1>2, <1>3, <3>1, <3>2 DEF c, rest
  <2> QED
    BY <2>2, <2>3, <2>4
<1> QED
  BY <1>9, <1>10, <1>11

(* What a step of the worker thread does.                                           *)
LEMMA WorkerFenced ==
  ASSUME TypeOK, NEW ok, Fenced(h, Lanes(mail, running, desk, ok)), WorkerThread
  PROVE  Fenced(h', Lanes(mail', running', desk', ok))
<1> DEFINE goal == Fenced(h', Lanes(mail', running', desk', ok))
<1>1. running # Idle => running \in Run /\ running.task \in Task
  BY DEF TypeOK, Run
<1>2. CASE TakeTask
  <2>1. PICK x \in {"quiet", "manned", "checked"} : Mode(h, Lanes(mail, running, desk, ok), x)
    BY DEF Fenced
  <2>2. running = Idle /\ h.tasks # <<>> /\ mail' = mail /\ desk' = desk
        /\ h' = [h EXCEPT !.tasks = Tail(@)] /\ running'.task = Head(h.tasks)
        /\ running'.phase = "new"
    BY <1>2 DEF TakeTask
  <2>3. running' # Idle
    BY <2>2 DEF Idle
  <2>4. Mode(h', Lanes(mail, running', desk, ok), x)
    BY <2>1, <2>2, <2>3, TakenMode
  <2> QED
    BY <2>2, <2>4 DEF Fenced
<1>3. ASSUME NEW phase \in Phases, running # Idle, running' = [running EXCEPT !.phase = phase]
             \/ (\E v : running' = [running EXCEPT !.phase = phase, !.staged = v])
             \/ (\E v : running' = [running EXCEPT !.phase = phase, !.durable = v])
             \/ (\E v : running' = [running EXCEPT !.phase = phase, !.changed = v])
      PROVE  running' # Idle /\ running'.task = running.task
  BY <1>1, <1>3 DEF Run, Idle, Phases
<1>4. CASE ApplyStages
  <2>1. running # Idle /\ running' # Idle /\ running'.task = running.task
    BY <1>3, <1>4 DEF ApplyStages, Working, Phases
  <2> QED
    BY <1>4, <2>1, WorkingFenced DEF ApplyStages
<1>5. CASE ApplyArms
  <2>1. running # Idle /\ running' # Idle /\ running'.task = running.task
    BY <1>3, <1>5 DEF ApplyArms, Working, Phases
  <2>2. \E v : h' = [h EXCEPT !.os_task = v]
    BY <1>5 DEF ApplyArms
  <2>3. \E f \in Fields \ FenceFields : \E v : h' = [h EXCEPT ![f] = v]
    BY <2>2 DEF Fields, FenceFields
  <2> QED
    BY <1>5, <2>1, <2>3, WorkingFenced DEF ApplyArms
<1>6. CASE ApplyMutates
  <2>1. running # Idle /\ running' # Idle /\ running'.task = running.task
    BY <1>3, <1>6 DEF ApplyMutates, Working, Phases
  <2>2. \E f \in Fields \ FenceFields : \E v : h' = [h EXCEPT ![f] = v]
    BY <1>6 DEF ApplyMutates, Fields, FenceFields
  <2>3. running.task \in Task /\ running.task.kind \in MutationKinds
    BY <1>1, <1>6 DEF ApplyMutates, Working, MutationKinds, WorkerKinds
  <2> QED
    BY <1>6, <2>1, <2>2, <2>3, WorkingFenced DEF ApplyMutates
<1>7. CASE RecoveryEnters
  <2>1. running # Idle /\ running' # Idle /\ running'.task = running.task
    BY <1>3, <1>7 DEF RecoveryEnters, Working, Phases
  <2> QED
    BY <1>7, <2>1, WorkingFenced DEF RecoveryEnters
<1>8. CASE RecoveryBegins
  <2>1. running # Idle /\ running' # Idle /\ running'.task = running.task
    BY <1>3, <1>8 DEF RecoveryBegins, Working, Phases
  <2>2. \E f \in Fields \ FenceFields : \E v : h' = [h EXCEPT ![f] = v]
    BY <1>8 DEF RecoveryBegins, Fields, FenceFields
  <2> QED
    BY <1>8, <2>1, <2>2, WorkingFenced DEF RecoveryBegins
<1>9. ASSUME NEW status \in Statuses, NEW changed \in BOOLEAN, NEW cleared \in {"none", "ok", "failed"},
             Post(status, changed, cleared), running # Idle,
             h' = h \/ (\E v : h' = [h EXCEPT !.owed = v]),
             running.task.kind \in MutationKinds \/ desk' = desk,
             running.task.kind = "Verification" /\ ~Cancelled /\ status = "Ok"
               => desk = running.task.request
      PROVE  goal
  <2>1. Fenced(h, Lanes(mail', running', desk', ok))
    BY <1>9, PostFenced
  <2>2. \A v : Fenced([h EXCEPT !.owed = v], Lanes(mail', running', desk', ok))
    BY <2>1, UpdateFenced DEF Fields, FenceFields
  <2> QED
    BY <1>9, <2>1, <2>2
<1>10. CASE ApplyLands \/ RecoveryRestores
  BY <1>9, <1>10 DEF ApplyLands, RecoveryRestores, Working, Statuses, MutationKinds, WorkerKinds
<1>11. CASE ApplyRollsBack
  <2>1. PICK status \in {"Retryable", "Fatal"} : Post(status, FALSE, "none")
    BY <1>11 DEF ApplyRollsBack
  <2>2. running # Idle /\ running.task.kind = "Apply" /\ \E v : h' = [h EXCEPT !.owed = v]
    BY <1>11 DEF ApplyRollsBack, Working
  <2> QED
    BY <1>9, <2>1, <2>2 DEF Statuses, MutationKinds, WorkerKinds
<1>12. CASE ApplyFails
  <2>1. running # Idle /\ running.task.kind = "Apply" /\ running.changed \in BOOLEAN
    BY <1>1, <1>12 DEF ApplyFails, Working, Run
  <2>2. PICK status \in {"Retryable", "Fatal"} : Post(status, running.changed, "none")
    BY <1>12 DEF ApplyFails
  <2>3. h' = h
    BY <1>12 DEF ApplyFails
  <2> QED
    BY <1>9, <2>1, <2>2, <2>3 DEF Statuses, MutationKinds, WorkerKinds
<1>13. CASE RecoverySkipped \/ RecoveryFails
  BY <1>9, <1>13 DEF RecoverySkipped, RecoveryFails, Working, Statuses, MutationKinds, WorkerKinds
<1>14. CASE ValidationEnds
  <2>1. running # Idle /\ running.task.kind = "Validation" /\ h' = h
    BY <1>14 DEF ValidationEnds, Working
  <2>2. PICK status \in {"Ok", "Fatal"} : Post(status, FALSE, "none")
    BY <1>14 DEF ValidationEnds
  <2> QED
    BY <1>9, <2>1, <2>2 DEF Statuses, MutationKinds
<1>15. CASE VerificationEnds
  <2>1. running # Idle /\ running.task.kind = "Verification" /\ h' = h /\ desk' = desk
    BY <1>15 DEF VerificationEnds, Working
  <2>2. PICK status \in IF ~Cancelled /\ desk = running.task.request THEN {"Ok", "Fatal"} ELSE {"Fatal"} :
          Post(status, FALSE, "none")
    BY <1>15 DEF VerificationEnds
  <2>3. status \in Statuses /\ (status = "Ok" => desk = running.task.request)
    BY <2>2 DEF Statuses
  <2> QED
    BY <1>9, <2>1, <2>2, <2>3
<1>16. CASE RefreshRateEnds
  <2>1. running # Idle /\ running.task.kind = "RefreshRate" /\ h' = h
    BY <1>16 DEF RefreshRateEnds, Working
  <2>2. PICK status \in {"Ok", "Fatal"} : Post(status, FALSE, "none")
    BY <1>16 DEF RefreshRateEnds
  <2> QED
    BY <1>9, <2>1, <2>2 DEF Statuses, MutationKinds, WorkerKinds
<1>17. CASE ResetEnds
  <2>1. running # Idle /\ running.task.kind = "Reset" /\ h' = h /\ desk' = desk
    BY <1>17 DEF ResetEnds, Working
  <2>2. PICK status \in {"Ok", "Fatal"} : Post(status, FALSE, "none")
    BY <1>17 DEF ResetEnds
  <2> QED
    BY <1>9, <2>1, <2>2 DEF Statuses
<1> QED
  BY <1>2, <1>4, <1>5, <1>6, <1>7, <1>8, <1>10, <1>11, <1>12, <1>13, <1>14, <1>15, <1>16, <1>17
     DEF WorkerThread

(* Every step keeps the memory fenced, and the gates that are open after it were    *)
(* open before, but for that of the request which the desktop shows.                *)
LEMMA NextFenced ==
  ASSUME TypeOK, RestoreKept(h), FenceKept, [Next]_vars, NEW ok, ok = Held \cup {desk}
  PROVE  Fenced(h', Lanes(mail', running', desk', ok))
<1> DEFINE out == Lanes(mail, running, desk, ok)
<1>1. Fenced(h, out)
  <2>1. PICK x \in {"quiet", "manned", "checked"} : Mode(h, Lanes(mail, running, desk, RequestIds), x)
    BY DEF FenceKept, Fenced
  <2>2. \A id \in RequestIds : h.verdict[id] = "ok" => id \in ok
    BY DEF Held
  <2>3. Mode(h, out, x)
    BY <2>1, <2>2, OpenGates
  <2> QED
    BY <2>3 DEF Fenced
<1>2. /\ h.state \in States /\ h.verified \in BOOLEAN /\ h.check_pending \in BOOLEAN
      /\ h.reply_epoch \in Nat /\ (h.state = "EventLoop" => h.worker = NoWorker)
  BY TypedMemory DEF Typed, RestoreKept
<1>3. ASSUME UNCHANGED <<running, mail, desk>>, Fenced(h', out) PROVE  Fenced(h', Lanes(mail', running', desk', ok))
  BY <1>3
<1>4. desk \in ok
  OBVIOUS
<1>5. CASE Client
  <2>1. UNCHANGED <<running, mail, desk>>
    BY <1>5 DEF Client, ClientApply, ClientRevert, ClientDisarm, ClientReset, ClientRefreshRate,
       ClientCapture, FromClient
  <2>2. ASSUME ClientApply PROVE Fenced(h', out)
    <3>1. PICK request \in Request, e \in Env :
            h' = HandleApplyCommand(h, ClientCommand("APPLY", request), e)
      BY <2>2, ClientApplyType
    <3>2. ClientCommand("APPLY", request) \in Command
      BY ClientCommandType
    <3> QED
      BY <1>1, <3>1, <3>2, HandleApplyCommandFenced
  <2>3. ASSUME ClientRevert PROVE Fenced(h', out)
    <3>1. Fenced([h EXCEPT !.restore_origin = h.epoch], out)
      BY <1>1, UpdateFenced DEF Fields, FenceFields
    <3> QED
      BY <2>3, <3>1, ClientCommandType, NoRequestType, HandleRevertCommandFenced DEF ClientRevert
  <2>4. ASSUME ClientDisarm PROVE Fenced(h', out)
    BY <1>1, <2>4, ClientCommandType, NoRequestType, HandleDisarmCommandFenced DEF ClientDisarm
  <2>5. ASSUME ClientReset PROVE Fenced(h', out)
    BY <1>1, <2>5, ClientCommandType, NoRequestType, HandleResetCommandFenced DEF ClientReset
  <2>6. ASSUME ClientRefreshRate PROVE Fenced(h', out)
    <3>1. {0, vdd} \subseteq Devices
      BY DeviceAssumption DEF TypeOK, Devices
    <3> QED
      BY <1>1, <1>2, <2>6, <3>1, HandleRefreshRateCommandFenced DEF ClientRefreshRate
  <2>7. ASSUME ClientCapture PROVE Fenced(h', out)
    BY <1>1, <2>7, NoRequestType, ClientCommandType, HandleResetCommandFenced DEF ClientCapture
  <2>8. Fenced(h', out)
    BY <1>5, <2>2, <2>3, <2>4, <2>5, <2>6, <2>7 DEF Client
  <2> QED
    BY <1>3, <2>1, <2>8
<1>6. CASE Connection
  <2>1. UNCHANGED <<running, mail, desk>>
    BY <1>6 DEF Connection, Connect, Break, NoticeDisconnect
  <2>2. ASSUME NEW link PROVE Fenced([h EXCEPT !.link = link, !.epoch = @ + 1], out)
    <3>1. Fenced([h EXCEPT !.link = link], out)
      BY <1>1, UpdateFenced DEF Fields, FenceFields
    <3> QED
      BY <3>1, UpdateFenced DEF Fields, FenceFields
  <2>3. ASSUME NoticeDisconnect PROVE Fenced(h', out)
    BY <1>1, <1>2, <2>3, HandleDisconnectFenced DEF NoticeDisconnect
  <2>4. Fenced(h', out)
    BY <1>6, <2>2, <2>3 DEF Connection, Connect, Break
  <2> QED
    BY <1>3, <2>1, <2>4
<1>7. CASE GraceEnds
  <2>1. Fenced(h', out) /\ UNCHANGED <<running, mail, desk>>
    BY <1>1, <1>7, UpdateFenced DEF GraceEnds, Fields, FenceFields
  <2> QED
    BY <1>3, <2>1
<1>8. CASE HandleMail
  BY <1>1, <1>4, <1>8, MailFenced
<1>9. CASE DisplayChange
  <2>1. vdd' \in Devices /\ UNCHANGED <<running, mail, desk>>
    BY <1>9 DEF DisplayChange, TypeOK
  <2>2. Fenced(h', out)
    BY <1>1, <1>2, <1>9, <2>1, HandleDisplayEventFenced DEF DisplayChange
  <2> QED
    BY <1>3, <2>1, <2>2
<1>10. CASE Tick
  <2>1. Fenced(h', out) /\ UNCHANGED <<running, mail, desk>>
    BY <1>1, <1>2, <1>10, TickFenced DEF Tick, RetryDue
  <2> QED
    BY <1>3, <2>1
<1>11. CASE TimerFires
  <2>1. PICK x \in {"quiet", "manned", "checked"} : Mode(h, out, x)
    BY <1>1 DEF Fenced
  <2>2. h.timers # <<>> /\ UNCHANGED <<running, mail, desk>>
    BY <1>11 DEF TimerFires
  <2>3. Mode(h', out, x)
    BY <1>11, <2>1, <2>2, TimerMode DEF TimerFires
  <2>4. Fenced(h', out)
    BY <2>3 DEF Fenced
  <2> QED
    BY <1>3, <2>2, <2>4
<1>12. CASE WorkerThread
  BY <1>1, <1>12, WorkerFenced
<1>13. CASE Relaunch
  <2>1. mail' = <<>> /\ running' = Idle
    BY <1>13 DEF Relaunch
  <2>2. Fenced(NextProcess, Lanes(<<>>, Idle, desk', ok))
    BY FreshHelperFenced DEF NextProcess, Held
  <2>3. Fenced([NextProcess EXCEPT !.link = "restore_mode"], Lanes(<<>>, Idle, desk', ok))
    BY <2>2, UpdateFenced DEF Fields, FenceFields
  <2>4. [DisconnectRevert EXCEPT !.from_disconnect = FALSE] \in Command
    BY DisconnectRevertType
  <2>5. Fenced(HandleRevertCommand([NextProcess EXCEPT !.link = "restore_mode"],
                  [DisconnectRevert EXCEPT !.from_disconnect = FALSE]), Lanes(<<>>, Idle, desk', ok))
    BY <2>3, <2>4, HandleRevertCommandFenced
  <2>6. \/ h' = NextProcess
        \/ h' = HandleRevertCommand([NextProcess EXCEPT !.link = "restore_mode"],
                  [DisconnectRevert EXCEPT !.from_disconnect = FALSE])
    BY <1>13 DEF Relaunch
  <2> QED
    BY <2>1, <2>2, <2>5, <2>6
<1>14. CASE UNCHANGED vars
  BY <1>1, <1>14 DEF vars
<1> QED
  BY <1>5, <1>6, <1>7, <1>8, <1>9, <1>10, <1>11, <1>12, <1>13, <1>14 DEF Next

(* FenceKept is inductive, given the types and RestoreKept.                         *)
LEMMA FenceKeptInductive ==
  /\ Init => FenceKept
  /\ TypeOK /\ RestoreKept(h) /\ FenceKept /\ [Next]_vars => FenceKept'
<1>1. Init => FenceKept
  <2>1. ASSUME Init PROVE FenceKept
    <3>1. \A id \in RequestIds : [i \in RequestIds |-> "none"][id] = "ok" => id \in RequestIds
      OBVIOUS
    <3> QED
      BY <2>1, <3>1, FreshHelperFenced DEF Init, FenceKept
  <2> QED
    BY <2>1
<1>2. ASSUME TypeOK, RestoreKept(h), FenceKept, [Next]_vars PROVE FenceKept'
  <2>1. PICK x \in {"quiet", "manned", "checked"} :
          Mode(h', Lanes(mail', running', desk', Held \cup {desk}), x)
    BY <1>2, NextFenced DEF Fenced
  <2>2. Mode(h', Lanes(mail', running', desk', RequestIds), x)
    BY <2>1, OpenGates
  <2> QED
    BY <2>2 DEF FenceKept, Fenced
<1> QED
  BY <1>1, <1>2

(* A gate that this step opened is that of the request the desktop shows.           *)
LEMMA NextGateShows ==
  ASSUME TypeOK, RestoreKept(h), FenceKept, [Next]_vars
  PROVE  \A id \in RequestIds : h.verdict[id] # "ok" /\ h'.verdict[id] = "ok" => desk = id
<1>1. PICK x : Mode(h', Lanes(mail', running', desk', Held \cup {desk}), x)
  BY NextFenced DEF Fenced
<1>2. \A id \in RequestIds : h'.verdict[id] = "ok" => id \in Held \cup {desk}
  BY <1>1 DEF Mode, Base, Lanes
<1> QED
  BY <1>2 DEF Held

--------------------------------------------------------------------------------
(* What follows                                                                     *)

(* A mutation under way is a mutating task in one of the lanes.                     *)
LEMMA MutationsInLanes ==
  ASSUME TypeOK
  PROVE  /\ \A i \in DOMAIN h.tasks : h.tasks[i].kind \in MutationKinds <=> h.tasks[i] \in Mutating
         /\ \A i \in DOMAIN mail : mail[i].kind \in MutationKinds <=> mail[i] \in Mutating
         /\ running # Idle => (running.task.kind \in MutationKinds <=> running.task \in Mutating)
         /\ \A t : t \in Mutations <=>
              \/ \E i \in DOMAIN h.tasks :
                   /\ h.tasks[i] \in Mutating
                   /\ t = <<"queued", i, h.tasks[i].kind, h.tasks[i].generation>>
              \/ /\ running # Idle /\ running.task \in Mutating
                 /\ t = <<"running", 0, running.task.kind, running.task.generation>>
              \/ \E i \in DOMAIN mail :
                   /\ mail[i] \in Mutating
                   /\ t = <<"posted", i, mail[i].kind, mail[i].generation>>
<1>1. h.tasks \in Seq(Task) /\ mail \in Seq(Completion)
      /\ (running # Idle => running.task \in Task)
  BY TypedMemory DEF Typed, TypeOK, Run
<1>2. /\ \A i \in DOMAIN h.tasks : h.tasks[i] \in Task
      /\ \A i \in DOMAIN mail : mail[i] \in Completion
  BY <1>1
<1>3. /\ \A i \in DOMAIN h.tasks : h.tasks[i].kind \in MutationKinds <=> h.tasks[i] \in Mutating
      /\ \A i \in DOMAIN mail : mail[i].kind \in MutationKinds <=> mail[i] \in Mutating
      /\ running # Idle => (running.task.kind \in MutationKinds <=> running.task \in Mutating)
  BY <1>1, <1>2 DEF Mutating, Item
<1>4. ASSUME NEW t
      PROVE  t \in Mutations <=>
              \/ \E i \in DOMAIN h.tasks :
                   /\ h.tasks[i].kind \in MutationKinds
                   /\ t = <<"queued", i, h.tasks[i].kind, h.tasks[i].generation>>
              \/ /\ running # Idle /\ running.task.kind \in MutationKinds
                 /\ t = <<"running", 0, running.task.kind, running.task.generation>>
              \/ \E i \in DOMAIN mail :
                   /\ mail[i].kind \in MutationKinds
                   /\ t = <<"posted", i, mail[i].kind, mail[i].generation>>
  <2>1. t \in InFlight <=>
              \/ \E i \in DOMAIN h.tasks :
                   t = <<"queued", i, h.tasks[i].kind, h.tasks[i].generation>>
              \/ /\ running # Idle
                 /\ t = <<"running", 0, running.task.kind, running.task.generation>>
              \/ \E i \in DOMAIN mail :
                   t = <<"posted", i, mail[i].kind, mail[i].generation>>
    BY DEF InFlight
  <2>2. t \in Mutations <=> t \in InFlight /\ t[3] \in MutationKinds
    BY DEF Mutations
  <2> QED
    BY <2>1, <2>2
<1> QED
  BY <1>3, <1>4

LEMMA FencedMutations ==
  ASSUME TypeOK, FenceKept
  PROVE  MutationFence
<1> DEFINE out == Lanes(mail, running, desk, RequestIds)
<1>1. PICK x \in {"quiet", "manned", "checked"} : Mode(h, out, x)
  BY DEF FenceKept, Fenced
<1>2. /\ out.posted = mail
      /\ running = Idle => out.running = <<>>
      /\ running # Idle => out.running = <<running.task>>
  BY DEF Lanes
<1> HIDE DEF out
<1>3. \A t : t \in Mutations <=>
              \/ \E i \in DOMAIN h.tasks :
                   /\ h.tasks[i] \in Mutating
                   /\ t = <<"queued", i, h.tasks[i].kind, h.tasks[i].generation>>
              \/ /\ running # Idle /\ running.task \in Mutating
                 /\ t = <<"running", 0, running.task.kind, running.task.generation>>
              \/ \E i \in DOMAIN mail :
                   /\ mail[i] \in Mutating
                   /\ t = <<"posted", i, mail[i].kind, mail[i].generation>>
  BY MutationsInLanes
<1>4. /\ NoneIn(out.running, Mutating) => ~(running # Idle /\ running.task \in Mutating)
      /\ OneIn(out.running, Mutating) => running # Idle /\ running.task \in Mutating
  <2>1. CASE running = Idle
    <3>1. ~OneIn(<<>>, Mutating)
      BY ShortItems
    <3> QED
      BY <1>2, <2>1, <3>1
  <2>2. CASE running # Idle
    <3> DEFINE t == running.task
    <3>1. out.running = <<t>>
      BY <1>2, <2>2
    <3> HIDE DEF t
    <3>2. /\ NoneIn(<<t>>, Mutating) <=> t \notin Mutating
          /\ OneIn(<<t>>, Mutating) <=> t \in Mutating
      BY ShortItems
    <3>3. /\ NoneIn(out.running, Mutating) <=> t \notin Mutating
          /\ OneIn(out.running, Mutating) <=> t \in Mutating
      BY <3>1, <3>2
    <3> QED
      BY <2>2, <3>3 DEF t
  <2> QED
    BY <2>1, <2>2
<1>5. CASE x # "manned"
  <2>1. Nowhere(h, out, Mutating) /\ h.worker = NoWorker
    BY <1>1, <1>5 DEF Mode
  <2>2. \A t : t \notin Mutations
    BY <1>2, <1>3, <1>4, <2>1 DEF Nowhere, NoneIn
  <2> QED
    BY <2>1, <2>2 DEF MutationFence
<1>6. CASE x = "manned"
  <2>1. /\ h.worker # NoWorker /\ Once(h, out, Mutating) /\ Nowhere(h, out, Unfenced(h.worker))
        /\ NoneIn(h.timers, Mutating)
    BY <1>1, <1>6 DEF Mode, Base
  <2>2. ASSUME NEW t, NEW task \in Mutating, Mutations = {t}, task \notin Unfenced(h.worker),
               t[3] = task.kind, t[4] = task.generation
        PROVE  MutationFence
    <3>1. h.worker = [kind |-> FenceKind(task.kind), generation |-> task.generation]
      BY <2>2 DEF Unfenced
    <3> QED
      BY <2>1, <2>2, <3>1 DEF MutationFence
  <2>3. CASE OneIn(h.tasks, Mutating) /\ NoneIn(out.running, Mutating) /\ NoneIn(mail, Mutating)
    <3>1. PICK i \in DOMAIN h.tasks :
            h.tasks[i] \in Mutating /\ \A j \in DOMAIN h.tasks : h.tasks[j] \in Mutating => j = i
      BY <2>3 DEF OneIn
    <3> DEFINE t == <<"queued", i, h.tasks[i].kind, h.tasks[i].generation>>
    <3>2. \A u : u \in Mutations <=> u = t
      BY <1>3, <1>4, <2>3, <3>1 DEF NoneIn
    <3>3. h.tasks[i] \notin Unfenced(h.worker)
      BY <2>1 DEF Nowhere, NoneIn
    <3>4. t[3] = h.tasks[i].kind /\ t[4] = h.tasks[i].generation
      OBVIOUS
    <3> HIDE DEF t
    <3>5. Mutations = {t}
      BY <3>2
    <3> QED
      BY <2>2, <3>1, <3>3, <3>4, <3>5
  <2>4. CASE NoneIn(h.tasks, Mutating) /\ OneIn(out.running, Mutating) /\ NoneIn(mail, Mutating)
    <3> DEFINE t == <<"running", 0, running.task.kind, running.task.generation>>
    <3>1. running # Idle /\ running.task \in Mutating
      BY <1>4, <2>4
    <3>2. \A u : u \in Mutations <=> u = t
      BY <1>3, <2>4, <3>1 DEF NoneIn
    <3>3. running.task \notin Unfenced(h.worker)
      BY <1>2, <2>1, <3>1, ShortItems DEF Nowhere
    <3>4. t[3] = running.task.kind /\ t[4] = running.task.generation
      OBVIOUS
    <3> HIDE DEF t
    <3>5. Mutations = {t}
      BY <3>2
    <3> QED
      BY <2>2, <3>1, <3>3, <3>4, <3>5
  <2>5. CASE NoneIn(h.tasks, Mutating) /\ NoneIn(out.running, Mutating) /\ OneIn(mail, Mutating)
    <3>1. PICK i \in DOMAIN mail :
            mail[i] \in Mutating /\ \A j \in DOMAIN mail : mail[j] \in Mutating => j = i
      BY <2>5 DEF OneIn
    <3> DEFINE t == <<"posted", i, mail[i].kind, mail[i].generation>>
    <3>2. \A u : u \in Mutations <=> u = t
      BY <1>3, <1>4, <2>5, <3>1 DEF NoneIn
    <3>3. mail[i] \notin Unfenced(h.worker)
      BY <1>2, <2>1 DEF Nowhere, NoneIn
    <3>4. t[3] = mail[i].kind /\ t[4] = mail[i].generation
      OBVIOUS
    <3> HIDE DEF t
    <3>5. Mutations = {t}
      BY <3>2
    <3> QED
      BY <2>2, <3>1, <3>3, <3>4, <3>5
  <2> QED
    BY <1>2, <2>1, <2>3, <2>4, <2>5 DEF Once, OneIn, NoneIn
<1> QED
  BY <1>5, <1>6

(* At most one task that may touch the desktop is queued, running or waiting to be  *)
(* handled, and active_mutation_worker_ names exactly that one: whatever supersedes *)
(* it, waits behind it, cancels it or is cancelled by it.                           *)
THEOREM FenceHolds == Spec => []MutationFence
<1>1. Init => RestoreKept(h)
  BY FreshHelperSound DEF Init, Sound
<1>2. TypeOK /\ RestoreKept(h) /\ [Next]_vars => RestoreKept(h)'
  BY NextRestoreKept
<1>3. TypeOK /\ FenceKept => MutationFence
  BY FencedMutations
<1> QED
  BY <1>1, <1>2, <1>3, FenceKeptInductive, TypeCorrect, PTL DEF Spec

(* A session gate opens (VerificationResult true) only in a step that begins with   *)
(* the desktop as that very request wants it: no check that was overtaken by a      *)
(* mutation, a cancellation or a newer session reports success.                     *)
THEOREM GateOpensOnRequest == Spec => GateShowsRequest
<1>1. Init => RestoreKept(h)
  BY FreshHelperSound DEF Init, Sound
<1>2. TypeOK /\ RestoreKept(h) /\ [Next]_vars => RestoreKept(h)'
  BY NextRestoreKept
<1>3. TypeOK /\ RestoreKept(h) /\ FenceKept /\ [Next]_vars =>
        [\A id \in RequestIds : h.verdict[id] # "ok" /\ h'.verdict[id] = "ok" => desk = id]_vars
  BY NextGateShows
<1> QED
  BY <1>1, <1>2, <1>3, FenceKeptInductive, TypeCorrect, PTL DEF Spec, GateShowsRequest

================================================================================
