----------------------- MODULE ConnectExecutionProofs ------------------------
(***************************************************************************)
(* The handler's counter, buffer and leases, for every number of requests, *)
(* deliveries and faults, every limit of the buffer and every reply size.  *)
(***************************************************************************)
EXTENDS ConnectExecution, ReplyBufferProofs

Reply == [id : Requests, by : Tasks, bytes : ReplySizes]

TaskType == [Tasks -> [id : Requests, pc : Places, lease : Leases]]

ExecutorType ==
    [Requests -> [answered : BOOLEAN, lease : Leases,
                  ack : Leases \cup {Null}, refused : BOOLEAN, ackLost : BOOLEAN]]

Types ==
    /\ task \in TaskType
    /\ pending \in [Requests -> 0 .. MaxTasks]
    /\ count \in 0 .. MaxTasks
    /\ Sound(buffer, Reply)
    /\ poller \in Seq(Reply)
    /\ ws \in BOOLEAN /\ closing \in BOOLEAN /\ closed \in BOOLEAN
    /\ extender \in [left : SUBSET Tasks, sending : 0 .. MaxTasks]
    /\ executor \in ExecutorType
    /\ faults \in 0 .. MaxFaults
    /\ gaveUp \subseteq Tasks

\* Deliveries are numbered in order; the counter and the leases grow with them.
Numbered ==
    \E k \in 0 .. MaxTasks :
        /\ Used = 1 .. k
        /\ count <= k
        /\ \A id \in Requests : executor[id].lease <= k + faults

\* The tasks the counter must not fall below.
Unfinished == {t \in Tasks : Live(t) \/ task[t].pc = "ended"}

Drains == NeverDrainedEarly /\ (closed => closing)

\* An entry is of a task of its request; the only task of a request has it
\* until its done callback ran.
Entries ==
    /\ \A id \in Requests : pending[id] # 0 =>
            pending[id] \in Used /\ task[pending[id]].id = id
    /\ \A t \in Used : task[t].pc # "gone" /\ Once(task[t].id) =>
            pending[task[t].id] = t

\* A reply is of the request that its task executed.
Of(reply) == reply.by \in Used /\ task[reply.by].id = reply.id

Origins ==
    /\ \A reply \in ToSet(buffer.items) : Of(reply)
    /\ \A i \in DOMAIN poller : Of(poller[i])

\* The acknowledgement in flight grants the lease in force.
Granted ==
    /\ \A id \in Requests : executor[id].ack \in {NoAck, Null, executor[id].lease}
    /\ LeaseCurrent

\* Whose task may not know the lease in force.
Untold(e) == e.ack \notin {NoAck, Null} \/ e.ackLost

\* A reply is safe from the moment it is made, not only when its task ended.
Replied == {"replying", "failing", "ended", "gone"}

Safe(t) ==
    \/ executor[task[t].id].answered
    \/ t \in Executions(buffer)
    \/ t \in gaveUp

RepliesSafe ==
    \A t \in Tasks : task[t].pc \in Replied /\ Once(task[t].id) /\ ~closed => Safe(t)

IInv ==
    /\ Types /\ Numbered /\ Drains /\ Entries /\ Origins /\ Granted /\ RepliesSafe

-----------------------------------------------------------------------------
(* What the steps share.                                                    *)

LEMMA RepliesSized == Sized(Reply)
BY ExecutionAssumption DEF Sized, Reply

LEMMA TasksFinite == IsFiniteSet(Tasks) /\ \A S \in SUBSET Tasks : IsFiniteSet(S)
<1>1. IsFiniteSet(Tasks)
    BY FS_Interval, ExecutionAssumption DEF Tasks
<1> QED BY <1>1, FS_Subset

\* The type invariant of the runs follows.
LEMMA TypesGiveTypeOK == Types => TypeOK
<1> SUFFICES ASSUME Types PROVE TypeOK
    OBVIOUS
<1>1. /\ buffer.items \in Seq(Reply) /\ buffer.size \in 0 .. MaxBytes
      /\ buffer.size = Total(buffer.items) /\ IdsOnce(buffer.items)
    BY DEF Types, Sound
<1>2. \A i \in DOMAIN buffer.items :
        buffer.items[i] \in [id : Requests, by : Tasks, bytes : ReplySizes]
  <2>1. \A i \in DOMAIN buffer.items : buffer.items[i] \in Reply
      BY <1>1
  <2> QED BY <2>1 DEF Reply
<1>3. \A i \in DOMAIN poller : poller[i].id \in Requests /\ poller[i].by \in Tasks
  <2>1. \A i \in DOMAIN poller : poller[i] \in Reply
      BY DEF Types
  <2> QED BY <2>1 DEF Reply
<1> QED BY <1>1, <1>2, <1>3 DEF Types, TypeOK, TaskType, ExecutorType, IdsOnce

\* A request delivered once has one task.
LEMMA AtMostOne ==
    ASSUME NEW S \in SUBSET Tasks, Cardinality(S) <= 1, NEW t \in S, NEW u \in S
    PROVE  t = u
<1>1. IsFiniteSet(S)
    BY TasksFinite
<1>2. Cardinality(S) \in Nat /\ (Cardinality(S) = 0 <=> S = {})
    BY <1>1, FS_CardinalityType, FS_EmptySet
<1>3. Cardinality(S) = 1
    BY <1>2
<1>4. \E x : S = {x}
    BY <1>1, <1>3, FS_Singleton
<1> QED BY <1>4

LEMMA OnceIsOne ==
    ASSUME NEW id, Once(id), NEW t \in Deliveries(id), NEW u \in Deliveries(id)
    PROVE  t = u
<1>1. Deliveries(id) \in SUBSET Tasks
    BY DEF Deliveries, Used
<1> QED BY <1>1, AtMostOne DEF Once

\* A request delivered once was never delivered more often.
LEMMA OnceEarlier ==
    ASSUME \A t \in Used : t \in Used' /\ task'[t].id = task[t].id,
           NEW id, Once(id)'
    PROVE  Once(id)
<1> DEFINE S == Deliveries(id)
           T == {t \in Used' : task'[t].id = id}
<1>1. T = Deliveries(id)' /\ Cardinality(T) <= 1
    BY DEF Once, Deliveries
<1>2. S \in SUBSET T
    BY DEF Deliveries
<1>3. IsFiniteSet(T)
    BY TasksFinite DEF Used, Tasks
<1>4. Cardinality(S) \in Nat /\ Cardinality(T) \in Nat /\ Cardinality(S) <= Cardinality(T)
  <2> HIDE DEF S, T
  <2> QED BY <1>2, <1>3, FS_Subset, FS_CardinalityType
<1> QED BY <1>1, <1>4 DEF Once

\* A task goes from one place to another.
LEMMA GoesKeeps ==
    ASSUME task \in TaskType, NEW t \in Used, NEW place \in Places \ {"unused"},
           Goes(t, place)
    PROVE  /\ task' \in TaskType
           /\ \A u \in Tasks :
                /\ task'[u].id = task[u].id /\ task'[u].lease = task[u].lease
                /\ task'[u].pc = IF u = t THEN place ELSE task[u].pc
           /\ Used' = Used
           /\ \A id : Once(id)' <=> Once(id)
<1>1. /\ task' \in TaskType
      /\ \A u \in Tasks :
            /\ task'[u].id = task[u].id /\ task'[u].lease = task[u].lease
            /\ task'[u].pc = IF u = t THEN place ELSE task[u].pc
    BY DEF TaskType, Used, Goes
<1>2. Used' = Used
    BY <1>1 DEF Used, Tasks
<1>3. \A id : Deliveries(id)' = Deliveries(id)
    BY <1>1, <1>2 DEF Deliveries, Used
<1> QED BY <1>1, <1>2, <1>3 DEF Once

LEMMA AnsweredKeeps ==
    ASSUME executor \in ExecutorType, NEW id \in Requests, executor' = Answered(id)
    PROVE  /\ executor' \in ExecutorType
           /\ \A i \in Requests :
                /\ executor'[i].lease = executor[i].lease
                /\ executor'[i].ack = executor[i].ack
                /\ executor'[i].ackLost = executor[i].ackLost
                /\ executor'[i].answered <=> executor[i].answered \/ i = id
BY DEF ExecutorType, Answered

\* The executions whose replies are held.
LEMMA ExecutionsAre == Executions(buffer) = {reply.by : reply \in ToSet(buffer.items)}
BY DEF Executions, ToSet

-----------------------------------------------------------------------------
(* Conjuncts a step keeps because it leaves alone what they are about.      *)

LEMMA NumberedKept ==
    ASSUME Numbered, Used' = Used, count' = count, faults' = faults,
           \A id \in Requests : executor'[id].lease = executor[id].lease
    PROVE  Numbered'
BY DEF Numbered, Requests

LEMMA OriginsKept ==
    ASSUME Origins, \A t \in Used : t \in Used' /\ task'[t].id = task[t].id,
           buffer' = buffer, poller' = poller
    PROVE  Origins'
BY DEF Origins, Of

LEMMA GrantedKept ==
    ASSUME Granted, task \in TaskType,
           \A t \in Tasks : (Live(t)' => Live(t)) /\ task'[t].id = task[t].id
                                /\ task'[t].lease = task[t].lease,
           \A id : Once(id)' => Once(id),
           \A id \in Requests : /\ executor'[id].lease = executor[id].lease
                                /\ executor'[id].ack = executor[id].ack
                                /\ executor'[id].ackLost = executor[id].ackLost
    PROVE  Granted'
<1>1. \A t \in Tasks : task[t].id \in Requests
    BY DEF TaskType
<1>2. \A id \in Requests : executor'[id].ack \in {NoAck, Null, executor'[id].lease}
    BY DEF Granted
<1>3. LeaseCurrent'
    BY <1>1 DEF Granted, LeaseCurrent, Granting, Tasks, Null
<1> QED BY <1>2, <1>3 DEF Granted, Requests, Null

\* A live task goes on, or ends without its done callback.
LEMMA LiveMoves ==
    ASSUME IInv, NEW t \in Tasks, Live(t), NEW place \in Places \ {"unused", "gone", "waiting"},
           Goes(t, place), UNCHANGED <<pending, count, closing, closed>>
    PROVE  /\ task' \in TaskType
           /\ \A u \in Tasks :
                /\ task'[u].id = task[u].id /\ task'[u].lease = task[u].lease
                /\ task'[u].pc = IF u = t THEN place ELSE task[u].pc
                /\ Live(u)' => Live(u)
           /\ Used' = Used
           /\ \A id : Once(id)' <=> Once(id)
           /\ ~closed
           /\ Drains' /\ Entries'
<1>1. t \in Used /\ task \in TaskType /\ ~closed
    BY DEF IInv, Types, Used, Live, Sending, Drains, NeverDrainedEarly
<1>2. /\ task' \in TaskType
      /\ \A u \in Tasks :
            /\ task'[u].id = task[u].id /\ task'[u].lease = task[u].lease
            /\ task'[u].pc = IF u = t THEN place ELSE task[u].pc
      /\ Used' = Used
      /\ \A id : Once(id)' <=> Once(id)
    BY <1>1, GoesKeeps
<1>3. \A u \in Tasks : Live(u)' => Live(u)
    BY <1>2 DEF Live
<1>4. Unfinished' = Unfinished
  <2>1. place \in {"waiting", "woken", "running", "ended"} \cup Sending
      BY DEF Places, Sending
  <2>2. \A u \in Tasks : (Live(u) \/ task[u].pc = "ended")' <=> (Live(u) \/ task[u].pc = "ended")
      BY <1>2, <2>1 DEF Live
  <2> QED BY <2>2 DEF Unfinished, Tasks
<1>5. Drains'
    BY <1>1, <1>4 DEF IInv, Drains, NeverDrainedEarly, Unfinished
<1>6. Entries'
  <2>1. \A id \in Requests : pending[id] # 0 => pending[id] \in Tasks
      BY DEF IInv, Entries, Used
  <2>2. ASSUME NEW u \in Used', task'[u].pc # "gone", Once(task[u].id)'
        PROVE  pending'[task'[u].id] = u
    <3>1. u \in Used /\ u \in Tasks /\ task'[u].id = task[u].id /\ Once(task[u].id)
      <4>1. u \in Used
          BY <1>2, <2>2
      <4>2. u \in Tasks
          BY <4>1 DEF Used
      <4>3. task'[u].id = task[u].id
          BY <1>2, <4>2
      <4> DEFINE id == task[u].id
      <4>4. id' = id /\ Once(id)'
          BY <2>2, <4>3
      <4> HIDE DEF id
      <4>5. Once(id)
          BY <1>2, <4>4
      <4> QED BY <4>1, <4>2, <4>3, <4>5 DEF id
    <3>2. task[u].pc # "gone"
        BY <1>2, <2>2, <3>1 DEF Live, Sending
    <3> QED BY <3>1, <3>2 DEF IInv, Entries
  <2>3. ASSUME NEW id \in Requests, pending'[id] # 0
        PROVE  pending'[id] \in Used' /\ task'[pending'[id]].id = id
      BY <1>2, <2>1, <2>3 DEF IInv, Entries
  <2> QED BY <2>2, <2>3 DEF Entries, Requests, Tasks
<1> QED BY <1>1, <1>2, <1>3, <1>5, <1>6

\* What is safe stays safe while replies are only added, answered or given up.
LEMMA SafeGrows ==
    ASSUME RepliesSafe, task \in TaskType, closed' = closed,
           \A u \in Tasks : task'[u].id = task[u].id,
           \A id : Once(id)' => Once(id),
           \A id \in Requests : executor[id].answered => executor'[id].answered,
           Executions(buffer) \subseteq Executions(buffer)', gaveUp \subseteq gaveUp',
           \A u \in Tasks : task'[u].pc \in Replied => task[u].pc \in Replied \/ Safe(u)'
    PROVE  RepliesSafe'
<1>1. \A u \in Tasks : task[u].id \in Requests
    BY DEF TaskType
<1>2. ASSUME NEW u \in Tasks, task'[u].pc \in Replied, Once(task[u].id)', ~closed'
      PROVE  Safe(u)'
  <2>1. task'[u].id = task[u].id
      OBVIOUS
  <2> DEFINE id == task[u].id
  <2>2. id' = id /\ Once(id)'
      BY <1>2, <2>1
  <2> HIDE DEF id
  <2>3. Once(id)
      BY <2>2
  <2>4. CASE task[u].pc \in Replied
      BY <1>1, <1>2, <2>1, <2>3, <2>4 DEF RepliesSafe, Safe, id
  <2>5. CASE task[u].pc \notin Replied
      BY <1>2, <2>5
  <2> QED BY <2>4, <2>5
<1> QED BY <1>2 DEF RepliesSafe, Tasks, Replied

-----------------------------------------------------------------------------
(* The requests.                                                            *)

\* A task comes nearer to its function.
LEMMA ForwardIInv ==
    ASSUME IInv, NEW t \in Tasks, task[t].pc \in {"waiting", "woken", "acking"},
           NEW place \in {"woken", "acking", "running"}, Goes(t, place),
           UNCHANGED <<pending, count, buffer, ws, extender, poller, stop, executor,
                       faults, gaveUp>>
    PROVE  IInv'
<1>1. Live(t) /\ place \in Places \ {"unused", "gone", "waiting"}
    BY DEF Live, Sending, Places
<1>2. UNCHANGED <<closing, closed>>
    BY DEF stop
<1>3. /\ task' \in TaskType
      /\ \A u \in Tasks :
           /\ task'[u].id = task[u].id /\ task'[u].lease = task[u].lease
           /\ task'[u].pc = IF u = t THEN place ELSE task[u].pc
           /\ Live(u)' => Live(u)
      /\ Used' = Used
      /\ \A id : Once(id)' <=> Once(id)
      /\ Drains' /\ Entries'
    BY <1>1, <1>2, LiveMoves
<1>4. Types'
    BY <1>2, <1>3 DEF IInv, Types, Sound
<1>5. Numbered'
    BY <1>3, NumberedKept DEF IInv
<1>6. Origins'
  <2>1. \A u \in Used : u \in Used' /\ task'[u].id = task[u].id
      BY <1>3 DEF Used
  <2> QED BY <2>1, OriginsKept DEF IInv
<1>7. Granted'
    BY <1>3, GrantedKept DEF IInv, Types
<1>8. RepliesSafe'
  <2>1. \A u \in Tasks : task'[u].pc \in Replied => task[u].pc \in Replied
      BY <1>3 DEF Replied
  <2>2. Executions(buffer)' = Executions(buffer)
      OBVIOUS
  <2> QED BY <1>2, <1>3, <2>1, <2>2, SafeGrows DEF IInv, Types
<1> QED BY <1>3, <1>4, <1>5, <1>6, <1>7, <1>8 DEF IInv

\* A reply is sent, or cannot be.
LEMMA SentIInv ==
    ASSUME IInv, NEW t \in Tasks, ReplySent(t) \/ ReplyFails(t)
    PROVE  IInv'
<1>1. /\ task[t].pc \in {"replying", "failing"} /\ Goes(t, "ended")
      /\ UNCHANGED <<pending, count, buffer, ws, extender, poller, closing, closed, faults, gaveUp>>
      /\ executor' = executor \/ executor' = Answered(task[t].id)
    BY DEF ReplySent, ReplyFails, stop
<1>2. Live(t) /\ "ended" \in Places \ {"unused", "gone", "waiting"}
    BY <1>1 DEF Live, Sending, Places
<1>3. /\ task' \in TaskType
      /\ \A u \in Tasks :
           /\ task'[u].id = task[u].id /\ task'[u].lease = task[u].lease
           /\ task'[u].pc = IF u = t THEN "ended" ELSE task[u].pc
           /\ Live(u)' => Live(u)
      /\ Used' = Used
      /\ \A id : Once(id)' <=> Once(id)
      /\ Drains' /\ Entries'
    BY <1>1, <1>2, LiveMoves
<1>4. /\ executor' \in ExecutorType
      /\ \A i \in Requests :
           /\ executor'[i].lease = executor[i].lease
           /\ executor'[i].ack = executor[i].ack
           /\ executor'[i].ackLost = executor[i].ackLost
           /\ executor[i].answered => executor'[i].answered
  <2>1. task[t].id \in Requests /\ executor \in ExecutorType
      BY DEF IInv, Types, TaskType
  <2> QED BY <1>1, <2>1, AnsweredKeeps
<1>5. Types'
    BY <1>1, <1>3, <1>4 DEF IInv, Types, Sound
<1>6. Numbered'
    BY <1>1, <1>3, <1>4, NumberedKept DEF IInv
<1>7. Origins'
  <2>1. \A u \in Used : u \in Used' /\ task'[u].id = task[u].id
      BY <1>3 DEF Used
  <2> QED BY <1>1, <2>1, OriginsKept DEF IInv
<1>8. Granted'
    BY <1>3, <1>4, GrantedKept DEF IInv, Types
<1>9. RepliesSafe'
  <2>1. \A u \in Tasks : task'[u].pc \in Replied => task[u].pc \in Replied
      BY <1>1, <1>3 DEF Replied
  <2>2. Executions(buffer)' = Executions(buffer)
      BY <1>1
  <2> QED BY <1>1, <1>3, <1>4, <2>1, <2>2, SafeGrows DEF IInv, Types
<1> QED BY <1>3, <1>5, <1>6, <1>7, <1>8, <1>9 DEF IInv

\* An error outside the function: no reply is kept.
LEMMA RaisesIInv ==
    ASSUME IInv, NEW t \in Tasks, FunctionRaises(t)
    PROVE  IInv'
<1>1. PICK place \in {"failing", "ended"} : Goes(t, place)
    BY DEF FunctionRaises
<1>2. /\ task[t].pc = "running" /\ gaveUp' = gaveUp \cup {t}
      /\ UNCHANGED <<pending, count, buffer, ws, extender, poller, closing, closed, executor, faults>>
    BY DEF FunctionRaises, stop
<1>3. Live(t) /\ place \in Places \ {"unused", "gone", "waiting"}
    BY <1>2 DEF Live, Sending, Places
<1>4. /\ task' \in TaskType
      /\ \A u \in Tasks :
           /\ task'[u].id = task[u].id /\ task'[u].lease = task[u].lease
           /\ task'[u].pc = IF u = t THEN place ELSE task[u].pc
           /\ Live(u)' => Live(u)
      /\ Used' = Used
      /\ \A id : Once(id)' <=> Once(id)
      /\ Drains' /\ Entries'
    BY <1>1, <1>2, <1>3, LiveMoves
<1>5. Types'
    BY <1>2, <1>4 DEF IInv, Types, Sound
<1>6. Numbered'
    BY <1>2, <1>4, NumberedKept DEF IInv
<1>7. Origins'
  <2>1. \A u \in Used : u \in Used' /\ task'[u].id = task[u].id
      BY <1>4 DEF Used
  <2> QED BY <1>2, <2>1, OriginsKept DEF IInv
<1>8. Granted'
    BY <1>2, <1>4, GrantedKept DEF IInv, Types
<1>9. RepliesSafe'
  <2>1. \A u \in Tasks : task'[u].pc \in Replied => task[u].pc \in Replied \/ Safe(u)'
      BY <1>2, <1>4 DEF Replied, Safe
  <2>2. Executions(buffer)' = Executions(buffer)
      BY <1>2
  <2> QED BY <1>2, <1>4, <2>1, <2>2, SafeGrows DEF IInv, Types
<1> QED BY <1>4, <1>5, <1>6, <1>7, <1>8, <1>9 DEF IInv

\* The reply is held before it is sent. What it pushes out of the buffer, and a
\* reply that is too large, is given up; the reply it replaces is of the same
\* request, which was then delivered more than once.
LEMMA RepliesIInv ==
    ASSUME IInv, NEW t \in Tasks, task[t].pc \in {"woken", "acking", "running"},
           NEW bytes \in ReplySizes, Replies(t, bytes),
           UNCHANGED <<pending, count, ws, extender, poller, stop, executor, faults>>
    PROVE  IInv'
<1> DEFINE item == Item(task[t].id, t, bytes)
           place == IF ws THEN "replying" ELSE "ended"
<1>1. /\ Goes(t, place) /\ buffer' = Add(buffer, item)
      /\ gaveUp' = gaveUp
            \cup {u \in Executions(buffer) \ Executions(buffer)' : task[u].id # task[t].id}
            \cup (IF bytes > MaxBytes THEN {t} ELSE {})
      /\ UNCHANGED <<closing, closed>>
    BY DEF Replies, Kept, OutOfSpace, stop
<1>2. Live(t) /\ place \in Places \ {"unused", "gone", "waiting"} /\ t \in Used
    BY DEF Live, Sending, Places, Used
<1>3. /\ task' \in TaskType
      /\ \A u \in Tasks :
           /\ task'[u].id = task[u].id /\ task'[u].lease = task[u].lease
           /\ task'[u].pc = IF u = t THEN place ELSE task[u].pc
           /\ Live(u)' => Live(u)
      /\ Used' = Used
      /\ \A id : Once(id)' <=> Once(id)
      /\ Drains' /\ Entries'
    BY <1>1, <1>2, LiveMoves
<1>4. /\ item \in Reply /\ item.id = task[t].id /\ item.by = t /\ item.bytes = bytes
      /\ task[t].id \in Requests
    BY DEF IInv, Types, TaskType, Item, Reply
<1> HIDE DEF item
<1>5. /\ Sound(Add(buffer, item), Reply)
      /\ ToSet(Add(buffer, item).items) \subseteq ToSet(buffer.items) \cup {item}
      /\ item.bytes <= MaxBytes => item \in ToSet(Add(buffer, item).items)
    BY <1>4, RepliesSized, AddKeeps DEF IInv, Types
<1>6. /\ Sound(buffer', Reply)
      /\ ToSet(buffer'.items) \subseteq ToSet(buffer.items) \cup {item}
      /\ bytes <= MaxBytes => item \in ToSet(buffer'.items)
    BY <1>1, <1>4, <1>5
<1>7. gaveUp' \subseteq Tasks
  <2>1. \A reply \in ToSet(buffer.items) : reply.by \in Tasks
      BY DEF IInv, Origins, Of, Used
  <2>2. Executions(buffer) \subseteq Tasks
      BY <2>1, ExecutionsAre
  <2> QED BY <1>1, <2>2 DEF IInv, Types
<1>8. Types'
  <2>1. Sound(buffer, Reply)'
      BY <1>6 DEF Sound, Reply, Requests, Tasks
  <2> QED BY <1>1, <1>3, <1>7, <2>1 DEF IInv, Types
<1>9. Numbered'
    BY <1>3, NumberedKept DEF IInv
<1>10. Origins'
  <2>1. ASSUME NEW reply \in ToSet(buffer'.items) PROVE Of(reply)'
    <3>1. Of(reply)
      <4>1. CASE reply \in ToSet(buffer.items)
          BY <4>1 DEF IInv, Origins
      <4>2. CASE reply = item
          BY <1>2, <1>4, <4>2 DEF Of
      <4> QED BY <1>6, <2>1, <4>1, <4>2
    <3> QED BY <1>3, <3>1 DEF Of, Used
  <2>2. ASSUME NEW i \in DOMAIN poller PROVE Of(poller[i])'
      BY <1>3, <2>2 DEF IInv, Origins, Of, Used
  <2> QED BY <2>1, <2>2 DEF Origins
<1>11. Granted'
    BY <1>3, GrantedKept DEF IInv, Types
<1>12. RepliesSafe'
  <2> SUFFICES ASSUME NEW u \in Tasks, task'[u].pc \in Replied, Once(task[u].id), ~closed
               PROVE  executor[task[u].id].answered \/ u \in Executions(buffer') \/ u \in gaveUp'
    <3>1. ASSUME NEW u \in Tasks, Once(task[u].id)' PROVE Once(task[u].id)
      <4> DEFINE id == task[u].id
      <4>1. id' = id /\ Once(id)'
          BY <1>3, <3>1
      <4> HIDE DEF id
      <4> QED BY <1>3, <4>1 DEF id
    <3>2. \A u \in Tasks : task'[u].id = task[u].id
        BY <1>3
    <3> QED BY <1>1, <3>1, <3>2 DEF RepliesSafe, Safe, Tasks, Replied
  <2>1. CASE u = t
    <3>1. CASE bytes > MaxBytes
        BY <1>1, <2>1, <3>1
    <3>2. CASE ~(bytes > MaxBytes)
      <4>1. item \in ToSet(buffer'.items)
          BY <1>6, <3>2, MaxBytesAssumption, ExecutionAssumption
      <4>2. \E i \in DOMAIN buffer'.items : buffer'.items[i].by = t
          BY <1>4, <4>1 DEF ToSet
      <4> QED BY <2>1, <4>2 DEF Executions
    <3> QED BY <3>1, <3>2
  <2>2. CASE u # t
    <3>1. task[u].pc \in Replied
        BY <1>3, <2>2
    <3>2. Safe(u)
        BY <3>1 DEF IInv, RepliesSafe
    <3>3. CASE u \in Executions(buffer) /\ u \notin Executions(buffer)' /\ task[u].id = task[t].id
      <4>1. u \in Deliveries(task[u].id) /\ t \in Deliveries(task[u].id)
          BY <1>2, <3>1, <3>3 DEF Deliveries, Used, Replied
      <4> QED BY <2>2, <4>1, OnceIsOne
    <3> QED BY <1>1, <3>2, <3>3 DEF Safe
  <2> QED BY <2>1, <2>2
<1> QED BY <1>3, <1>8, <1>9, <1>10, <1>11, <1>12 DEF IInv

LEMMA ProgressIInv ==
    ASSUME IInv, NEW t \in Tasks, Progress(t)
    PROVE  IInv'
<1>1. CASE Wakes(t)
    BY <1>1, ForwardIInv DEF Wakes
<1>2. CASE WokenSends(t)
    BY <1>2, ForwardIInv DEF WokenSends
<1>3. CASE AckSent(t)
    BY <1>3, ForwardIInv DEF AckSent
<1>4. CASE AckFails(t)
    BY <1>4, RepliesIInv DEF AckFails
<1>5. CASE FunctionEnds(t)
    BY <1>5, RepliesIInv DEF FunctionEnds
<1>6. CASE FunctionRaises(t)
    BY <1>6, RaisesIInv
<1>7. CASE ReplySent(t) \/ ReplyFails(t)
    BY <1>7, SentIInv
<1> QED BY <1>1, <1>2, <1>3, <1>4, <1>5, <1>6, <1>7 DEF Progress

\* The done callback: one task fewer counts, and the counter falls by at most
\* one.
LEMMA DoneIInv ==
    ASSUME IInv, NEW t \in Tasks, Done(t)
    PROVE  IInv'
<1>1. /\ task[t].pc = "ended" /\ Goes(t, "gone") /\ Popped(task[t].id)
      /\ UNCHANGED <<buffer, ws, extender, poller, closing, closed, executor, faults, gaveUp>>
    BY DEF Done, stop
<1>2. t \in Used /\ "gone" \in Places \ {"unused"} /\ task \in TaskType /\ task[t].id \in Requests
    BY <1>1 DEF IInv, Types, TaskType, Used, Places
<1>3. /\ task' \in TaskType
      /\ \A u \in Tasks :
           /\ task'[u].id = task[u].id /\ task'[u].lease = task[u].lease
           /\ task'[u].pc = IF u = t THEN "gone" ELSE task[u].pc
      /\ Used' = Used
      /\ \A id : Once(id)' <=> Once(id)
    BY <1>1, <1>2, GoesKeeps
<1>4. /\ pending' \in [Requests -> 0 .. MaxTasks]
      /\ \A id \in Requests : pending'[id] = IF id = task[t].id THEN 0 ELSE pending[id]
      /\ count' = count \/ count' = count - 1
    BY <1>1, <1>2, ExecutionAssumption DEF IInv, Types, Popped
<1>5. Unfinished' = Unfinished \ {t} /\ t \in Unfinished
  <2>1. \A u \in Tasks : (Live(u) \/ task[u].pc = "ended")'
                            <=> (Live(u) \/ task[u].pc = "ended") /\ u # t
      BY <1>1, <1>3 DEF Live, Sending
  <2> QED BY <1>1, <2>1 DEF Unfinished, Tasks
<1>6. /\ Cardinality(Unfinished') = Cardinality(Unfinished) - 1
      /\ Cardinality(Unfinished) \in Nat /\ Cardinality(Unfinished') \in Nat
      /\ Cardinality(Unfinished) <= count
  <2>1. IsFiniteSet(Unfinished) /\ IsFiniteSet(Unfinished \ {t})
      BY TasksFinite DEF Unfinished
  <2> QED BY <1>5, <2>1, FS_RemoveElement, FS_CardinalityType
          DEF IInv, Drains, NeverDrainedEarly, Unfinished
<1>7. count' \in 0 .. MaxTasks /\ count' <= count /\ Cardinality(Unfinished') <= count'
    BY <1>4, <1>6, ExecutionAssumption DEF IInv, Types
<1>8. Types'
    BY <1>1, <1>3, <1>4, <1>7 DEF IInv, Types, Sound
<1>9. Numbered'
  <2>1. PICK k \in 0 .. MaxTasks :
            Used = 1 .. k /\ count <= k /\ \A id \in Requests : executor[id].lease <= k + faults
      BY DEF IInv, Numbered
  <2>2. count' <= k
      BY <1>7, <2>1, ExecutionAssumption DEF IInv, Types
  <2> QED BY <1>1, <1>3, <2>1, <2>2 DEF Numbered, Requests
<1>10. Drains'
  <2>1. \A u \in Tasks : Live(u)' => Live(u)
      BY <1>3 DEF Live, Sending
  <2> QED BY <1>1, <1>7, <2>1 DEF IInv, Drains, NeverDrainedEarly, Unfinished, Tasks
<1>11. Entries'
  <2>1. ASSUME NEW id \in Requests, pending'[id] # 0
        PROVE  pending'[id] \in Used' /\ task'[pending'[id]].id = id
      BY <1>3, <1>4, <2>1 DEF IInv, Entries, Used
  <2>2. ASSUME NEW u \in Used', task'[u].pc # "gone", Once(task[u].id)'
        PROVE  pending'[task'[u].id] = u
    <3> DEFINE id == task[u].id
    <3>1. u \in Used /\ u \in Tasks /\ u # t /\ id \in Requests /\ task[u].pc # "gone"
        BY <1>2, <1>3, <2>2 DEF Used, TaskType
    <3>2. id' = id /\ Once(id)' /\ task'[u].id = id
        BY <1>3, <2>2, <3>1
    <3> HIDE DEF id
    <3>3. Once(id)
        BY <1>3, <3>2
    <3>4. pending[id] = u
        BY <3>1, <3>3 DEF IInv, Entries, id
    <3>5. id # task[t].id
      <4> SUFFICES ASSUME id = task[t].id PROVE FALSE
          OBVIOUS
      <4>1. u \in Deliveries(id) /\ t \in Deliveries(id)
          BY <1>2, <3>1 DEF Deliveries, id
      <4> QED BY <3>1, <3>3, <4>1, OnceIsOne
    <3> QED BY <1>4, <3>1, <3>2, <3>4, <3>5
  <2> QED BY <2>1, <2>2 DEF Entries, Requests, Tasks
<1>12. Origins'
  <2>1. \A u \in Used : u \in Used' /\ task'[u].id = task[u].id
      BY <1>3 DEF Used
  <2> QED BY <1>1, <2>1, OriginsKept DEF IInv
<1>13. Granted'
  <2>1. \A u \in Tasks : Live(u)' => Live(u)
      BY <1>3 DEF Live, Sending
  <2> QED BY <1>1, <1>3, <2>1, GrantedKept DEF IInv, Types
<1>14. RepliesSafe'
  <2>1. \A u \in Tasks : task'[u].pc \in Replied => task[u].pc \in Replied
      BY <1>1, <1>3 DEF Replied
  <2>2. Executions(buffer)' = Executions(buffer)
      BY <1>1
  <2> QED BY <1>1, <1>2, <1>3, <2>1, <2>2, SafeGrows DEF IInv
<1> QED BY <1>8, <1>9, <1>10, <1>11, <1>12, <1>13, <1>14 DEF IInv

\* A delivery: the next task, which is not the only one of its request when it
\* replaces an entry.
LEMMA ReceiveIInv ==
    ASSUME IInv, NEW id \in Requests, Receive(id)
    PROVE  IInv'
<1>1. /\ ~closing /\ ~closed
      /\ UNCHANGED <<buffer, ws, extender, poller, closing, closed, faults, gaveUp>>
      /\ executor' = [executor EXCEPT ![id].lease = @ + 1, ![id].ack = NoAck,
                                      ![id].refused = FALSE, ![id].ackLost = FALSE]
    BY DEF Receive, stop, IInv, Drains
<1>2. PICK t \in Tasks \ Used :
        /\ \A u \in Tasks \ Used : t <= u
        /\ task' = [task EXCEPT ![t] =
             [id |-> id, pc |-> "waiting", lease |-> executor[id].lease + 1]]
        /\ Added(id, t)
    BY DEF Receive
<1>3. PICK k \in 0 .. MaxTasks :
        Used = 1 .. k /\ count <= k /\ \A i \in Requests : executor[i].lease <= k + faults
    BY DEF IInv, Numbered
<1>4. t = k + 1 /\ k + 1 <= MaxTasks
  <2>1. t \in 1 .. MaxTasks /\ t \notin 1 .. k
      BY <1>2, <1>3 DEF Tasks
  <2>2. k + 1 \in Tasks \ Used
      BY <1>3, <2>1, ExecutionAssumption DEF Tasks
  <2> QED BY <1>2, <2>1, <2>2, ExecutionAssumption
<1>5. executor[id].lease + 1 \in Leases /\ executor[id].lease \in Nat
  <2>1. faults \in 0 .. MaxFaults /\ executor[id].lease \in Leases
      BY DEF IInv, Types, ExecutorType
  <2>2. executor[id].lease \in Nat
      BY <2>1, ExecutionAssumption DEF Leases
  <2>3. executor[id].lease <= k + faults
      BY <1>3
  <2> QED BY <1>4, <2>1, <2>2, <2>3, ExecutionAssumption DEF Leases
<1>6. /\ task' \in TaskType /\ task \in TaskType
      /\ task'[t].id = id /\ task'[t].pc = "waiting" /\ task'[t].lease = executor[id].lease + 1
      /\ \A u \in Tasks : u # t => task'[u] = task[u]
    BY <1>2, <1>5 DEF IInv, Types, TaskType, Places
<1>7. Used' = Used \cup {t} /\ t \notin Used
    BY <1>2, <1>6 DEF Used, Tasks
<1>8. /\ executor' \in ExecutorType
      /\ \A i \in Requests : i # id => executor'[i] = executor[i]
      /\ executor'[id].lease = executor[id].lease + 1 /\ executor'[id].ack = NoAck
      /\ executor'[id].answered = executor[id].answered
  <2>1. NoAck \in Leases /\ executor \in ExecutorType
      BY ExecutionAssumption DEF Leases, NoAck, IInv, Types
  <2> DEFINE new == [executor[id] EXCEPT !.lease = @ + 1, !.ack = NoAck, !.refused = FALSE,
                                       !.ackLost = FALSE]
  <2>2. /\ new \in [answered : BOOLEAN, lease : Leases,
                    ack : Leases \cup {Null}, refused : BOOLEAN,
                    ackLost : BOOLEAN]
        /\ new.lease = executor[id].lease + 1 /\ new.ack = NoAck
        /\ new.answered = executor[id].answered
      BY <1>5, <2>1 DEF ExecutorType
  <2>3. executor' = [executor EXCEPT ![id] = new]
      BY <1>1, <2>1 DEF ExecutorType
  <2> HIDE DEF new
  <2> QED BY <2>1, <2>2, <2>3 DEF ExecutorType
<1>9. /\ pending' \in [Requests -> 0 .. MaxTasks]
      /\ \A i \in Requests : pending'[i] = IF i = id THEN t ELSE pending[i]
      /\ count' = count + 1 /\ count' <= k + 1 /\ count' \in 0 .. MaxTasks
    BY <1>2, <1>3, <1>4, ExecutionAssumption DEF IInv, Types, Added, Tasks
<1>10. \A i : Once(i)' => Once(i)
  <2>1. \A u \in Used : u \in Used' /\ task'[u].id = task[u].id
      BY <1>6, <1>7 DEF Used
  <2> QED BY <2>1, OnceEarlier
<1>11. ASSUME NEW u \in Used, Once(id)' PROVE task[u].id # id
  <2> SUFFICES ASSUME task[u].id = id PROVE FALSE
      OBVIOUS
  <2> DEFINE S == {v \in Used' : task'[v].id = id}
  <2>1. S = Deliveries(id)' /\ Cardinality(S) <= 1
      BY <1>11 DEF Once, Deliveries
  <2>2. S \in SUBSET Tasks
      BY <1>7 DEF Used
  <2>3. u \in S /\ t \in S /\ u # t
      BY <1>6, <1>7 DEF Used
  <2> HIDE DEF S
  <2> QED BY <2>1, <2>2, <2>3, AtMostOne
<1>12. Types'
    BY <1>1, <1>6, <1>8, <1>9 DEF IInv, Types, Sound
<1>13. Numbered'
  <2>1. Used' = 1 .. k + 1 /\ k + 1 \in 0 .. MaxTasks
      BY <1>3, <1>4, <1>7, ExecutionAssumption
  <2>2. ASSUME NEW i \in Requests PROVE executor'[i].lease <= k + 1 + faults'
    <3>1. executor[i].lease \in Nat /\ executor[i].lease <= k + faults /\ faults' \in Nat
          /\ faults' = faults
        BY <1>1, <1>3, ExecutionAssumption DEF IInv, Types, ExecutorType, Leases
    <3> QED BY <1>8, <3>1
  <2> QED BY <1>9, <2>1, <2>2 DEF Numbered, Requests
<1>14. Drains'
  <2>1. Unfinished' = Unfinished \cup {t} /\ t \notin Unfinished
    <3>1. \A u \in Tasks : (Live(u) \/ task[u].pc = "ended")'
                              <=> Live(u) \/ task[u].pc = "ended" \/ u = t
        BY <1>6 DEF Live
    <3>2. task[t].pc = "unused"
        BY <1>2 DEF Used
    <3>3. t \notin Unfinished
        BY <3>2 DEF Unfinished, Live, Sending
    <3> QED BY <1>2, <3>1, <3>3 DEF Unfinished, Tasks
  <2>2. IsFiniteSet(Unfinished)
      BY TasksFinite DEF Unfinished
  <2>3. Cardinality(Unfinished') = Cardinality(Unfinished) + 1
        /\ Cardinality(Unfinished) \in Nat /\ Cardinality(Unfinished) <= count
      BY <2>1, <2>2, FS_AddElement, FS_CardinalityType
         DEF IInv, Drains, NeverDrainedEarly, Unfinished
  <2>4. Cardinality(Unfinished') <= count'
      BY <1>9, <2>3 DEF IInv, Types
  <2> QED BY <1>1, <2>4 DEF Drains, NeverDrainedEarly, Unfinished
<1>15. Entries'
  <2>1. ASSUME NEW i \in Requests, pending'[i] # 0
        PROVE  pending'[i] \in Used' /\ task'[pending'[i]].id = i
    <3>1. CASE i = id
        BY <1>6, <1>7, <1>9, <3>1
    <3>2. CASE i # id
      <4>1. pending'[i] = pending[i] /\ pending[i] \in Used /\ task[pending[i]].id = i
          BY <1>9, <2>1, <3>2 DEF IInv, Entries
      <4>2. pending[i] \in Tasks /\ pending[i] # t
          BY <1>7, <4>1 DEF Used
      <4> QED BY <1>6, <1>7, <4>1, <4>2
    <3> QED BY <3>1, <3>2
  <2>2. ASSUME NEW u \in Used', task'[u].pc # "gone", Once(task[u].id)'
        PROVE  pending'[task'[u].id] = u
    <3>1. CASE u = t
        BY <1>6, <1>9, <3>1
    <3>2. CASE u # t
      <4> DEFINE i == task[u].id
      <4>1. u \in Used /\ u \in Tasks
          BY <1>7, <2>2, <3>2 DEF Used
      <4>2. i \in Requests /\ task'[u] = task[u]
          BY <1>6, <3>2, <4>1 DEF TaskType
      <4>3. i' = i /\ Once(i)' /\ task'[u].id = i /\ task[u].pc # "gone"
          BY <2>2, <4>2
      <4> HIDE DEF i
      <4>4. Once(i)
          BY <1>10, <4>3
      <4>5. pending[i] = u
          BY <4>1, <4>3, <4>4 DEF IInv, Entries, i
      <4>6. i # id
          BY <1>11, <4>1, <4>3 DEF i
      <4> QED BY <1>9, <4>2, <4>3, <4>5, <4>6
    <3> QED BY <3>1, <3>2
  <2> QED BY <2>1, <2>2 DEF Entries, Requests, Tasks
<1>16. Origins'
  <2>1. \A u \in Used : u \in Used' /\ task'[u].id = task[u].id
      BY <1>6, <1>7 DEF Used
  <2> QED BY <1>1, <2>1, OriginsKept DEF IInv
<1>17. Granted'
  <2>1. \A i \in Requests : executor'[i].ack \in {NoAck, Null, executor'[i].lease}
      BY <1>8 DEF IInv, Granted
  <2>2. ASSUME NEW u \in Tasks, Live(u)', Once(task[u].id)', u # t
        PROVE  task[u].lease = executor'[task[u].id].lease \/ Untold(executor'[task[u].id])
    <3> DEFINE i == task[u].id
    <3>1. task'[u] = task[u] /\ i \in Requests /\ Live(u) /\ u \in Used
        BY <1>6, <2>2 DEF TaskType, Live, Used, Sending
    <3>2. i' = i /\ Once(i)'
        BY <2>2, <3>1
    <3> HIDE DEF i
    <3>3. Once(i)
        BY <1>10, <3>2
    <3>4. i # id
        BY <1>11, <3>1, <3>2 DEF i
    <3>5. executor'[i] = executor[i]
        BY <1>8, <3>1, <3>4
    <3> QED BY <3>1, <3>3, <3>5 DEF IInv, Granted, LeaseCurrent, Granting, Untold, i
  <2>3. LeaseCurrent'
    <3>1. \A u \in Tasks : u # t => task'[u] = task[u]
        BY <1>6
    <3>2. task'[t].lease = executor'[task'[t].id].lease
        BY <1>6, <1>8
    <3> QED BY <2>2, <3>1, <3>2 DEF LeaseCurrent, Granting, Untold, Tasks, Null
  <2> QED BY <2>1, <2>3 DEF Granted, Requests, Null
<1>18. RepliesSafe'
  <2>1. ASSUME NEW u \in Tasks, task'[u].pc \in Replied, Once(task[u].id)'
        PROVE  Safe(u)'
    <3> DEFINE i == task[u].id
    <3>1. u # t /\ task'[u] = task[u] /\ i \in Requests
        BY <1>6, <2>1 DEF Replied, TaskType
    <3>2. i' = i /\ Once(i)'
        BY <2>1, <3>1
    <3> HIDE DEF i
    <3>3. Once(i)
        BY <1>10, <3>2
    <3>4. Safe(u)
        BY <1>1, <2>1, <3>1, <3>3 DEF IInv, RepliesSafe, i
    <3>5. executor'[i].answered = executor[i].answered
        BY <1>8, <3>1
    <3>6. Executions(buffer)' = Executions(buffer) /\ gaveUp' = gaveUp
        BY <1>1
    <3> QED BY <3>1, <3>4, <3>5, <3>6 DEF Safe, i
  <2>2. task'[t].pc \notin Replied
      BY <1>6 DEF Replied
  <2> QED BY <2>1, <2>2 DEF RepliesSafe, Tasks, Replied
<1> QED BY <1>12, <1>13, <1>14, <1>15, <1>16, <1>17, <1>18 DEF IInv

-----------------------------------------------------------------------------
(* Steps that leave the tasks and their entries alone.                      *)

LEMMA RequestsStill ==
    ASSUME UNCHANGED requests
    PROVE  /\ Used' = Used /\ Unfinished' = Unfinished
           /\ \A id : (Once(id)' <=> Once(id)) /\ Deliveries(id)' = Deliveries(id)
           /\ \A t \in Tasks : Live(t)' <=> Live(t)
           /\ \A reply : Of(reply)' <=> Of(reply)
           /\ Entries => Entries'
<1>1. task' = task /\ pending' = pending
    BY DEF requests
<1>2. Used' = Used
    BY <1>1 DEF Used, Tasks
<1>3. \A id : (Once(id)' <=> Once(id)) /\ Deliveries(id)' = Deliveries(id)
    BY <1>1, <1>2 DEF Once, Deliveries
<1>4. /\ \A t \in Tasks : Live(t)' <=> Live(t)
      /\ \A reply : Of(reply)' <=> Of(reply)
    BY <1>1, <1>2 DEF Live, Of
<1>5. Unfinished' = Unfinished
    BY <1>1, <1>4 DEF Unfinished, Tasks
<1>6. Entries => Entries'
    BY <1>1, <1>2, <1>3 DEF Entries, Requests, Once, Deliveries
<1> QED BY <1>2, <1>3, <1>4, <1>5, <1>6

LEMMA DrainsKept ==
    ASSUME Drains, UNCHANGED requests, closed' = closed, closing => closing'
    PROVE  Drains'
<1>1. Unfinished' = Unfinished /\ (\A t \in Tasks : Live(t)' <=> Live(t)) /\ count' = count
    BY RequestsStill DEF requests
<1> QED BY <1>1 DEF Drains, NeverDrainedEarly, Unfinished, Tasks

\* Only what is about the reply's request changes: the reply is removed, and
\* the Executor has it, or it is given up, or the handlers close.
LEMMA SettledKeeps ==
    ASSUME IInv, UNCHANGED requests, faults' = faults,
           NEW id \in Requests, buffer' = Delete(buffer, id),
           executor' = executor \/ executor' = Answered(id),
           gaveUp \subseteq gaveUp', closed => closed',
           \/ closed' \/ executor'[id].answered
           \/ Once(id) => Deliveries(id) \subseteq gaveUp'
    PROVE  /\ Sound(buffer, Reply)' /\ executor' \in ExecutorType
           /\ \A reply \in ToSet(buffer'.items) : Of(reply)'
           /\ Numbered' /\ Entries' /\ Granted' /\ RepliesSafe'
<1>1. /\ Used' = Used
      /\ \A i : (Once(i)' <=> Once(i)) /\ Deliveries(i)' = Deliveries(i)
      /\ \A t \in Tasks : Live(t)' <=> Live(t)
      /\ \A reply : Of(reply)' <=> Of(reply)
      /\ Entries'
    BY RequestsStill DEF IInv
<1>2. task' = task /\ task \in TaskType /\ count' = count /\ executor \in ExecutorType
    BY DEF requests, IInv, Types
<1>3. /\ Sound(Delete(buffer, id), Reply)
      /\ ToSet(Delete(buffer, id).items) = {reply \in ToSet(buffer.items) : reply.id # id}
    BY RepliesSized, DeleteKeeps DEF IInv, Types
<1>4. Sound(buffer, Reply)'
    BY <1>3 DEF Sound, Reply, Requests, Tasks
<1>5. /\ executor' \in ExecutorType
      /\ \A i \in Requests : /\ executor'[i].lease = executor[i].lease
                             /\ executor'[i].ack = executor[i].ack
                             /\ executor'[i].ackLost = executor[i].ackLost
                             /\ executor[i].answered => executor'[i].answered
    BY <1>2, AnsweredKeeps
<1>6. \A reply \in ToSet(buffer'.items) : Of(reply)'
    BY <1>1, <1>3 DEF IInv, Origins
<1>7. Numbered'
    BY <1>1, <1>2, <1>5, NumberedKept DEF IInv
<1>8. Granted'
    BY <1>1, <1>2, <1>5, GrantedKept DEF IInv
<1>9. RepliesSafe'
  <2>1. ASSUME NEW t \in Tasks, task[t].pc \in Replied, Once(task[t].id), ~closed'
        PROVE  Safe(t)'
    <3>1. Safe(t) /\ task[t].id \in Requests /\ t \in Used
        BY <1>2, <2>1 DEF IInv, RepliesSafe, TaskType, Used, Replied
    <3>2. CASE executor[task[t].id].answered \/ t \in gaveUp
        BY <1>2, <1>5, <3>1, <3>2 DEF Safe
    <3>3. CASE t \in Executions(buffer)
      <4>1. PICK reply \in ToSet(buffer.items) : reply.by = t
          BY <3>3, ExecutionsAre
      <4>2. reply.id = task[t].id
          BY <4>1 DEF IInv, Origins, Of
      <4>3. CASE reply.id # id
        <5>1. reply \in ToSet(buffer'.items)
            BY <1>3, <4>1, <4>3
        <5>2. t \in Executions(buffer)'
            BY <4>1, <5>1 DEF Executions, ToSet
        <5> QED BY <5>2 DEF Safe
      <4>4. CASE reply.id = id
        <5>1. t \in Deliveries(id) /\ Once(id)
            BY <2>1, <3>1, <4>2, <4>4 DEF Deliveries
        <5> QED BY <1>2, <2>1, <4>2, <4>4, <5>1 DEF Safe
      <4> QED BY <4>3, <4>4
    <3> QED BY <3>1, <3>2, <3>3 DEF Safe
  <2>2. \A t \in Tasks : Once(task[t].id)' <=> Once(task[t].id)
    <3> SUFFICES ASSUME NEW t \in Tasks PROVE Once(task[t].id)' <=> Once(task[t].id)
        OBVIOUS
    <3> DEFINE i == task[t].id
    <3>1. i' = i
        BY <1>2
    <3> HIDE DEF i
    <3>2. Once(i)' <=> Once(i)
        BY <1>1, <3>1
    <3> QED BY <3>2 DEF i
  <2> QED BY <1>2, <2>1, <2>2 DEF RepliesSafe, Tasks, Replied
<1> QED BY <1>1, <1>4, <1>5, <1>6, <1>7, <1>8, <1>9

LEMMA ReplyAckIInv ==
    ASSUME IInv, NEW id \in Requests, ReplyAck(id)
    PROVE  IInv'
<1>1. /\ executor[id].answered /\ buffer' = Delete(buffer, id) /\ UNCHANGED requests
      /\ UNCHANGED <<ws, extender, poller, closing, closed, executor, faults, gaveUp>>
    BY DEF ReplyAck, stop
<1>2. /\ Sound(buffer, Reply)' /\ executor' \in ExecutorType
      /\ \A reply \in ToSet(buffer'.items) : Of(reply)'
      /\ Numbered' /\ Entries' /\ Granted' /\ RepliesSafe'
    BY <1>1, SettledKeeps
<1>3. Drains'
    BY <1>1, DrainsKept DEF IInv
<1>4. Origins'
    BY <1>1, <1>2, RequestsStill DEF IInv, Origins
<1>5. Types'
    BY <1>1, <1>2 DEF IInv, Types, requests
<1> QED BY <1>2, <1>3, <1>4, <1>5 DEF IInv

\* What a flush leaves: the first reply of the round is settled.
LEMMA FlushedKeeps ==
    ASSUME IInv, UNCHANGED requests, faults' = faults, poller # << >>,
           NEW arrived \in BOOLEAN, Flushed(Head(poller), arrived), closed => closed'
    PROVE  /\ Sound(buffer, Reply)' /\ executor' \in ExecutorType
           /\ \A reply \in ToSet(buffer'.items) : Of(reply)'
           /\ Numbered' /\ Entries' /\ Granted' /\ RepliesSafe'
           /\ gaveUp' \subseteq Tasks
<1> DEFINE reply == Head(poller)
<1>1. poller \in Seq(Reply) /\ reply = poller[1] /\ 1 \in DOMAIN poller
    BY DEF IInv, Types
<1>2. reply.id \in Requests /\ reply.by \in Used /\ task[reply.by].id = reply.id
      /\ reply.by \in Tasks
  <2>1. poller[1] \in Reply
      BY <1>1
  <2>2. Of(reply)
      BY <1>1 DEF IInv, Origins
  <2> QED BY <1>1, <2>1, <2>2 DEF Of, Reply, Used
<1>3. /\ buffer' = Delete(buffer, reply.id)
      /\ executor' = IF arrived THEN Answered(reply.id) ELSE executor
      /\ gaveUp' = IF arrived THEN gaveUp ELSE gaveUp \cup {reply.by}
    BY DEF Flushed, AfterFlush
<1> HIDE DEF reply
<1>4. executor'[reply.id].answered \/ (Once(reply.id) => Deliveries(reply.id) \subseteq gaveUp')
  <2>1. CASE arrived
      BY <1>2, <1>3, <2>1, AnsweredKeeps DEF IInv, Types
  <2>2. CASE ~arrived
    <3>1. reply.by \in Deliveries(reply.id) /\ reply.by \in gaveUp'
        BY <1>2, <1>3, <2>2 DEF Deliveries
    <3> QED BY <3>1, OnceIsOne
  <2> QED BY <2>1, <2>2
<1> QED BY <1>2, <1>3, <1>4, SettledKeeps DEF IInv, Types

LEMMA FlushEndsIInv ==
    ASSUME IInv, FlushEnds
    PROVE  IInv'
<1>1. PICK arrived \in BOOLEAN : Flushed(Head(poller), arrived)
    BY DEF FlushEnds
<1>2. /\ poller # << >> /\ poller' = Tail(poller) /\ UNCHANGED requests
      /\ UNCHANGED <<ws, extender, closing, closed, faults>>
    BY DEF FlushEnds, stop
<1>3. /\ Sound(buffer, Reply)' /\ executor' \in ExecutorType
      /\ \A reply \in ToSet(buffer'.items) : Of(reply)'
      /\ Numbered' /\ Entries' /\ Granted' /\ RepliesSafe'
      /\ gaveUp' \subseteq Tasks
    BY <1>1, <1>2, FlushedKeeps
<1>4. /\ poller' \in Seq(Reply)
      /\ \A i \in DOMAIN poller' : i + 1 \in DOMAIN poller /\ poller'[i] = poller[i + 1]
    BY <1>2, HeadTailProperties DEF IInv, Types
<1>5. Drains'
    BY <1>2, DrainsKept DEF IInv
<1>6. Origins'
  <2>1. \A reply : Of(reply)' <=> Of(reply)
      BY <1>2, RequestsStill
  <2>2. ASSUME NEW i \in DOMAIN poller' PROVE Of(poller[i + 1])
      BY <1>4 DEF IInv, Origins
  <2>3. ASSUME NEW i \in DOMAIN poller' PROVE (Of(poller[i]))'
      BY <1>2, <1>4, <2>2 DEF Of, requests, Used, Tasks
  <2> QED BY <1>3, <2>3 DEF Origins
<1>7. Types'
    BY <1>2, <1>3, <1>4 DEF IInv, Types, requests, Reply, Requests, Tasks
<1> QED BY <1>3, <1>5, <1>6, <1>7 DEF IInv

\* The close sequence: the counter is zero, so no task is left.
LEMMA DrainedIInv ==
    ASSUME IInv, Drained
    PROVE  IInv'
<1>1. /\ closing /\ count = 0 /\ closed' = TRUE /\ closing' = closing
      /\ extender' = [left |-> {}, sending |-> 0] /\ poller' = << >>
      /\ UNCHANGED requests /\ UNCHANGED <<ws, faults>>
    BY DEF Drained
<1>2. /\ Sound(buffer, Reply)' /\ executor' \in ExecutorType
      /\ \A reply \in ToSet(buffer'.items) : Of(reply)'
      /\ Numbered' /\ Entries' /\ Granted' /\ RepliesSafe'
      /\ gaveUp' \subseteq Tasks
  <2>1. CASE poller # << >>
    <3>1. Flushed(Head(poller), FALSE)
        BY <2>1 DEF Drained
    <3> QED BY <1>1, <2>1, <3>1, FlushedKeeps
  <2>2. CASE poller = << >>
    <3>1. UNCHANGED <<buffer, executor, gaveUp>>
        BY <2>2 DEF Drained
    <3>2. Numbered'
      <4>1. Used' = Used /\ count' = count
          BY <1>1, RequestsStill DEF requests
      <4> QED BY <1>1, <3>1, <4>1, NumberedKept DEF IInv
    <3>3. Granted'
      <4>1. task' = task
          BY <1>1 DEF requests
      <4> QED BY <1>1, <3>1, <4>1, RequestsStill, GrantedKept DEF IInv, Types
    <3>4. RepliesSafe'
        BY <1>1 DEF RepliesSafe
    <3> QED BY <1>1, <3>1, <3>2, <3>3, <3>4, RequestsStill
        DEF IInv, Types, Sound, Origins
  <2> QED BY <2>1, <2>2
<1>3. Drains'
  <2>1. Cardinality(Unfinished) <= 0 /\ IsFiniteSet(Unfinished)
      BY <1>1, TasksFinite DEF IInv, Drains, NeverDrainedEarly, Unfinished
  <2>2. Unfinished = {}
      BY <2>1, FS_CardinalityType, FS_EmptySet
  <2>3. \A t \in Tasks : ~Live(t)
      BY <2>2 DEF Unfinished
  <2>4. Unfinished' = Unfinished /\ count' = count /\ \A t \in Tasks : ~Live(t)'
      BY <1>1, <2>3, RequestsStill DEF requests
  <2> QED BY <1>1, <2>1, <2>4 DEF Drains, NeverDrainedEarly, Unfinished, Tasks
<1>4. Origins'
    BY <1>1, <1>2 DEF Origins
<1>5. Types'
  <2>1. extender' \in [left : SUBSET Tasks, sending : 0 .. MaxTasks] /\ poller' \in Seq(Reply)
      BY <1>1, ExecutionAssumption
  <2> QED BY <1>1, <1>2, <2>1 DEF IInv, Types, requests, Reply, Requests, Tasks
<1> QED BY <1>2, <1>3, <1>4, <1>5 DEF IInv

\* The extender, the poller and the connection touch neither tasks nor replies.
LEMMA AsideIInv ==
    ASSUME IInv, UNCHANGED <<requests, buffer, executor, closed, gaveUp, faults>>,
           ws' \in BOOLEAN, closing' \in BOOLEAN, closing => closing',
           extender' \in [left : SUBSET Tasks, sending : 0 .. MaxTasks],
           poller' \in Seq(Reply), \A i \in DOMAIN poller' : Of(poller'[i])
    PROVE  IInv'
<1>1. UNCHANGED requests /\ UNCHANGED <<task, pending, count, buffer, executor, closed, gaveUp, faults>>
    BY DEF requests
<1>2. Types'
    BY <1>1 DEF IInv, Types, Sound
<1>3. Numbered'
    BY <1>1, RequestsStill, NumberedKept DEF IInv
<1>4. Drains'
    BY <1>1, DrainsKept DEF IInv
<1>5. Entries'
    BY <1>1, RequestsStill DEF IInv
<1>6. Origins'
    BY <1>1, RequestsStill DEF IInv, Origins, Of, Used, Tasks
<1>7. Granted'
    BY <1>1, RequestsStill, GrantedKept DEF IInv, Types
<1>8. RepliesSafe'
    BY <1>1 DEF IInv, RepliesSafe, Safe, Executions, Once, Deliveries, Used, Tasks, Replied
<1> QED BY <1>2, <1>3, <1>4, <1>5, <1>6, <1>7, <1>8 DEF IInv

LEMMA ExtendNextTyped ==
    ASSUME NEW left \in SUBSET Tasks, ExtendNext(left)
    PROVE  extender' \in [left : SUBSET Tasks, sending : 0 .. MaxTasks]
<1>1. Tasks \subseteq 0 .. MaxTasks
    BY ExecutionAssumption DEF Tasks
<1>2. CASE left = {} \/ ~ws
  <2>1. extender' = [left |-> {}, sending |-> 0]
      BY <1>2 DEF ExtendNext
  <2> QED BY <2>1, ExecutionAssumption
<1>3. CASE ~(left = {} \/ ~ws)
  <2>1. PICK t \in left : extender' = [left |-> left \ {t}, sending |-> t]
      BY <1>3 DEF ExtendNext
  <2> QED BY <1>1, <2>1
<1> QED BY <1>2, <1>3

LEMMA ExtenderIInv ==
    ASSUME IInv, ExtendRound \/ ExtendFails
    PROVE  IInv'
<1>1. extender' \in [left : SUBSET Tasks, sending : 0 .. MaxTasks]
  <2>1. CASE ExtendRound
    <3>1. {pending[id] : id \in Requests} \ {0} \in SUBSET Tasks
        BY ExecutionAssumption DEF IInv, Types, Tasks
    <3> QED BY <2>1, <3>1, ExtendNextTyped DEF ExtendRound
  <2>2. CASE ExtendFails
      BY <2>2, ExtendNextTyped DEF ExtendFails, IInv, Types
  <2> QED BY <2>1, <2>2
<1>2. /\ UNCHANGED <<requests, buffer, executor, closed, gaveUp, faults>>
      /\ ws' \in BOOLEAN /\ closing' = closing /\ closing' \in BOOLEAN /\ poller' = poller
    BY DEF ExtendRound, ExtendFails, stop, IInv, Types
<1> QED BY <1>1, <1>2, AsideIInv DEF IInv, Types, Origins

LEMMA FlushRoundIInv ==
    ASSUME IInv, FlushRound
    PROVE  IInv'
<1>1. PICK n \in DOMAIN buffer.items : poller' = SubSeq(buffer.items, 1, n)
    BY DEF FlushRound, OlderThanTtl
<1>2. /\ UNCHANGED <<requests, buffer, executor, closed, gaveUp, faults>>
      /\ ws' \in BOOLEAN /\ closing' = closing /\ closing' \in BOOLEAN /\ extender' = extender
    BY DEF FlushRound, stop, IInv, Types
<1>3. /\ poller' \in Seq(Reply)
      /\ \A i \in DOMAIN poller' : i \in DOMAIN buffer.items /\ poller'[i] = buffer.items[i]
  <2>1. buffer.items \in Seq(Reply) /\ n \in 1 .. Len(buffer.items) /\ Len(buffer.items) \in Nat
      BY <1>1 DEF IInv, Types, Sound
  <2>2. \A i \in 1 .. n : buffer.items[i] \in Reply
      BY <2>1
  <2>3. /\ poller' \in Seq(Reply) /\ Len(poller') = n
        /\ \A i \in 1 .. n - 1 + 1 : poller'[i] = buffer.items[1 + i - 1]
      BY <1>1, <2>1, <2>2, SubSeqProperties
  <2>4. \A i \in 1 .. n : i \in 1 .. n - 1 + 1 /\ 1 + i - 1 = i
      BY <2>1
  <2>5. DOMAIN poller' = 1 .. n /\ DOMAIN buffer.items = 1 .. Len(buffer.items)
      BY <2>1, <2>3
  <2> QED BY <2>1, <2>3, <2>4, <2>5
<1>4. \A i \in DOMAIN poller' : Of(poller'[i])
    BY <1>3 DEF IInv, Origins, ToSet
<1> QED BY <1>2, <1>3, <1>4, AsideIInv DEF IInv, Types

LEMMA CloseIInv ==
    ASSUME IInv, Close \/ Reconnect
    PROVE  IInv'
<1>1. /\ UNCHANGED <<requests, buffer, executor, closed, gaveUp, faults>>
      /\ ws' \in BOOLEAN /\ closing' \in BOOLEAN /\ (closing => closing')
      /\ poller' = poller /\ extender' = extender
    BY DEF Close, Reconnect, stop, IInv, Types
<1> QED BY <1>1, AsideIInv DEF IInv, Types, Origins

\* The Executor's answers to a lease extension, and what a lost WebSocket takes
\* with it: only leases and acknowledgements change, and who is not told of the
\* lease in force has an acknowledgement on its way or lost one.
LEMMA LeasesIInv ==
    ASSUME IInv, UNCHANGED <<requests, buffer, poller, closing, closed, gaveUp>>,
           ws' \in BOOLEAN, extender' \in [left : SUBSET Tasks, sending : 0 .. MaxTasks],
           faults' \in 0 .. MaxFaults, executor' \in ExecutorType,
           faults <= faults',
           \A id \in Requests :
                /\ executor'[id].answered = executor[id].answered
                /\ executor'[id].lease <= executor[id].lease + (faults' - faults)
                /\ executor'[id].ack \in {NoAck, Null, executor'[id].lease}
                /\ \/ Untold(executor'[id])
                   \/ executor'[id].lease = executor[id].lease /\ ~Untold(executor[id])
    PROVE  IInv'
<1>1. UNCHANGED requests /\ UNCHANGED <<task, pending, count>>
    BY DEF requests
<1>2. Types'
    BY <1>1 DEF IInv, Types, Sound
<1>3. Numbered'
  <2>1. PICK k \in 0 .. MaxTasks :
            Used = 1 .. k /\ count <= k /\ \A id \in Requests : executor[id].lease <= k + faults
      BY DEF IInv, Numbered
  <2>2. ASSUME NEW id \in Requests PROVE executor'[id].lease <= k + faults'
    <3>1. /\ executor[id].lease \in Nat /\ executor'[id].lease \in Nat
          /\ faults \in Nat /\ faults' \in Nat /\ executor[id].lease <= k + faults
        BY <2>1, ExecutionAssumption DEF IInv, Types, ExecutorType, Leases
    <3> QED BY <3>1
  <2> QED BY <1>1, <2>1, <2>2, RequestsStill DEF Numbered, Requests
<1>4. Drains'
    BY <1>1, DrainsKept DEF IInv
<1>5. Entries'
    BY <1>1, RequestsStill DEF IInv
<1>6. Origins'
    BY <1>1, RequestsStill DEF IInv, Origins, Of, Used, Tasks
<1>7. Granted'
  <2>1. ASSUME NEW t \in Tasks, Live(t), Once(task[t].id)
        PROVE  task[t].lease = executor'[task[t].id].lease \/ Untold(executor'[task[t].id])
    <3>1. task[t].id \in Requests
        BY DEF IInv, Types, TaskType
    <3>2. task[t].lease = executor[task[t].id].lease \/ Untold(executor[task[t].id])
        BY <2>1 DEF IInv, Granted, LeaseCurrent, Granting, Untold
    <3> QED BY <3>1, <3>2
  <2>2. LeaseCurrent'
      BY <1>1, <2>1
         DEF LeaseCurrent, Granting, Untold, Live, Once, Deliveries, Used, Tasks, Null
  <2> QED BY <2>2 DEF Granted, Requests, Null
<1>8. RepliesSafe'
  <2>1. \A t \in Tasks : task[t].id \in Requests
      BY DEF IInv, Types, TaskType
  <2> QED BY <1>1, <2>1 DEF IInv, RepliesSafe, Safe, Executions, Once, Deliveries, Used, Tasks, Replied
<1> QED BY <1>2, <1>3, <1>4, <1>5, <1>6, <1>7, <1>8 DEF IInv

LEMMA ExtendedIInv ==
    ASSUME IInv, Extended
    PROVE  IInv'
<1> DEFINE t == extender.sending
           id == task[t].id
<1>1. /\ t \in Tasks /\ id \in Requests /\ faults \in 0 .. MaxFaults
      /\ executor \in ExecutorType /\ executor[id].lease \in Nat
      /\ \A i \in Requests : executor[i].ack \in {NoAck, Null, executor[i].lease}
    BY ExecutionAssumption
       DEF IInv, Types, TaskType, ExecutorType, Leases, Extended, Tasks, Granted
<1>2. /\ UNCHANGED <<requests, buffer, poller, closing, closed, gaveUp>> /\ ws' \in BOOLEAN
      /\ IF executor[id].ack = NoAck THEN Renews(id, task[t].lease)
         ELSE Overtaken(id, task[t].lease)
    BY DEF Extended, stop, IInv, Types
<1>3. extender' \in [left : SUBSET Tasks, sending : 0 .. MaxTasks]
    BY ExtendNextTyped DEF Extended, IInv, Types
<1>4. \A i \in Requests : executor[i].lease \in Nat
    BY <1>1, ExecutionAssumption DEF ExecutorType, Leases
<1> HIDE DEF t, id
<1>5. CASE UNCHANGED <<executor, faults>>
    BY <1>1, <1>5, <1>2, <1>3, <1>4, AsideIInv DEF IInv, Types, Origins
<1>6. CASE /\ faults < MaxFaults /\ faults' = faults + 1 /\ executor[id].ack = NoAck
           /\ executor' = [executor EXCEPT ![id].lease = @ + 1,
                                           ![id].ack = executor[id].lease + 1]
  <2> DEFINE lease == executor[id].lease + 1
             new == [executor[id] EXCEPT !.lease = lease, !.ack = lease]
  <2>1. lease \in Leases /\ lease \notin {NoAck, Null} /\ lease \in Nat
    <3>1. PICK k \in 0 .. MaxTasks : \A i \in Requests : executor[i].lease <= k + faults
        BY DEF IInv, Numbered
    <3>2. executor[id].lease <= k + faults
        BY <1>1, <3>1
    <3> QED BY <1>1, <1>6, <3>2, ExecutionAssumption DEF Leases, NoAck, Null
  <2> HIDE DEF lease
  <2>2. /\ new \in [answered : BOOLEAN, lease : Leases,
                    ack : Leases \cup {Null}, refused : BOOLEAN,
                    ackLost : BOOLEAN]
        /\ new.lease = lease /\ new.ack = lease
        /\ new.answered = executor[id].answered
      BY <1>1, <2>1 DEF ExecutorType
  <2>3. executor' = [executor EXCEPT ![id] = new]
      BY <1>1, <1>6 DEF ExecutorType, lease
  <2> HIDE DEF new
  <2>4. executor' \in ExecutorType /\ executor'[id] = new
        /\ \A i \in Requests : i # id => executor'[i] = executor[i]
      BY <1>1, <2>2, <2>3 DEF ExecutorType
  <2>5. faults' \in 0 .. MaxFaults /\ faults <= faults' /\ faults' - faults = 1
      BY <1>1, <1>6, ExecutionAssumption
  <2>6. ASSUME NEW i \in Requests
        PROVE /\ executor'[i].answered = executor[i].answered
              /\ executor'[i].lease <= executor[i].lease + (faults' - faults)
              /\ executor'[i].ack \in {NoAck, Null, executor'[i].lease}
              /\ \/ Untold(executor'[i])
                 \/ executor'[i].lease = executor[i].lease /\ ~Untold(executor[i])
    <3>1. CASE i = id
      <4>1. /\ executor'[i].answered = executor[i].answered
            /\ executor'[i].lease = lease /\ executor'[i].ack = lease
          BY <2>2, <2>4, <3>1
      <4>2. executor'[i].lease = executor[i].lease + (faults' - faults)
          BY <1>1, <2>5, <3>1, <4>1 DEF lease
      <4> QED BY <1>4, <2>1, <4>1, <4>2 DEF Untold
    <3>2. CASE i # id
        BY <1>1, <1>4, <2>4, <2>5, <3>2
    <3> QED BY <3>1, <3>2
  <2> QED BY <1>2, <1>3, <2>4, <2>5, <2>6, LeasesIInv
<1>7. CASE /\ faults' = faults \/ (faults < MaxFaults /\ faults' = faults + 1)
           /\ executor[id].ack = NoAck
           /\ executor' = [executor EXCEPT ![id].ack = Null]
  <2>1. executor' \in ExecutorType
        /\ \A i \in Requests : /\ executor'[i].answered = executor[i].answered
                               /\ executor'[i].lease = executor[i].lease
                               /\ executor'[i].ackLost = executor[i].ackLost
                               /\ executor'[i].ack = IF i = id THEN Null ELSE executor[i].ack
      BY <1>1, <1>7 DEF ExecutorType
  <2>2. faults' \in 0 .. MaxFaults /\ faults <= faults' /\ faults' - faults \in 0 .. 1
      BY <1>1, <1>7, ExecutionAssumption
  <2>3. \A i \in Requests : Untold(executor'[i]) <=> Untold(executor[i])
      BY <1>7, <2>1 DEF Untold
  <2>4. ASSUME NEW i \in Requests
        PROVE /\ executor'[i].answered = executor[i].answered
              /\ executor'[i].lease <= executor[i].lease + (faults' - faults)
              /\ executor'[i].ack \in {NoAck, Null, executor'[i].lease}
              /\ \/ Untold(executor'[i])
                 \/ executor'[i].lease = executor[i].lease /\ ~Untold(executor[i])
      BY <1>1, <1>4, <2>1, <2>2, <2>3
  <2> QED BY <1>2, <1>3, <2>1, <2>2, <2>4, LeasesIInv
<1>8. CASE faults' = faults /\ executor' = [executor EXCEPT ![id].refused = TRUE]
  <2>1. executor' \in ExecutorType
        /\ \A i \in Requests : /\ executor'[i].answered = executor[i].answered
                               /\ executor'[i].lease = executor[i].lease
                               /\ executor'[i].ackLost = executor[i].ackLost
                               /\ executor'[i].ack = executor[i].ack
      BY <1>1, <1>8 DEF ExecutorType
  <2>2. faults' \in 0 .. MaxFaults /\ faults <= faults' /\ faults' - faults = 0
      BY <1>1, <1>8, ExecutionAssumption
  <2>3. \A i \in Requests : Untold(executor'[i]) <=> Untold(executor[i])
      BY <2>1 DEF Untold
  <2>4. ASSUME NEW i \in Requests
        PROVE /\ executor'[i].answered = executor[i].answered
              /\ executor'[i].lease <= executor[i].lease + (faults' - faults)
              /\ executor'[i].ack \in {NoAck, Null, executor'[i].lease}
              /\ \/ Untold(executor'[i])
                 \/ executor'[i].lease = executor[i].lease /\ ~Untold(executor[i])
      BY <1>1, <1>4, <2>1, <2>2, <2>3
  <2> QED BY <1>2, <1>3, <2>1, <2>2, <2>4, LeasesIInv
<1>9. CASE executor[id].ack = NoAck
    BY <1>2, <1>5, <1>6, <1>7, <1>9 DEF Renews
<1>10. CASE executor[id].ack # NoAck
    BY <1>2, <1>5, <1>8, <1>10 DEF Overtaken
<1> QED BY <1>9, <1>10

LEMMA DropIInv ==
    ASSUME IInv, Drop
    PROVE  IInv'
<1>1. /\ UNCHANGED <<requests, buffer, poller, closing, closed, gaveUp>> /\ ws' \in BOOLEAN
      /\ extender' = extender /\ faults < MaxFaults /\ faults' = faults + 1
      /\ executor \in ExecutorType /\ faults \in 0 .. MaxFaults
      /\ extender \in [left : SUBSET Tasks, sending : 0 .. MaxTasks]
    BY DEF Drop, stop, IInv, Types
<1>2. NoAck \in Leases
    BY ExecutionAssumption DEF NoAck, Leases
<1>3. executor' \in ExecutorType
      /\ \A i \in Requests : /\ executor'[i].answered = executor[i].answered
                             /\ executor'[i].lease = executor[i].lease
                             /\ executor'[i].ack = NoAck
                             /\ executor'[i].ackLost <=> Untold(executor[i])
    BY <1>1, <1>2 DEF Drop, ExecutorType, Granting, Untold
<1>4. faults' \in 0 .. MaxFaults /\ faults <= faults' /\ faults' - faults = 1
    BY <1>1, ExecutionAssumption
<1>5. \A i \in Requests : executor[i].lease \in Nat
    BY <1>1, ExecutionAssumption DEF ExecutorType, Leases
<1>6. ASSUME NEW i \in Requests
      PROVE /\ executor'[i].answered = executor[i].answered
            /\ executor'[i].lease <= executor[i].lease + (faults' - faults)
            /\ executor'[i].ack \in {NoAck, Null, executor'[i].lease}
            /\ \/ Untold(executor'[i])
               \/ executor'[i].lease = executor[i].lease /\ ~Untold(executor[i])
    BY <1>3, <1>4, <1>5 DEF Untold
<1> QED BY <1>1, <1>3, <1>4, <1>6, LeasesIInv

\* The acknowledgement arrives: the entry's task carries the lease it grants, or
\* ends. A task without an entry is not the only one of its request.
LEMMA LeaseAckIInv ==
    ASSUME IInv, NEW id \in Requests, LeaseAck(id)
    PROVE  IInv'
<1> DEFINE ack == executor[id].ack
           t == pending[id]
<1>1. /\ UNCHANGED <<pending, count, buffer, ws, extender, poller, closing, closed, faults>>
      /\ ack # NoAck
      /\ executor' = [executor EXCEPT
                ![id].ack = IF executor[id].refused THEN Null ELSE NoAck,
                ![id].refused = FALSE]
      /\ task \in TaskType /\ executor \in ExecutorType /\ NoAck \in Leases
    BY ExecutionAssumption DEF LeaseAck, stop, IInv, Types, NoAck, Leases
<1>2. /\ executor' \in ExecutorType
      /\ \A i \in Requests :
            /\ executor'[i].lease = executor[i].lease
            /\ executor'[i].answered = executor[i].answered
            /\ executor'[i].ackLost = executor[i].ackLost
            /\ IF i = id THEN executor'[i].ack \in {NoAck, Null}
               ELSE executor'[i].ack = executor[i].ack
    BY <1>1 DEF ExecutorType
<1>3. t # 0 => t \in Used /\ t \in Tasks /\ task[t].id = id
    BY DEF IInv, Entries, Used
<1>4. ASSUME task' \in TaskType, gaveUp \subseteq gaveUp', gaveUp' \subseteq Tasks,
             Drains', Entries', Used' = Used,
             \A u \in Tasks :
                /\ task'[u].id = task[u].id
                /\ Live(u)' => Live(u)
                /\ u # t => task'[u].lease = task[u].lease
                /\ Live(u)' /\ u = t => task'[u].lease = executor[id].lease
                /\ task'[u].pc \in Replied => task[u].pc \in Replied \/ Safe(u)'
      PROVE  IInv'
  <2>1. \A i : Once(i)' => Once(i)
      BY <1>4, OnceEarlier DEF Used
  <2>2. Types'
      BY <1>1, <1>2, <1>4 DEF IInv, Types, Sound
  <2>3. Numbered'
      BY <1>1, <1>2, <1>4, NumberedKept DEF IInv
  <2>4. Origins'
    <3>1. \A u \in Used : u \in Used' /\ task'[u].id = task[u].id
        BY <1>4 DEF Used
    <3> QED BY <1>1, <3>1, OriginsKept DEF IInv
  <2>5. Granted'
    <3>1. \A i \in Requests : executor'[i].ack \in {NoAck, Null, executor'[i].lease}
        BY <1>2 DEF IInv, Granted
    <3>2. ASSUME NEW u \in Tasks, Live(u)', Once(task[u].id)'
          PROVE  task'[u].lease = executor'[task[u].id].lease \/ Untold(executor'[task[u].id])
      <4> DEFINE i == task[u].id
      <4>1. i' = i /\ Once(i)' /\ i \in Requests /\ Live(u)
          BY <1>1, <1>4, <3>2 DEF TaskType
      <4> HIDE DEF i
      <4>2. Once(i)
          BY <2>1, <4>1
      <4>3. CASE u = t
          BY <1>2, <1>3, <1>4, <3>2, <4>3, <4>1 DEF i, NoAck, Tasks
      <4>4. CASE u # t /\ i # id
          BY <1>2, <1>4, <4>1, <4>2, <4>4
             DEF IInv, Granted, LeaseCurrent, Granting, Untold, i
      <4>5. CASE u # t /\ i = id
        <5>1. u \in Used /\ task[u].pc # "gone"
            BY <4>1 DEF Used, Live, Sending
        <5> QED BY <4>2, <4>5, <5>1 DEF IInv, Entries, i
      <4> QED BY <4>3, <4>4, <4>5
    <3>3. LeaseCurrent'
        BY <1>4, <3>2 DEF LeaseCurrent, Granting, Untold, Tasks, Null
    <3> QED BY <3>1, <3>3 DEF Granted, Requests, Null
  <2>6. RepliesSafe'
      BY <1>1, <1>2, <1>4, <2>1, SafeGrows DEF IInv, Executions
  <2> QED BY <1>4, <2>2, <2>3, <2>4, <2>5, <2>6 DEF IInv
<1>5. CASE task' = task /\ gaveUp' = gaveUp /\ (t # 0 => ~Live(t))
  <2>1. UNCHANGED requests
      BY <1>1, <1>5 DEF requests
  <2>2. Drains' /\ Entries' /\ Used' = Used /\ \A u \in Tasks : Live(u)' <=> Live(u)
      BY <1>1, <2>1, RequestsStill, DrainsKept DEF IInv
  <2>3. \A u \in Tasks : Live(u) => u # t
      BY <1>5, <1>3, ExecutionAssumption DEF Tasks
  <2> QED BY <1>1, <1>4, <1>5, <2>2, <2>3 DEF IInv, Types
<1>6. CASE t # 0 /\ ack # Null /\ NewLease(t, ack) /\ gaveUp' = gaveUp
  <2>1. ack = executor[id].lease /\ ack \in Leases
    <3>1. ack \in {NoAck, Null, executor[id].lease}
        BY DEF IInv, Granted
    <3> QED BY <1>1, <1>6, <3>1 DEF ExecutorType
  <2>2. /\ task' \in TaskType
        /\ \A u \in Tasks : /\ task'[u].id = task[u].id /\ task'[u].pc = task[u].pc
                            /\ task'[u].lease = IF u = t THEN ack ELSE task[u].lease
      BY <1>1, <1>3, <1>6, <2>1 DEF TaskType, NewLease
  <2>3. Used' = Used /\ \A u \in Tasks : Live(u)' <=> Live(u)
      BY <2>2 DEF Used, Live, Tasks
  <2>4. Unfinished' = Unfinished
      BY <2>2, <2>3 DEF Unfinished, Tasks
  <2>5. Drains'
      BY <1>1, <2>3, <2>4 DEF IInv, Drains, NeverDrainedEarly, Unfinished, Tasks
  <2>6. \A i : Once(i)' => Once(i)
      BY <2>2, <2>3, OnceEarlier DEF Used
  <2>7. Entries'
    <3>1. ASSUME NEW i \in Requests, pending'[i] # 0
          PROVE  pending'[i] \in Used' /\ task'[pending'[i]].id = i
        BY <1>1, <2>2, <2>3, <3>1 DEF IInv, Entries, Used
    <3>2. ASSUME NEW u \in Used', task'[u].pc # "gone", Once(task[u].id)'
          PROVE  pending'[task'[u].id] = u
      <4> DEFINE i == task[u].id
      <4>1. u \in Used /\ u \in Tasks
          BY <2>3, <3>2 DEF Used
      <4>2. i' = i /\ Once(i)' /\ task'[u].id = i /\ task[u].pc # "gone"
          BY <2>2, <3>2, <4>1
      <4> HIDE DEF i
      <4>3. Once(i)
          BY <2>6, <4>2
      <4> QED BY <1>1, <4>1, <4>2, <4>3 DEF IInv, Entries, i
    <3> QED BY <3>1, <3>2 DEF Entries, Requests, Tasks
  <2> QED BY <1>4, <1>6, <2>1, <2>2, <2>3, <2>5, <2>7 DEF IInv, Types, Replied
<1>7. CASE t # 0 /\ Live(t) /\ Goes(t, "ended") /\ gaveUp' = gaveUp \cup {t}
  <2>1. "ended" \in Places \ {"unused", "gone", "waiting"}
      BY DEF Places
  <2>2. /\ task' \in TaskType
        /\ \A u \in Tasks :
             /\ task'[u].id = task[u].id /\ task'[u].lease = task[u].lease
             /\ task'[u].pc = IF u = t THEN "ended" ELSE task[u].pc
             /\ Live(u)' => Live(u)
        /\ Used' = Used
        /\ Drains' /\ Entries'
      BY <1>1, <1>3, <1>7, <2>1, LiveMoves
  <2>3. \A u \in Tasks : task'[u].pc \in Replied => task[u].pc \in Replied \/ Safe(u)'
      BY <1>3, <1>7, <2>2 DEF Replied, Safe
  <2>4. gaveUp' \subseteq Tasks
      BY <1>3, <1>7 DEF IInv, Types
  <2>5. \A u \in Tasks : Live(u)' => u # t
    <3> SUFFICES ASSUME NEW u \in Tasks, u = t PROVE ~Live(u)'
        OBVIOUS
    <3> QED BY <2>2, <1>7 DEF Live, Sending
  <2> QED BY <1>4, <1>7, <2>2, <2>3, <2>4, <2>5
<1>8. CASE t # 0 /\ ~Live(t) /\ Goes(t, task[t].pc) /\ gaveUp' = gaveUp
  <2>1. task' = task
      BY <1>1, <1>3, <1>8 DEF Goes, TaskType
  <2> QED BY <1>5, <1>8, <2>1
<1>9. \/ t = 0 /\ UNCHANGED <<task, gaveUp>>
      \/ t # 0 /\ ack # Null /\ NewLease(t, ack) /\ UNCHANGED gaveUp
      \/ t # 0 /\ ack = Null /\ Cancelled(t)
    BY DEF LeaseAck
<1> HIDE DEF t, ack
<1>10. Cancelled(t) => \/ Live(t) /\ Goes(t, "ended") /\ gaveUp' = gaveUp \cup {t}
                       \/ ~Live(t) /\ Goes(t, task[t].pc) /\ gaveUp' = gaveUp
    BY DEF Cancelled
<1> QED BY <1>5, <1>6, <1>7, <1>8, <1>9, <1>10

-----------------------------------------------------------------------------
LEMMA InitIInv == Init => IInv
<1> SUFFICES ASSUME Init PROVE IInv
    OBVIOUS
<1> USE ExecutionAssumption
<1>1. /\ task = [t \in Tasks |-> [id |-> 1, pc |-> "unused", lease |-> 0]]
      /\ pending = [id \in Requests |-> 0] /\ count = 0
      /\ executor = [id \in Requests |-> [answered |-> FALSE, lease |-> 0,
                                          ack |-> NoAck, refused |-> FALSE,
                                          ackLost |-> FALSE]]
      /\ faults = 0 /\ poller = << >> /\ buffer = EmptyBuffer
    BY DEF Init
<1>2. 0 \in Leases /\ NoAck = 0 /\ 1 \in Requests
    BY DEF Leases, NoAck, Requests
<1>3. task \in TaskType /\ executor \in ExecutorType
    BY <1>1, <1>2 DEF TaskType, ExecutorType, Places
<1>4. Types
  <2>1. Sound(buffer, Reply) /\ poller \in Seq(Reply)
      BY <1>1, EmptySound
  <2>2. pending \in [Requests -> 0 .. MaxTasks] /\ count \in 0 .. MaxTasks
        /\ faults \in 0 .. MaxFaults
      BY <1>1
  <2>3. /\ ws \in BOOLEAN /\ closing \in BOOLEAN /\ closed \in BOOLEAN
        /\ extender \in [left : SUBSET Tasks, sending : 0 .. MaxTasks]
        /\ gaveUp \subseteq Tasks
    <3>1. extender = [left |-> {}, sending |-> 0]
        BY DEF Init
    <3>2. 0 \in 0 .. MaxTasks /\ {} \in SUBSET Tasks
        OBVIOUS
    <3>3. extender \in [left : SUBSET Tasks, sending : 0 .. MaxTasks]
        BY <3>1, <3>2
    <3>4. ws = TRUE /\ closing = FALSE /\ closed = FALSE /\ gaveUp = {}
        BY DEF Init
    <3> QED BY <3>3, <3>4
  <2> QED BY <1>3, <2>1, <2>2, <2>3 DEF Types
<1>5. Used = {} /\ Unfinished = {} /\ \A t \in Tasks : ~Live(t)
    BY <1>1 DEF Used, Unfinished, Live, Sending
<1>6. Numbered
  <2>1. 0 \in 0 .. MaxTasks /\ Used = 1 .. 0
      BY <1>5
  <2> QED BY <1>1, <2>1 DEF Numbered
<1>7. Drains
  <2>1. Cardinality(Unfinished) = 0 /\ count = 0 /\ ~closed
      BY <1>1, <1>5, FS_EmptySet DEF Init
  <2> QED BY <2>1 DEF Drains, NeverDrainedEarly, Unfinished
<1>8. Entries
    BY <1>1, <1>5 DEF Entries
<1>9. Origins
    BY <1>1 DEF Origins, EmptyBuffer, ToSet
<1>10. Granted
    BY <1>1, <1>5 DEF Granted, LeaseCurrent
<1>11. RepliesSafe
    BY <1>1 DEF RepliesSafe, Replied
<1> QED BY <1>4, <1>6, <1>7, <1>8, <1>9, <1>10, <1>11 DEF IInv

LEMMA NextIInv == IInv /\ [Next]_vars => IInv'
<1> SUFFICES ASSUME IInv, [Next]_vars PROVE IInv'
    OBVIOUS
<1>1. ASSUME NEW id \in Requests, Receive(id) \/ ReplyAck(id) \/ LeaseAck(id) PROVE IInv'
    BY <1>1, ReceiveIInv, ReplyAckIInv, LeaseAckIInv
<1>2. ASSUME NEW t \in Tasks, Progress(t) \/ Done(t) PROVE IInv'
    BY <1>2, ProgressIInv, DoneIInv
<1>3. CASE ExtendRound \/ Extended \/ ExtendFails
    BY <1>3, ExtenderIInv, ExtendedIInv
<1>4. CASE FlushRound \/ FlushEnds
    BY <1>4, FlushRoundIInv, FlushEndsIInv
<1>5. CASE Close \/ Drained \/ Drop \/ Reconnect
    BY <1>5, CloseIInv, DrainedIInv, DropIInv
<1>6. CASE UNCHANGED vars
  <2>1. /\ UNCHANGED <<requests, buffer, executor, closed, gaveUp, faults>>
        /\ ws' = ws /\ closing' = closing /\ extender' = extender /\ poller' = poller
      BY <1>6 DEF vars, requests
  <2> QED BY <2>1, AsideIInv DEF IInv, Types, Origins
<1> QED BY <1>1, <1>2, <1>3, <1>4, <1>5, <1>6 DEF Next

THEOREM Invariance == Spec => []IInv
BY InitIInv, NextIInv, PTL DEF Spec

\* The buffer's running size is what its replies take and within the limit,
\* whatever is added, replaced, evicted and deleted (buffer.py).
THEOREM TypeCorrect == Spec => []TypeOK
<1>1. IInv => TypeOK
    BY TypesGiveTypeOK DEF IInv
<1> QED BY <1>1, Invariance, PTL

\* The close sequence does not end under a task (execution_handler.py, the
\* counter of _PendingRequestManager).
THEOREM DrainWaits == Spec => []NeverDrainedEarly
<1>1. IInv => NeverDrainedEarly
    BY DEF IInv, Drains
<1> QED BY <1>1, Invariance, PTL

\* A reply is held until the Executor has it, unless for one of the reasons
\* that gaveUp records (execution_handler.py, _execute_request and the poller).
THEOREM RepliesKept == Spec => []NoReplyLost
<1>1. IInv => NoReplyLost
    BY DEF IInv, RepliesSafe, NoReplyLost, Replied, Safe
<1> QED BY <1>1, Invariance, PTL

\* A task extends the lease in force, unless the acknowledgement that grants it
\* is in flight or was lost (_handle_lease_extend_ack stores the new lease id);
\* refusals, also of an extension that another one overtook, do not change that.
THEOREM LeasesCurrent == Spec => []LeaseCurrent
<1>1. IInv => LeaseCurrent
    BY DEF IInv, Granted
<1> QED BY <1>1, Invariance, PTL
=============================================================================
