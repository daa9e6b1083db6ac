-------------------------- MODULE ConnectExecution --------------------------
(***************************************************************************)
(* ExecutionHandler (connect/_internal/execution_handler.py): requests     *)
(* that arrive on the worker's WebSocket, one task each, their replies in  *)
(* ReplyBuffer, the lease extender, the flush poller and the close         *)
(* sequence. An action is what one task of the worker's event loop does    *)
(* between two awaits; user functions run on the main loop.                *)
(*                                                                         *)
(* A task is the number of its delivery. The Executor and the gateway are  *)
(* external: they deliver a request, possibly again, take replies, grant   *)
(* and refuse leases, and acknowledge. A lost WebSocket takes the lease    *)
(* acknowledgements in flight with it.                                     *)
(***************************************************************************)
EXTENDS ReplyBuffer, FiniteSets

CONSTANTS
    MaxRequests,    \* bound: request ids
    ReplySizes,     \* bytes a reply may have
    MaxTasks,       \* bound: deliveries
    MaxFaults       \* bound: lost WebSockets, and leases renewed or lost

ASSUME ExecutionAssumption ==
    /\ ReplySizes \subseteq Nat /\ MaxRequests \in Nat \ {0}
    /\ MaxTasks \in Nat /\ MaxFaults \in Nat

VARIABLES
    task,       \* per delivery: its request, where _execute_request is, and
                \* the lease id in its request data
    pending,    \* _pending_requests: the task of each request id, or 0
    count,      \* state.pending_request_count
    buffer,     \* _buffer
    ws,         \* whether State.ws holds an open WebSocket
    extender,   \* tasks whose lease the round still extends, and the one sent
    poller,     \* replies the round still flushes; the first is in flight
    closing,    \* _closing
    closed,     \* closed_event is set
    executor,   \* per request: answered, lease in force, acknowledgement in
                \* flight, whether a refusal follows it, and whether one that
                \* grants a lease was lost
    faults,     \* lost WebSockets, renewed and lost leases so far
    gaveUp      \* observer: the tasks whose reply may never arrive, for a reason
                \* NoReplyLost names

vars == <<task, pending, count, buffer, ws, extender, poller, closing, closed,
          executor, faults, gaveUp>>

requests == <<task, pending, count>>
stop == <<closing, closed>>

Requests == 1 .. MaxRequests
Tasks == 1 .. MaxTasks
Used == {t \in Tasks : task[t].pc # "unused"}
Sending == {"acking", "replying", "failing"}
Live(t) == task[t].pc \in {"waiting", "woken", "running"} \cup Sending

\* Deliveries of one request id.
Deliveries(id) == {t \in Used : task[t].id = id}
Once(id) == Cardinality(Deliveries(id)) <= 1

\* Acknowledgements of a lease extension: none in flight, or a null lease id;
\* otherwise the new lease id.
NoAck == 0
Null == MaxTasks + MaxFaults + 1
Leases == 0 .. MaxTasks + MaxFaults

Init ==
    /\ task = [t \in Tasks |->
                [id |-> 1, pc |-> "unused", lease |-> 0]]
    /\ pending = [id \in Requests |-> 0]
    /\ count = 0
    /\ buffer = EmptyBuffer
    /\ ws = TRUE
    /\ extender = [left |-> {}, sending |-> 0]
    /\ poller = << >>
    /\ closing = FALSE
    /\ closed = FALSE
    /\ executor = [id \in Requests |-> [answered |-> FALSE, lease |-> 0, ack |-> NoAck,
                                        refused |-> FALSE, ackLost |-> FALSE]]
    /\ faults = 0
    /\ gaveUp = {}

Goes(t, place) == task' = [task EXCEPT ![t].pc = place]

Answered(id) == [executor EXCEPT ![id].answered = TRUE]

-----------------------------------------------------------------------------
(* The requests.                                                            *)

\* Mutant of Added: a replaced entry is not counted.
AddedNew(id, t) ==
    /\ pending' = [pending EXCEPT ![id] = t]
    /\ count' = IF pending[id] = 0 THEN count + 1 ELSE count

\* _PendingRequestManager.add: an entry of the same id is replaced.
Added(id, t) ==
    /\ pending' = [pending EXCEPT ![id] = t]
    /\ count' = count + 1

\* Mutant of Popped: the counter is not reduced.
PoppedUncounted(id) ==
    /\ pending' = [pending EXCEPT ![id] = 0]
    /\ UNCHANGED count

\* _PendingRequestManager.pop: whatever task the entry is of.
Popped(id) ==
    /\ pending' = [pending EXCEPT ![id] = 0]
    /\ count' = IF pending[id] = 0 THEN count ELSE count - 1

\* _handle_executor_request. A request that arrives while closing, that does
\* not parse or that names an unknown app changes nothing. Ids are numbered in
\* the order of their first delivery.
Receive(id) ==
    /\ ws /\ ~closing /\ ~executor[id].answered
    /\ \A earlier \in 1 .. id - 1 : Deliveries(earlier) # {}
    /\ \E t \in Tasks \ Used :
        /\ \A u \in Tasks \ Used : t <= u
        /\ task' = [task EXCEPT ![t] =
            [id |-> id, pc |-> "waiting", lease |-> executor[id].lease + 1]]
        /\ Added(id, t)
    /\ executor' = [executor EXCEPT ![id].lease = @ + 1, ![id].ack = NoAck,
                                    ![id].refused = FALSE, ![id].ackLost = FALSE]
    /\ UNCHANGED <<buffer, ws, extender, poller, stop, faults, gaveUp>>

\* wait_for_not_none: at once, or woken by a WebSocket that may be gone again
\* when the task runs.
Wakes(t) ==
    /\ task[t].pc = "waiting" /\ ws
    /\ \/ Goes(t, "acking")
       \/ Goes(t, "woken")
    /\ UNCHANGED <<pending, count, buffer, ws, extender, poller, stop, executor,
                   faults, gaveUp>>

WokenSends(t) ==
    /\ task[t].pc = "woken" /\ ws
    /\ Goes(t, "acking")
    /\ UNCHANGED <<pending, count, buffer, ws, extender, poller, stop, executor,
                   faults, gaveUp>>

AckSent(t) ==
    /\ task[t].pc = "acking" /\ ws
    /\ Goes(t, "running")
    /\ UNCHANGED <<pending, count, buffer, ws, extender, poller, stop, executor,
                   faults, gaveUp>>

\* Mutant of Kept: only a reply that could not be sent now is kept.
KeptIfUnsent(t, bytes) ==
    buffer' = IF ws THEN buffer ELSE Add(buffer, Item(task[t].id, t, bytes))

\* The reply goes into the buffer before it is sent.
Kept(t, bytes) == buffer' = Add(buffer, Item(task[t].id, t, bytes))

\* What the reply pushed out of the buffer, and itself when it is too large.
OutOfSpace(t, bytes) ==
    LET evicted == {u \in Executions(buffer) \ Executions(buffer') :
                        task[u].id # task[t].id}
    IN  gaveUp' = gaveUp \cup evicted \cup (IF bytes > MaxBytes THEN {t} ELSE {})

\* The reply is kept, and sent when there is a WebSocket.
Replies(t, bytes) ==
    /\ Kept(t, bytes)
    /\ OutOfSpace(t, bytes)
    /\ Goes(t, IF ws THEN "replying" ELSE "ended")

\* The acknowledgement cannot be sent: the function does not run, the error is
\* the reply.
AckFails(t) ==
    /\ task[t].pc \in {"woken", "acking"} /\ ~ws
    /\ \E bytes \in ReplySizes : Replies(t, bytes)
    /\ UNCHANGED <<pending, count, ws, extender, poller, stop, executor, faults>>

\* CommHandler.post returned.
FunctionEnds(t) ==
    /\ task[t].pc = "running"
    /\ \E bytes \in ReplySizes : Replies(t, bytes)
    /\ UNCHANGED <<pending, count, ws, extender, poller, stop, executor, faults>>

\* It raised, or its body cannot be encoded: the error reply is not kept.
FunctionRaises(t) ==
    /\ task[t].pc = "running"
    /\ Goes(t, IF ws THEN "failing" ELSE "ended")
    /\ gaveUp' = gaveUp \cup {t}
    /\ UNCHANGED <<pending, count, buffer, ws, extender, poller, stop, executor,
                   faults>>

\* The Executor has the answer (a message lost with its WebSocket is a Drop).
ReplySent(t) ==
    /\ task[t].pc \in {"replying", "failing"} /\ ws
    /\ executor' = Answered(task[t].id)
    /\ Goes(t, "ended")
    /\ UNCHANGED <<pending, count, buffer, ws, extender, poller, stop, faults, gaveUp>>

\* safe_send: the connection was lost.
ReplyFails(t) ==
    /\ task[t].pc \in {"replying", "failing"} /\ ~ws
    /\ Goes(t, "ended")
    /\ UNCHANGED <<pending, count, buffer, ws, extender, poller, stop, executor,
                   faults, gaveUp>>

\* The task's done callback, in a later iteration of the loop.
Done(t) ==
    /\ task[t].pc = "ended"
    /\ Goes(t, "gone")
    /\ Popped(task[t].id)
    /\ UNCHANGED <<buffer, ws, extender, poller, stop, executor, faults, gaveUp>>

\* _handle_worker_reply_ack.
ReplyAck(id) ==
    /\ ws /\ executor[id].answered /\ Holds(buffer, id)
    /\ buffer' = Delete(buffer, id)
    /\ UNCHANGED <<requests, ws, extender, poller, stop, executor, faults, gaveUp>>

-----------------------------------------------------------------------------
(* Leases.                                                                  *)

\* The round goes on: the next request of its copy is extended, also one that
\* ended meanwhile; without a WebSocket the rest only fail. The lease id is read
\* when it is sent. (The order within a round does not matter here.)
ExtendNext(left) ==
    IF left = {} \/ ~ws THEN extender' = [left |-> {}, sending |-> 0]
    ELSE \E t \in left : extender' = [left |-> left \ {t}, sending |-> t]

\* The interval is over: a round over a copy of the pending requests.
ExtendRound ==
    /\ extender.sending = 0 /\ ws /\ ~closed
    /\ \E id \in Requests : pending[id] # 0
    /\ ExtendNext({pending[id] : id \in Requests} \ {0})
    /\ UNCHANGED <<requests, buffer, ws, poller, stop, executor, faults, gaveUp>>

\* An acknowledgement with a new lease id is in flight.
Granting(id) == executor[id].ack \notin {NoAck, Null}

\* External: the Executor renews the lease it knows, and refuses another, or
\* one that expired or that another worker took over.
Renews(id, lease) ==
    \/ /\ lease = executor[id].lease /\ ~executor[id].answered
       /\ faults < MaxFaults
       /\ executor' = [executor EXCEPT ![id].lease = @ + 1,
                                       ![id].ack = executor[id].lease + 1]
       /\ faults' = faults + 1
    \/ /\ lease # executor[id].lease \/ executor[id].answered
       /\ executor' = [executor EXCEPT ![id].ack = Null]
       /\ UNCHANGED faults
    \/ /\ faults < MaxFaults
       /\ executor' = [executor EXCEPT ![id].ack = Null]
       /\ faults' = faults + 1
    \/ UNCHANGED <<executor, faults>>

\* External: an extension that was sent before the acknowledgement of the one
\* before it arrived carries an outdated lease id, and is refused or ignored. A
\* second refusal in a row would change nothing.
Overtaken(id, lease) ==
    /\ executor' \in
         {executor} \cup
         (IF Granting(id) /\ lease # executor[id].lease
          THEN {[executor EXCEPT ![id].refused = TRUE]} ELSE {})
    /\ UNCHANGED faults

Extended ==
    LET t == extender.sending
        id == task[t].id
    IN  /\ t # 0 /\ ws
        /\ IF executor[id].ack = NoAck THEN Renews(id, task[t].lease)
           ELSE Overtaken(id, task[t].lease)
        /\ ExtendNext(extender.left)
        /\ UNCHANGED <<requests, buffer, ws, poller, stop, gaveUp>>

ExtendFails ==
    /\ extender.sending # 0 /\ ~ws
    /\ ExtendNext(extender.left)
    /\ UNCHANGED <<requests, buffer, ws, poller, stop, executor, faults, gaveUp>>

\* Mutant of NewLease: the request data keeps its first lease.
NewLeaseIgnored(t, lease) == UNCHANGED task

NewLease(t, lease) == task' = [task EXCEPT ![t].lease = lease]

\* The task ends at its await (a message that got out is a ReplySent).
Cancelled(t) ==
    /\ Goes(t, IF Live(t) THEN "ended" ELSE task[t].pc)
    /\ gaveUp' = IF Live(t) THEN gaveUp \cup {t} ELSE gaveUp

\* _handle_lease_extend_ack; unknown requests are only logged.
LeaseAck(id) ==
    LET ack == executor[id].ack
        t == pending[id]
    IN  /\ ws /\ ack # NoAck
        /\ executor' = [executor EXCEPT
                ![id].ack = IF executor[id].refused THEN Null ELSE NoAck,
                ![id].refused = FALSE]
        /\ \/ t = 0 /\ UNCHANGED <<task, gaveUp>>
           \/ t # 0 /\ ack # Null /\ NewLease(t, ack) /\ UNCHANGED gaveUp
           \/ t # 0 /\ ack = Null /\ Cancelled(t)
        /\ UNCHANGED <<pending, count, buffer, ws, extender, poller, stop, faults>>

-----------------------------------------------------------------------------
(* The flush poller.                                                        *)

\* A round, a second or more after the last: a copy of the replies that are old
\* enough by now.
FlushRound ==
    /\ poller = << >> /\ ~closed
    /\ \E n \in DOMAIN buffer.items : poller' = OlderThanTtl(buffer, n)
    /\ UNCHANGED <<requests, buffer, ws, extender, stop, executor, faults, gaveUp>>

\* Mutant of AfterFlush: it is never removed.
AfterFlushKept(id) == UNCHANGED buffer

\* Tried once: whatever the buffer holds for the id goes.
AfterFlush(id) == buffer' = Delete(buffer, id)

\* _flush_message ends: the server has the reply, or it never will from here.
Flushed(reply, arrived) ==
    /\ executor' = IF arrived THEN Answered(reply.id) ELSE executor
    /\ gaveUp' = IF arrived THEN gaveUp ELSE gaveUp \cup {reply.by}
    /\ AfterFlush(reply.id)

FlushEnds ==
    /\ poller # << >> /\ ~closed
    /\ \E arrived \in BOOLEAN : Flushed(Head(poller), arrived)
    /\ poller' = Tail(poller)
    /\ UNCHANGED <<requests, ws, extender, stop, faults>>

-----------------------------------------------------------------------------
(* Shutdown and the connection.                                             *)

Close ==
    /\ ~closing
    /\ closing' = TRUE
    /\ UNCHANGED <<requests, buffer, ws, extender, poller, closed, executor,
                   faults, gaveUp>>

\* The close sequence: pending_request_count.wait_for(0), then
\* after_close_drained cancels the extender and the poller. A flush in flight
\* is cancelled (its `finally` removes the reply; one that arrives all the same
\* is a FlushEnds).
Drained ==
    /\ closing /\ ~closed /\ count = 0
    /\ closed' = TRUE
    /\ extender' = [left |-> {}, sending |-> 0]
    /\ poller' = << >>
    /\ IF poller = << >> THEN UNCHANGED <<buffer, executor, gaveUp>>
       ELSE Flushed(Head(poller), FALSE)
    /\ UNCHANGED <<requests, ws, closing, faults>>

Drop ==
    /\ ws /\ faults < MaxFaults
    /\ faults' = faults + 1
    /\ ws' = FALSE
    /\ executor' = [i \in Requests |->
        [executor[i] EXCEPT !.ack = NoAck, !.refused = FALSE,
                            !.ackLost = @ \/ Granting(i)]]
    /\ UNCHANGED <<requests, buffer, extender, poller, stop, gaveUp>>

\* A send on the lost connection raises before the next one opens.
Reconnect ==
    /\ ~ws /\ extender.sending = 0
    /\ \A t \in Tasks : task[t].pc \notin Sending
    /\ ws' = TRUE
    /\ UNCHANGED <<requests, buffer, extender, poller, stop, executor, faults, gaveUp>>

-----------------------------------------------------------------------------
Progress(t) ==
    \/ Wakes(t) \/ WokenSends(t) \/ AckSent(t) \/ AckFails(t)
    \/ FunctionEnds(t) \/ FunctionRaises(t) \/ ReplySent(t) \/ ReplyFails(t)

Next ==
    \/ \E id \in Requests : Receive(id) \/ ReplyAck(id) \/ LeaseAck(id)
    \/ \E t \in Tasks : Progress(t) \/ Done(t)
    \/ ExtendRound \/ Extended \/ ExtendFails
    \/ FlushRound \/ FlushEnds
    \/ Close \/ Drained \/ Drop \/ Reconnect

Spec == Init /\ [][Next]_vars

\* The event loop runs its tasks, functions end, time passes and the worker
\* reconnects. Nothing is assumed of the Executor.
FairSpec ==
    /\ Spec
    /\ \A t \in Tasks : WF_vars(Progress(t) \/ Done(t))
    /\ WF_vars(Extended \/ ExtendFails)
    /\ WF_vars(FlushRound \/ FlushEnds)
    /\ WF_vars(Drained) /\ WF_vars(Reconnect)

-----------------------------------------------------------------------------
(* Properties.                                                              *)

Places == {"unused", "waiting", "woken", "running", "ended", "gone"} \cup Sending

\* Types; and the buffer's running size is what its items take, through
\* replacement, eviction and deletion in any order, and an id is held once.
TypeOK ==
    /\ task \in [Tasks -> [id : Requests, pc : Places, lease : Leases]]
    /\ pending \in [Requests -> 0 .. MaxTasks]
    /\ count \in 0 .. MaxTasks
    /\ \A i \in DOMAIN buffer.items :
            buffer.items[i] \in [id : Requests, by : Tasks, bytes : ReplySizes]
    /\ buffer.size \in 0 .. MaxBytes /\ buffer.size = Total(buffer.items)
    /\ \A i, j \in DOMAIN buffer.items :
            buffer.items[i].id = buffer.items[j].id => i = j
    /\ ws \in BOOLEAN /\ closing \in BOOLEAN /\ closed \in BOOLEAN
    /\ extender \in [left : SUBSET Tasks, sending : 0 .. MaxTasks]
    /\ \A i \in DOMAIN poller : poller[i].id \in Requests /\ poller[i].by \in Tasks
    /\ executor \in [Requests -> [answered : BOOLEAN, lease : Leases,
                                  ack : Leases \cup {Null}, refused : BOOLEAN,
                                  ackLost : BOOLEAN]]
    /\ faults \in 0 .. MaxFaults
    /\ gaveUp \subseteq Tasks

\* The counter the close sequence waits on (base_handler.py 75) never falls
\* below the executions that still run, even when the Executor delivers a
\* request again while it is pending: the worker does not stop under one.
NeverDrainedEarly ==
    /\ Cardinality({t \in Tasks : Live(t) \/ task[t].pc = "ended"}) <= count
    /\ closed => \A t \in Tasks : ~Live(t)

\* The reply of a finished execution has reached the Executor or waits for the
\* flush, unless its lease was lost, there was no space, its one flush failed,
\* it was an error outside the function (never kept), or the handlers closed.
NoReplyLost ==
    \A t \in Tasks :
        task[t].pc \in {"ended", "gone"} /\ Once(task[t].id) /\ ~closed =>
            \/ executor[task[t].id].answered
            \/ t \in Executions(buffer)
            \/ t \in gaveUp

\* The lease id that an extension will carry is the one in force, unless the
\* acknowledgement with the new one is still on its way or was lost with a
\* WebSocket (_handle_lease_extend_ack: "we'll have a bad time"); that the
\* Executor refused an extension is no excuse.
LeaseCurrent ==
    \A t \in Tasks :
        Live(t) /\ Once(task[t].id) =>
            LET e == executor[task[t].id]
            IN  task[t].lease = e.lease \/ Granting(task[t].id) \/ e.ackLost

\* Graceful shutdown: the close sequence ends (ExecutionHandler: "waits for all
\* pending requests to complete before closing"), unless a request id was
\* delivered twice: the first task to end takes the entry of the second, whose
\* own end then leaves the counter above zero for good.
DrainCompletes == closing ~> (closed \/ \E id \in Requests : ~Once(id))

\* No reply stays in the buffer of a worker that runs: it is acknowledged,
\* flushed or evicted, although the Executor may never acknowledge anything.
RepliesSettle == []<>(closed \/ buffer.items = << >>)

\* ARCHITECTURE.md 47, graceful shutdown: "Flush any unacknowledged replies".
\* The close sequence cancels the poller instead.
UnackedRepliesFlushed == closed => \A reply \in ToSet(buffer.items) : executor[reply.id].answered
=============================================================================
