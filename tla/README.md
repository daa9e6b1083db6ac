# A specification of the Inngest Python SDK

TLA+ modules, TLC runs and TLAPS proofs about `inngest-py`
(`pkg/inngest/inngest` and `pkg/inngest_encryption`). Paths below are relative
to the repository; `_internal/` stands for `pkg/inngest/inngest/_internal/` and
`connect/` for `pkg/inngest/inngest/connect/_internal/`.

## 1. The system

A user writes *functions* made of *steps*. The Inngest server (the *Executor*,
not in this repository) calls a function many times per run, each time with the
outcomes of the steps decided so far (*memos*). The SDK replays the function,
returns memoized outcomes instantly and runs, plans or skips the first new
steps. Requests reach the SDK over HTTP (framework adapters, `CommHandler`) or
over a WebSocket (`connect`).

| Component | Code | State it keeps | Operations | What is hard | What makes it correct |
| --- | --- | --- | --- | --- | --- |
| Replay engine | `_internal/execution_lib/v0.py`, `models.py` | remaining memos, target, nesting and parallel flags | `run`, `report_step` | concurrent requests of one run, targeting, planning, control flow by exceptions | a step is decided once, by its own handler; a target is isolated |
| Steps, ids, groups | `_internal/step_lib/` | counter per step id, collected responses | `step.run`, `sleep`, `invoke`, ..., `group.parallel` | reused ids, swallowed interrupts, nesting | a memo reaches the step that made it; a group returns every output |
| Comm handler | `_internal/comm_lib/` | none across requests (thread pool) | `post`, `put` (sync), `get` (inspection), streaming | errors at each stage, what is retried | every request gets one response that says whether to retry |
| Function | `_internal/function.py` | configuration | `call`, `call_sync` | a failing hook after the function | the hook's error replaces the result |
| Middleware | `_internal/middleware_lib/` | which hooks are disabled | seven hooks, in order; `LoggerMiddleware` | hooks that fail after the function succeeded, a second manager for a send, the logger's context | a hook is called once, outputs mirror inputs, a hook's error decides the answer |
| Client | `_internal/client_lib/` | seed of an event batch | `send`, `_get_batch`, `_get_steps` | retries after partial success | events accepted once; ids reported |
| Network | `_internal/net.py` | timings | auth fallback, signatures, URLs | key rotation, threads | fallback tried once, its answer returned |
| Sync | `comm_lib/handler.py`, `server_lib/` | none | in-band and out-of-band registration | error responses | a failed registration is reported as one |
| Connect worker | `connection.py`, `isolated_worker.py`, `conn_init_starter.py`, `init_handshake_handler.py`, `heartbeat_handler.py`, `drain_handler.py`, `base_handler.py`, `ws_utils.py`, `models.py` (`connect/`) | connection state, auth data, websocket, handshake state, fatal error | start, handshake, heartbeat, drain, reconnect, close | two threads, many tasks, connections replaced under an await | the worker always reaches CLOSED after close; nothing of an old connection reaches a new one |
| Connect execution | `connect/execution_handler.py` | pending requests and their counter, lease ids | execute, acknowledge, extend, flush, drain | duplicates, lost leases, lost replies, shutdown | a reply is delivered or flushed; the counter reaches 0 |
| Reply buffer | `connect/buffer.py` | items in insertion order, size | add, get, delete, get_older_than | eviction, replacement | size is the sum of what is held, within the limit |
| Value watcher | `connect/value_watcher.py` | value, watchers' queues | set, set_if, wait_for, wait_for_change | threads, lost wake-ups | who waits for a value that is set is woken |
| Encryption, remote state | `pkg/inngest_encryption`, `experimental/remote_state_middleware` | keys, stored outputs | transform hooks | key rotation while two deployments serve one run, lost replies | a function reads back what was returned, and the Executor sees no plain text |
| Adapters, mocked trigger, dev server runner, AI adapters, realtime | `*.py`, `experimental/` | subprocess handle | translation of requests | - | - |

## 2. Modules

| Module | What it is |
| --- | --- |
| `Replay` | Pure operators on one request: step ids, `report_step`, `step.run`, `Group.parallel`, the response |
| `Execution` | The requests of one run: the SDK's actions on each slot, and the Executor |
| `DurableRun` | Abstract specification: steps decided once, in order, before the run completes |
| `MCExecution` | The user functions the runs of `Execution` choose from |
| `UserCode` | What a user function has to be like for the theorems about it: ids that tell its steps apart, except clauses, outputs, nested steps |
| `ExecutionProofs` | TLAPS: the layers of the inductive invariant of `Execution`, its safety invariants and its action property, and that it implements `DurableRun` |
| `ConnectWorker` | The lifecycle of a Connect worker: the tasks of its event loop, and the main thread that starts and closes it |
| `ConnectWorkerProofs` | TLAPS: inductive invariant of `ConnectWorker`, CLOSED is final and follows the drained requests, ACTIVE is ready on both sides |
| `ReplyBuffer` | Operators on the buffer of unacknowledged replies: add with eviction and replacement, delete, older than the TTL |
| `ReplyBufferProofs` | TLAPS: the size a buffer keeps is the bytes of its items, within the limit, and each operation changes what it should and nothing else |
| `ConnectExecution` | The requests on a worker's WebSocket, over `ReplyBuffer`: tasks, leases, acknowledgements, the flush poller, the close sequence |
| `ConnectExecutionProofs` | TLAPS: inductive invariant of `ConnectExecution`, its four safety invariants |
| `ValueWatcher` | The value that threads set and coroutines wait for, at the granularity of its lock and its notifications |
| `ValueWatcherProofs` | TLAPS: inductive invariant of `ValueWatcher`, its three safety invariants |
| `Net` | Operators: which key validates a request, what an authenticated request to Inngest ends with |
| `Middleware` | Operators: which hooks a manager calls, in which order, and whether the call ends with an error |
| `Send` | Sending events, over `Middleware`: the attempts, the seed, what the caller is told |
| `Serve` | The comm handler, over `Net`, `Middleware` and `Send`: POST, PUT and GET of concurrent requests, on an event loop, its thread pool or a sync web server |
| `MCServe` | The configurations and requests `Serve` is checked with |
| `ServeProofs` | TLAPS: the layers of the inductive invariant of `Serve`, its eight safety invariants |
| `StateTransforms` | Encryption and remote state between deployments of an app and the Executor |
| `MCStateTransforms` | The redeployments and functions `StateTransforms` is checked with |
| `StateTransformsProofs` | TLAPS: inductive invariant of `StateTransforms`, its three safety invariants and its action property |
| `NumberLemmas` | TLAPS: induction over the numbers up to a bound, and the least member of a set of them |

`Execution` says how a function replays, `Serve` what surrounds one call of it;
the two meet in the result of the call, which `Serve` chooses (`Outcome`) and
`Execution` derives. `ConnectWorker` and `ConnectExecution` meet in the count of
pending requests, which is all the worker's shutdown reads.

### Replay and Execution

A user function is data: a sequence of stages, each one step or a group of
branches of steps. A step has an id, an opcode, the outcomes its handler may
have (`outs`: returns, raises, raises NonRetriableError or RetryAfterError,
returns something JSON cannot encode, calls a step of its own), whether the
function catches its error, and the steps its handler calls. Only the position
`<<stage, branch, index>>` identifies a step independently of its id; responses
and memos carry it (`at`) as an observer, so a memo reaching another step can be
seen.

A request slot `req[r]` is one call of `CommHandler.post`: `pc` (`idle`,
`start`, `code` between steps, `handler` inside a `step.run` handler, `result`),
the target (`stepId`), the attempt, the memos left (`StepMemos`), the counters
(`StepIDCounter`), whether `before_execution` was called (`before`), the
position, the outputs and responses a group collected, and the result
(`CallResult`). One action is one uninterrupted piece of the code:

| Action | Code |
| --- | --- |
| `Start` | `ExecutionV0.run` up to the call of the function: `transform_input`, `before_execution` without memos |
| `ReplayData`, `ReplayError`, `SkipStep`, `PlanStep`, `ReportOp`, `EnterHandler` | the six ways through `report_step`; each pops the memo, counts the id and calls `before_execution` when no memo is left |
| `HandlerReturns`, `HandlerRaises`, `HandlerBubbles`, `HandlerNests` | the ends of the `try` in `step.run`; for nesting, the inner call of `report_step` and `ReportedStep.__aenter__` |
| `BranchEnds`, `GroupEnds` | the loop and the end of `Group.parallel` |
| `FunctionReturns`, `UserError`, `HookFails` | the ends of `ExecutionV0.run` and `Function.call` |
| `Send`, `Apply`, `Lose`, `Wake` | the Executor (external): sends a queued request with the memos of the moment, applies a response, loses a request or response and sends it again, ends a sleep |

Requests interleave at every such point. The asynchronous and the synchronous
code (`ExecutionV0Sync`, `GroupSync`, `StepSync`) are the same model: within one
request nothing runs concurrently in either. Steps that the Executor carries out
(`sleep`, `sleep_until`, `wait_for_event`, `invoke`, `ai.infer`) take the same
path through the code and are one opcode, `SLEEP`; they end with data.
`send_event` is a `step.run`. `max_attempts` is always a number here (the code
accepts None, which makes every handler error STEP_ERROR).

What the Executor does is not in the repository. The model takes from
`docs/EXECUTION_MODEL.md`, `server_lib` and the tests: it memoizes `StepRun`,
`StepFailed` and a `StepError` that forbids the retry, first decision wins; it
sends a targeted request per planned step, once; it retries an error below
`max_attempts`; after every decision it sends a discovery request for what
follows; after parallel steps it sets `disable_immediate_execution`.

### ConnectWorker

The worker thread runs one event loop, so a task runs alone from one `await` to
the next, and that is an action. The main thread only calls `_close`, whose
`set_if` is atomic. `st` is `models.State` with the handshake handler's state
(`_reconnect_watcher` resets it when `conn_init` becomes None, before the reader
can get a message of another websocket: `SetInit`). A connection is named by
the number of its start response; `st.init` is the one whose data `conn_init`
holds, `st.ws` the one whose websocket `State.ws` holds, `ep` the one `run()`
connected to. They differ while connections are replaced, which is what the
properties are about.

| Actor | Actions | Code |
| --- | --- | --- |
| `run()` | `Connect`, `WsOpens` or `WsRefused`, `Notice`, `LeaveWs`, `Joined`, `EndRun`, `RunReturns` | `isolated_worker.py` 62-125, 259-333 |
| message reader | `Message` (every handler, in order), `ReaderStops`, `ReaderEnds` | `_handle_msg`, the handlers' `handle_msg` |
| start request | `StarterWakes`, `StartAccepted`, `StartRefused` | `_send_start_request`; its five attempts are one action |
| `WORKER_CONNECT` | `SyncStarts`, `SyncSent`, `SyncFails` | `_send_response` |
| heartbeats | `HandshakeSeen`, `HeartbeatStarts`, `HeartbeatSent` | `_heartbeat_sender` |
| requests | `Acknowledge`, `Reply` | `_execute_request`: counts of requests that wait and that run |
| shutdown | `Close` (main thread), `Pause`, `HandlersClose`, `CloseEnds` | `connection.py` 318-339, `_close`, `BaseHandler.close` |
| environment | `Drop`, and the choice of messages in `Sends` | external: network, gateway, API |

`safe_send` reads the websocket, awaits, and on a lost connection calls
`close_ws` on whatever is current by then: the websocket it read is part of the
state (`to`). The `websockets` library wakes such a send when the connection is
lost, before `run()` can open the next one (`NoSendLeft`, external). The five
handlers close in one action; their tasks end in an order that nothing observes.
The observer `seen` records which websockets were paused, a heartbeat before
READY, a `WORKER_CONNECT` sent by an outdated task (`crossed`) and an expired
shutdown.

The gateway greets first and once, gets ready after a `WORKER_CONNECT`, and then
sends requests; a `WORKER_CONNECT` with another connection's data may or may not
be accepted.

### ConnectExecution and ReplyBuffer

A task is the number of its delivery; the Executor may deliver the same request
id again while it is pending. `pending`, `count`, `buffer` and `closed` are the
handler's fields. An action is what one task does between two awaits.

| Action | Code (`connect/execution_handler.py`) |
| --- | --- |
| `Receive` | `handle_msg` up to the task of `_execute_request`; `_pending_requests[id]` is overwritten and the counter incremented (line 33) |
| `Progress` | `_execute_request`: waiting for a websocket, the acknowledgement, the function, the reply, which is sent and kept in the buffer |
| `Done` | the task's callback, which pops the pending entry and decrements the counter only when the entry is there |
| `ReplyAck`, `LeaseAck` | `_handle_worker_reply_ack`, `_handle_lease_extend_ack`: a new lease id, or none, which cancels the task; a refusal may follow the renewal it was overtaken by (`refused`) |
| `ExtendRound`, `Extended`, `ExtendFails` | `_leaser`: a round goes over the pending requests, with an await for each; an extension with an outdated lease id is refused or ignored (`Overtaken`, external) |
| `FlushRound`, `FlushEnds` | `_unacked_msg_flush_poller`, `_flush_message`: one attempt, and the reply is deleted whatever its outcome |
| `Close`, `Drained` | `close`, `after_close_drained`, which cancels the two pollers |
| `Drop`, `Reconnect` | external: the websocket; an acknowledgement in flight is lost with it |

`ReplyBuffer.MadeRoom` states what the eviction loop computes (the fewest oldest
items whose removal makes room) instead of looping, and `Delete` removes the item
at the position of the id. What the items take together (`Total`) is the last of
their running sums, a function of the number of items summed, so that proofs can
speak of it. `gaveUp` is an observer: the
tasks whose reply may never arrive, for a reason the code accepts (lease lost,
too large or evicted, its one flush failed, an error outside the function, which
is sent but never buffered).

### ValueWatcher

A setter changes the value and copies the watch list under the lock, then
notifies queue by queue without it (`Set`, `SetIf`, `Notify`, `Returns`); a call
that waits reads the value, registers its queue, reads again and then waits
(`Call`, `Register`, `Recheck`, `Get`, `TimeOut`). `wait_for`, `wait_for_not`,
`wait_for_not_none`, `wait_for_change` and `on_value` differ in the condition
(`Conditions`) and in whether the present value counts. Two threads and one call
are enough: calls only share the list, of which each uses its own entry.

### Net, Middleware, Send, Serve

A request is a record of what the code tells apart (`Shapes`): method, signature,
server kind, body, function, probe, `use_api`, what its function sends and how it
ends, which hook raises. `req[r].pc` is where its handling is.

| Actions | Code |
| --- | --- |
| `Arrive`, `Unauthorized`, `Unverifiable` | a framework adapter calls the handler; `wrap_handler` (`comm_lib/utils.py` 73) checks the signature; a timestamp that is no number raises out of it (`net.py` 576) |
| `Post`, `FetchAnswer`, `Gathered`, `FetchedSync` | `post`, `post_sync` up to the call: probe, body, function lookup, `use_api` with `asyncio.gather` or in sequence |
| `StartsOnPool`, `Begins`, `MeetsNewStep`, `Reports`, `ReportsLate`, `Sends`, `Sent`, `HandlerEnds` | `_internal/function.py` `call`, `call_sync`: `transform_input`, `before_execution`, the function and what it sends, `after_execution` |
| `Replies` | `transform_output`'s error, `from_call_result`, `before_response`, the signature of the answer |
| `HangsUp` | the reader of a streamed answer leaves |
| `Put`, `Registered`, `OutOfBandAnswer`, `InBandAnswer` | `put`, `Syncer` |
| `Inspect` | `get_sync` |
| `BeginSend`, `Attempt`, `FinishSend` | `client_lib/client.py` `send`, `send_sync`, and `step.send_event`, which runs the hooks itself |

Signatures are the key they were made with. Inngest and the network are external:
they accept the keys in `conf.accepts`, answer anything the client tells apart,
and may store events whose answer is lost. `logging` is the ContextVar of
`LoggerMiddleware`: one value per thread, and one per request on the event loop
(a task copies its context). A sync function run by `run_in_executor` has the
thread's (`Context`).

`report_step` calls `before_execution` only when no memo is left (`InReport`,
`v0.py` 68). A targeted step that the function meets before the memoized step of
a sibling (`left`) runs without it, and the call comes when the function goes on
to that memo (`ReportsLate`), so after new code and not before it.

The proofs rest on four assumptions about the constants: no key is written like
an error (`NetAssumption`); a manager has at least one middleware, the logger
(`MiddlewareAssumption`); a handler in production has a signing key, else its
constructor raises (`ConfigsAssumption`, `comm_lib/handler.py`); and requests are
well typed, with no middleware installed twice (`ShapesAssumption`), since
`HooksPaired` counts calls per hook and middleware. `HooksPaired` says that no
hook is called twice and that, when no hook failed, the inputs' transforms, in
order, precede the outputs' transforms, in the opposite order, on what a step or
the function returned. On errors it says nothing of `transform_output`
(section 6).

Async and sync code are one model with a flag (`Sync`, `SyncHooks`) where they
differ: the fetches in sequence, streaming, hooks that cannot be awaited.

### StateTransforms

A value is a body and the key it is encrypted with, or a reference to an object
of the store. The parent's function runs steps, invokes the child, alone
(`invoke`) or planned with others (`invokes`), waits for an event and returns.
`Request` is `transform_input` of all middleware on the event and the memos,
`Reply` their `transform_output` in reverse order with `save_step`, `SaveFails`
and `Lost` the two ways a step is run again, `LoadFails` a `load_steps` that
raises, after which the Executor sends the request again. `Deploy` and `Retire` are a rolling
deployment: for a while the Executor may send a request to workers of either.
The Executor is external. `ProgramsAssumption` and `SetupsAssumption` name what
the module takes for granted: a function returns once and at its end, only one
operation of it invokes the child (there is one child run), each middleware is
installed at most once and only EncryptionMiddleware has keys.

## 3. Runs

All runs of `Execution` use two request slots (two requests of a run in flight
at once: enough for two targeted siblings, for two discovery requests that meet
the same next step, and for a stale one beside a fresh one), `MaxAttempts = 2`
(a first attempt, and a last one) and functions of two to four steps. `MaxFaults`
bounds failed hooks, user errors and lost requests or responses.
`CHECK_DEADLOCK` is off because a run ends.

| Run | Shows |
| --- | --- |
| `Execution` (pass, 116,100 states) | eight functions with one fault anywhere. `AtMostOnce`, `MemoFitsStep`, `OnlyTheTarget`, `GroupsReturnEverything`, `NestedStepsRejected`, `NonRetriableStaysDead`; `ImplementsDurableRun`: the run is a behaviour of `DurableRun` under `PlanOf(fn)`, `Decided`, `run`; `RunEnds`: every run completes or fails |

The functions of the passing run (`SoundFunctions`) are: two steps with a
caught failure; a sleep and a step that may forbid its retry; parallel steps
followed by one; a branch of two steps beside a sleep; a failing group; an id
reused in sequence; an id reused in a group; a nested `step.run`.

`ReusedInBranches` (refutes `MemoFitsStep`) has one function, without faults: a
group of branches a,a and a. The second use of "a" is branch 2's while branch 1
is being planned and branch 1's once it is decided; one gets the other's output.

`SoundFunctions` leaves this out, and the functions of section 6.

Runs of `ConnectWorker`:

| Run | Shows |
| --- | --- |
| `ConnectWorker` (pass, 387,523 states) | three connections, one request, one lost or refused websocket, one drain, one refused start request, one `close()` (also before `start()`), two expired shutdowns. `ClosedIsFinal`, `DrainsBeforeClosed`, `ActiveIsReady`; under `GatewaySpec` also `CloseEndsRun`, `Reconnects`, `HandshakeCompletes` |
| `CloseWhileConnecting` refutes `CloseReturns` | `_close` ends while `run()` is inside `websockets.connect`; the websocket opens, and `wait_for_change` waits for a change that was already made |

Three connections let the second one be replaced as well (one by a drain, one by
a lost websocket), and one request is enough to keep the handlers open. The
shutdown's timeout can expire in `_close` and again at the end of `run()`, so two
expirations are needed for the worker to end whatever else happens. A second
effective `close()` (the first CLOSING is overwritten by a reconnection) is
beyond the run's bounds but not beyond the proofs: `ClosedIsFinal` and
`DrainsBeforeClosed` are theorems for any number. A `close()` or a signal before
`start()` finds no loop to schedule the shutdown on: CLOSING is set, the start
request overwrites it with CONNECTING (`connection.py` 332), and the worker runs
on as if nothing had been asked; `CloseEndsRun` therefore speaks of scheduled
shutdowns. When `MaxStarts` responses were given the next start request fails
for good, so that no task waits for the bound. `CloseEndsRun` (after a `close()`
and after a fatal error) excepts the hang of `CloseWhileConnecting` (`Hung`), and
`ActiveIsReady` and `HandshakeCompletes` a connection that an outdated send task
disturbed.

*Fairness of ConnectWorker.* `FairSpec`: the program calls `start()`, the event
loop runs each task that can go on, a start request gets an answer or times out
(five seconds), `websockets.connect` ends (ten seconds), functions end, and
`_wait_for_handlers_closed` ends by its own timeout. Losses, drains and calls of
`close()` are never fair. `GatewaySpec` adds that a gateway greets and gets
ready; only `HandshakeCompletes` needs it.

*Fairness of Execution.* `FairSpec` assumes that a request the web server accepted goes on
(each framework awaits the handler), that handlers end, and that the Executor
sends what it queued and applies what it received, per slot; sleeps end. Faults
are never fair. Only `RunEnds` uses it.

Runs of the other modules:

| Run | Shows |
| --- | --- |
| `ConnectExecution` (pass, 245,679 states) | two deliveries, of one request id or of two, replies that fit (1), fill (2) or exceed (3) a buffer of two bytes, one fault (a lost websocket, a renewed, a refused or a lost lease, a refusal that follows a renewal). `TypeOK` with the buffer's size equation, `NeverDrainedEarly`, `NoReplyLost`, `LeaseCurrent`; `DrainCompletes`, `RepliesSettle` |
| `UnflushedReplies` refutes `UnackedRepliesFlushed` | the close sequence cancels the poller as soon as nothing is pending; a reply that was not acknowledged is dropped |
| `ValueWatcher` (pass, 100,520 states) | two threads, up to four changes among three values, any call. `TypeOK` (with: no queue outlives its call, one thread wins `set_if`), `NoLostWakeup`, `ReturnsHeldValue`; `EveryMatchEnds` |
| `Serve` (pass, 175,994 states) | six configurations (keys rotating with Inngest taking the new one only or both, a wrong key, Dev Server with and without functions, streaming, thread pool or none, sync web server), 128 requests, and one of four others that shares the thread. `Authentic`, `RunsOnFetchedState`, `RotationSafe`, `HooksPaired`, `AnsweredAsEnded`, `LogsNewCode`, `SentOnce`; `EveryRequestEnds` |
| `LoggingOnPool` refutes `ReplayIsQuiet` | a sync function on a pool thread logs while it replays, because an earlier request on that thread enabled the logger in the thread's context |
| `SyncError` refutes `SyncErrorReported` | a registration that Inngest refused is answered with 200 (`handler.py` 707 builds the error and does not return it) |
| `StateTransforms` (pass, 549,434 states) | two runs; encryption alone, before and after the remote state; switched on and rotated in five deployments, rotated in two, or one deployment; two faults. `SeesWhatWasReturned`, `OutputsSealed`, `OnlyOldWorkersFail`, `EveryRunEnds` |
| `ParallelInvoke` refutes `InvokedDataSealed` | the data of an invocation that is planned with other steps is not encrypted, since `transform_output` is skipped for several steps (`manager.py` 257) |

*Bounds.* `ConnectExecution`: two tasks are what it takes for a duplicate, for an
eviction and for a lease round that overlaps an acknowledgement; a third byte
size is rejected. `ValueWatcher`: with four changes among three values the same
value is set, left and set again while a thread still notifies. `Serve`: three
attempts instead of the five of `client_lib/client.py` 37 (a first, a middle and a last
one); one thread, because what is asked of a thread is what it keeps between two
requests; two requests, since handlers share nothing but threads. The requests
enumerate each dimension with the others at a default, and cross those that the
code tests together (signature and body; method, signature, server kind and
in-band header; hook, middleware, kind of function, memos and whether one is
left). `StateTransforms`:
five deployments are the documented way to switch encryption on and to rotate a
key once; two faults are a failed save and a lost reply of the same step.

*Fairness.* `ConnectExecution`: the event loop runs its tasks, functions end,
time passes and the worker reconnects; nothing is assumed of the Executor, which
may never acknowledge. `ValueWatcher`: a thread that changed the value goes on to
notify (there is no await in the setter) and the event loop runs coroutines that
can go on; no set, call or timeout is assumed. `Serve`: the loop and the threads
run, functions end, requests to Inngest are answered or time out (each has a
timeout, `client_lib/client.py` 129, `net.py` 59); no request has to arrive and no reader has
to stay. `StateTransforms`: the Executor retries, workers answer, deployments go
on; a request need not go to a new worker while old ones take requests.

`CHECK_DEADLOCK` is off where the system comes to rest: all requests answered,
all runs ended, the worker closed.

## 4. Proofs

`ExecutionProofs` holds for every set of user functions that satisfies
`FunctionsAssumption` (a well-typed function whose single steps are groups of
one), any number of slots, attempts and faults.

- `Invariance`: `Spec => []IInv`. `IInv` is `TypeOK` with, for every slot, what a
  targeted request may have done so far: its collected responses and its result
  name no step but the target, and inside a handler the entered id is the target
  and the request is at a step. `OnlyTheTarget` alone is not inductive: it says
  nothing of the responses a group has collected but not yet raised.
- `TypeCorrect`: `Spec => []TypeOK`.
- `Isolation`: `Spec => []OnlyTheTarget`.

The argument: one lemma per operator of `Replay` (`InterruptedOK`, `PoppedOK`,
`HandlerNestedOK`, ...) says that it keeps a request well typed and on target;
`SdkIInv` goes through the SDK's actions with them, `ExecutorIInv` through the
Executor's. Only the nested step needs a thought: its response is on target
because `MustSkip` was decided for the inner id.

The other properties are false for some user functions, so their theorems have
hypotheses about the function, which `UserCode` states, which TLC evaluates on
the functions of the run (`SoundFunctionsAreSound`), and none of which the SDK
checks. `TellsApart`: the ids tell the steps apart. The nth use of an id is hashed
with the number n - 1 in the order the function comes by the uses, and a request
that leaves a callable of a group early does not come by the rest of it. So an id may be
reused in sequence or between the first steps of a group's callables, but not
otherwise in a group (the run `ReusedInBranches` shows what happens then); no id may be written the way
another one is numbered; no nested step may have the name of a step. `Key(f, p)`
is then the hash of step `p` in every request.

`SdkMoves` sums up what any step of the SDK makes of a request (`Moves`: it
begins, enters a handler, goes on, leaves or closes a callable, resumes after a
group, ends), so that the following layers look at seven moves instead of
fourteen actions. Each layer is proved over the ones before it:

1. `Fitting`: a request has counted the id of each step ahead of it as often as it
   came by steps of that id (`Counts`), so it hashes the step to its key; and
   every memo, response, collected or not, and sleeping step names a step and
   carries its key. A nested sleep fits no step and has no step's name.
2. `Tokens`: a step that is a target is a token that one queued job or one request
   holds, and none once the step is decided or asleep (`TargetsOpen`,
   `OneHolder`). Until a request reports several steps at once there is one job,
   request or sleeping step in all (`OneAtATime`), and it has all memos or is
   behind none that is new (`UpToDate`). From then on untargeted requests plan
   and never run a handler, which is what `disable_immediate_execution` is for.
3. `ReturnsOnce`: a step whose handler returned more often than faults allow, or
   ended for good (`Spent`), is decided, or its holder brings back what decides it
   or ends the run, or the run ended and nobody holds it (`Over`). A step that is
   over is in no handler (`OverIsOver`), which is `AtMostOnce` and, one step later,
   `NonRetriableStaysDead`.
4. `Progressing`: a step is *ready* when the function goes on after every step
   before it (`Past`: decided, with data or with an error that is caught). A
   request stands at a ready step, and what it reports, targets or waits for is
   ready (`InOrder`); the memos it was sent stay true, so `Past` only grows. In a
   group that it replays to the end without a response, every callable so far is
   past and has put out its output; and it is not behind its target without a
   response, so a swallowed skip cannot hide a missing one (`Advanced`).
5. `DecidedOnce`: no two memos of one step, no memo of a sleeping step, and data
   only from a handler that may return. It needs `OneDecision`: a response
   decides one step at most, although it may report several.

Layers 4 and 5 speak of nested steps too, which a targeted request skips before
the nesting is detected (section 6). So their hypotheses keep those apart:
no handler calls a step in a group (`GroupsDoNotNest`), or calls anything but a
step.run (`NestsRunsOnly`: outside a group a nested sleep is reported and
memoized like a step), and a handler that may call a step always does
(`NestsAlways`, for "a function that nests steps does not complete").

- `FittingAlways`, `MemosFit`: under `TellsApart`, `Spec => []MemoFitsStep`.
- `TokensAlways`, `ReturnsAlways`, `ReturnsAtMostOnce`: under `TellsApart`,
  `Spec => []AtMostOnce`.
- `NoRetryOfTheDead`: `Spec => NonRetriableStaysDead` if moreover an except clause
  around a step catches no NonRetriableError or RetryAfterError
  (`CatchesStepErrors`: the function would go on, return or plan other steps, and
  the error would reach nobody) and every output can be encoded (`Encodes`,
  section 6).
- `ProgressAlways`, `GroupsAreComplete`: under `TellsApart`, `CatchesStepErrors`
  and `GroupsDoNotNest`, `Spec => []GroupsReturnEverything`.
- `DecidedOnceAlways` under `TellsApart` and `NestsRunsOnly`; and under these,
  `CatchesStepErrors`, `GroupsDoNotNest` and `NestsAlways`, `NestingIsRejected`:
  `Spec => []NestedStepsRejected`. The hypotheses leave out what the SDK does not
  detect: nesting in a group, and of a step that is no step.run (section 6).
- `RefinesDurableRun`: under all of them but `Encodes` and `NestsAlways`,
  `Spec => ImplementsDurableRun`. `StepMaps` maps each step: `Apply` of a response
  that decides and `Wake` are `Decide`, `Apply` of a return is `Complete`, what
  ends the attempts is `Fail`, and everything else stutters. `DecisionMaps` is the
  heart of it: a memo that is new, of a ready step, is a `Decide` of that step.

`ConnectWorkerProofs` holds for every number of connections, requests, faults,
calls of `close()` and timeouts. `IInv` is `TypeOK` with `Shutdown`: closed
handlers have no pending request and no start request; the start request's task
ended only because of that, of a fatal error, or because the worker is CLOSED
with `conn_init` None; CLOSED without an expired timeout means closed handlers
and no `conn_init`. `ClosedIsFinal` needs the last part: READY sets ACTIVE
without looking at the state, and only `conn_init` being None keeps it from
being handled, which only the start request could change.

- `Final`: `Spec => ClosedIsFinal`. `Drained`: `Spec => []DrainsBeforeClosed`.
- `TypeCorrect`: `Spec => []TypeOK`, hence the pending count stays natural.
- `Connected`: `Spec => []ActiveIsReady`, from a second invariant over `IInv`,
  `Connection`: `State.ws` and every send under way belong to the websocket that
  `run()` opened last, and while that websocket is not `State.ws` any more its
  gateway has greeted, so the handshake that was reset waits in vain for a HELLO.
  Without the last part READY could turn a connection ACTIVE whose websocket was
  given up.

`ValueWatcherProofs` holds for any number of threads, calls, values and changes;
`SentinelsAssumption` says that None and the timeout are no values. `IInv` adds
to the invariants what is on its way: what a setter still has to put in a queue
was held while that call waited, the call is still listed or done, and a call
that has begun has seen the present value held. `NoLostWakeup` is then
inductive, because a setter copies the list under the lock and a call reads the
value again after it registered.

- `TypeCorrect`, `WakeupsKept`, `ReturnedWasHeld`.

`ReplyBufferProofs` shows that `Delete` and `Add` keep a buffer `Sound` (the size
is the bytes of the items, within the limit, one item per request) and what they
keep and take out (`DeleteKeeps`, `AddKeeps`). It needs induction over the length
of a sequence. The library's induction theorems take an operator, which the
provers cannot instantiate; `NumberLemmas.SetInduction` states induction for a
set of numbers instead and is proved from the pigeonhole theorem.

`ConnectExecutionProofs` holds for any number of requests, deliveries, replies
and faults. `IInv` has seven parts: types, with a sound buffer; deliveries are
numbered, and the counter is at most their number (`Numbered`); the counter
covers what is unfinished (`Drains`); an entry is of a task of its request, and
the only task of a request has it until its callback ran (`Entries`); buffered
replies are of the request their task executed (`Origins`); an acknowledgement in
flight grants the lease in force, whether or not a refusal follows it (`Granted`); and a reply is safe from the moment
it is made (`RepliesSafe`), which `NoReplyLost` says only of ended tasks.
`NeverDrainedEarly` is inductive although a duplicate's callback may find no
entry: then the counter stays too high, never too low.

- `TypeCorrect`, `DrainWaits`, `RepliesKept`, `LeasesCurrent`.

`ServeProofs` holds for every configuration, every set of requests and of
middleware, any number of threads. The invariant is built in layers, each proved
over the ones before it:

1. `Handled`: types, what a request has at each stage (`Progress`), and one
   request at a time per thread.
2. `Fetched` (both fetches answered before the function runs; what a fallback
   shows of the keys), `Verified` (what the key of a request shows),
   `Sending` (a send that was tried has stored its seed).
3. `Begun` (`before_execution` was called once, at the first new step, or is
   still to come because a memo is left) and over it
   `Speaks` (whose turn it is on the logger of a context). A pool thread may begin
   with the logger of an earlier request, so `Speaks` says nothing of it until
   `before_execution`.
4. `History` (each hook of each middleware at most once, and only those the stage
   has reached) and over it `Transforms` (the transforms of the input come first,
   in order, those of the output contiguous, in the opposite order).
5. `Decided`: a hook that failed, other than a `before_execution` whose error is
   dropped, decides the result, and the result the answer.

- `TypeCorrect`, `OnlyAuthentic`, `FetchedStateRuns`, `KeysRotate`,
  `HooksArePaired`, `AnswersAreTrue`, `NewCodeLogs`, `EventsSentOnce`.

`StateTransformsProofs` holds for all keys, sequences of deployments, functions,
orders of the two middleware, and any number of faults. `IInv` has two parts.
`Control`: each program is well formed, a request is at a deployment that was
started, and only the parent waits. `Contents`: every event, memo, reply and
output that the Executor keeps is what was returned, in plain text or encrypted
with a key of a deployment started so far (`Is`), or names a stored object that
is (`Stored`), under at most the layer that `transform_input` of this order can
remove. The hooks are a fold over the installed middleware; the lemmas
`InputNone` to `OutputTwo` compute it for each of the five orders, and `Legible`
says when a deployment can read what the Executor holds. `OnlyOldWorkersFail`
follows because a worker of the newer deployment has every key used so far.

- `TypeCorrect`, `SeesRight`, `Sealed`, and the action property `OldWorkersOnly`.

*Model-checked only.* Liveness under fairness, which is outside the prover, as
ENABLED is: `RunEnds`, `CloseEndsRun`, `Reconnects`, `HandshakeCompletes`,
`DrainCompletes`, `RepliesSettle`, `EveryMatchEnds`, `EveryRequestEnds` and
`EveryRunEnds`.

## 5. Plan

Every module of the plan is written. Every safety invariant and every action
property that a run expects to hold, and the refinement of `DurableRun`, is a
theorem. What is left is breadth: the parts that section 7 names, and weaker
hypotheses about nested steps.

## 6. Divergences without a run

These were met while modelling and are not run, because each repeats what a run
of section 3 shows of the same module or because the documentation does not say
enough for a property. The three that are stated in `ConnectWorker` are refuted
by TLC when they are given to a configuration with two connections, one request,
one drain and one close:

- `HeartbeatsAfterHandshake`: the handshake-complete flag of the drained
  connection lets a heartbeat through on the next websocket
  (`connect/heartbeat_handler.py` 59; 56: "We can't send heartbeats until the
  handshake is complete").
- `HandshakeInOrder`: HELLO and CLOSING arrive together, the send task starts
  without a websocket, waits for the next one and sends the old data there,
  before its HELLO (`connect/init_handshake_handler.py` 177, 219).
- `PausedWhileClosing`: a drain between READY and the pause; requests go on
  draining on a gateway that was never paused (`connect/isolated_worker.py` 233).

Functions for which properties of `Execution` fail: ids like "a", "a:1", "a" (the
third step hashes like the second, `base.py` 120, finds the memo popped and runs
on every request: `AtMostOnce`, `MemoFitsStep`); one that catches a
NonRetriableError of a step (`step_async.py` 211: nothing is memoized, so each
replay runs the handler again: `NonRetriableStaysDead`); a sleep nested in a
`step.run`, which `report_step` reports to the Executor (`v0.py` 112) before
`ReportedStep.__aenter__` runs (`NestedStepsRejected`); a step nested in a *targeted*
step of a group is skipped before the nesting is detected, and the run completes
(`NestedStepsRejected`, `v0.py` 83); with three parallel steps a targeted handler
may run while a sibling's memo is left, so before `before_execution`
(`v0.py` 68; `middleware.py` 48: "Called before executing new code"); the response for an
output that JSON cannot encode lacks the no-retry header (`models.py` 174),
although `errors.py` 145 makes the error non-retriable and
`docs/REQUEST_LIFECYCLE.md` 68 has such errors answered with the header, so the
Executor retries, and a step in parallel loses its siblings' responses.
`NonRetriableStaysDead` and `AnsweredAsEnded` leave such outputs out.

Around one request: `client.send` in a function creates a middleware manager,
whose `LoggerMiddleware` disables the logger of the function that calls it
(`client_lib/client.py` 408, `middleware_lib/log.py` 20; `LogsNewCode` excepts it). An
error that `before_execution` returns is dropped in `report_step` (`v0.py` 69),
so a failing hook *is* passed over there, which `AnsweredAsEnded` and
`HooksPaired` except (`HookFailed`). `transform_output` is called with errors
(`manager.py` 264), although `middleware.py` 83 and 156 say that it is not;
`HooksPaired` asserts neither. A targeted step that a sibling's memo lets run
before `before_execution` runs with the logger silent, which `LogsNewCode`
excepts. `after_send_events_sync` looks for an async
`after_execution` (`manager.py` 135). A 4xx or 5xx JSON answer without "error"
makes `send` return no ids and no error (`WithoutError`). A streamed answer's
body is not signed. In-band sync does not compare the server kinds, although
`docs/SYNC.md` 46 says both mechanisms do; `Authentic` asks it of the out-of-band
sync only. A signature whose timestamp is no number raises out of the handler
(`Unverifiable`) instead of being answered with 401. `net.py` 319 says that environment
variables take precedence, and `config_lib` prefers the value in code.

In Connect: a second delivery of a pending id leaves the counter above zero for
good (`DrainCompletes` excepts it), and the flush of the first reply deletes a
newer one of the same id (`execution_handler.py` 497). An extension may be sent
for a request that ended. One that was sent before the acknowledgement of the one
before it carries an outdated lease id; when the Executor refuses it, the refusal
cancels the request, although its lease was renewed (`execution_handler.py` 395,
408). A reply whose lease was lost, or whose one flush failed, may be dropped
(`NoReplyLost` excepts both). An error outside the function is answered with a reply
that is not buffered (324).

In the encryption middleware: the event that `step.wait_for_event` returns is
not decrypted, since `_decrypt` looks for a ciphertext at the top level of a
memo, and there the memo is a whole event (`main.py` 238;
`SeesWhatWasReturned` excepts it).

## 7. Not modelled

Signature computation, ciphers, JSON and protobuf encoding, URL building,
registration payloads, the text of logs and errors (data, no control). How the
mode and the keys are read from the environment. Framework adapters (they
translate request objects). The mocked client and trigger (a test double of the
Executor that runs one request at a time). AI adapters, realtime publishing, the
Sentry middleware and the dev server runner (requests and subprocesses without
state of their own). Generated protobuf code. The in-memory driver of the remote
state, which keeps values by reference. The Executor's own features beyond
section 2: cancellation, concurrency limits, batching, `ParallelMode.RACE`.

Non-deterministic user functions are outside the model: a function is fixed data
for the whole run.
