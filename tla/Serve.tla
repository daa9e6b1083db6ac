-------------------------------- MODULE Serve --------------------------------
(***************************************************************************)
(* CommHandler (comm_lib/handler.py): the requests of an Inngest server,   *)
(* over HTTP or Connect, from the signature check to the answer: running a *)
(* function (POST), syncing the app (PUT), inspecting it (GET). Net has    *)
(* the signatures and the authenticated requests, Middleware the hooks,    *)
(* Send the events a function sends. A function is what the middleware and *)
(* the answer can tell apart: how it ends and what it does before; how it  *)
(* replays is the module Execution.                                        *)
(***************************************************************************)
EXTENDS Net, Send, FiniteSets

CONSTANTS
    Requests,   \* bound: numbers of the requests
    Threads,    \* of the thread pool, or of the web server if it is sync
    Configs,    \* how the app is configured
    Shapes      \* the requests that may arrive, per number

\* Every request's function may send, and has a context that is no thread's.
ASSUME ServeAssumption ==
    /\ Callers = Requests /\ Requests \subseteq Nat
    /\ Nobody \notin Threads /\ Requests \cap Threads = {}

\* CommHandler.__init__ raises in production if there is no signing key.
ASSUME ConfigsAssumption ==
    \A c \in Configs :
        /\ c.mode \in {"dev", "cloud"} /\ c.server \in {"async", "sync"}
        /\ {c.key, c.fallback} \subseteq Keys \cup {None}
        /\ c.accepts \subseteq Keys
        /\ c.mode = "cloud" => c.key # None

\* What a function can end with: the results of its steps, exceptions, outputs.
Interrupts == {"step", "step error", "failed step", "plan"}
Errors == {"error", "non-retriable", "retry after"}
Endings == Interrupts \cup Errors \cup {"output", "unserializable"}

\* Of these, what a function or a step returned.
Values == {"step", "output", "unserializable"}

\* A request's middleware are instances: none is installed twice.
ASSUME ShapesAssumption ==
    \A r \in Requests : \A shape \in Shapes[r] :
        /\ shape.method \in {"POST", "PUT", "GET"}
        /\ shape.sig \in Keys \cup {None, "malformed", Unreadable}
        /\ shape.fn \in {"async", "sync", "unknown", None}
        /\ shape.sends \in {"no", "client", "step"} /\ shape.ends \in Endings
        /\ {shape.connect, shape.inBand, shape.probe, shape.useApi,
             shape.memos, shape.left, shape.events} \subseteq BOOLEAN
        /\ shape.left => shape.memos
        /\ shape.own \in Seq(Range(shape.own))
        /\ IsInjective(Installed(shape.own))

VARIABLES
    conf,       \* the handler's fields, from its arguments and the environment
    req,        \* per request: what arrived, where its handling is, the key it
                \* was signed with, its thread, whether before_execution was
                \* called (_disabled_hooks), its result and its answer
    fetch,      \* per request: its authenticated requests to Inngest
    logging,    \* _logging_enabled, per thread and per request's own context
    synced      \* the requests whose sync Inngest accepted

vars == <<log, send, stored, conf, req, fetch, logging, synced>>
sending == <<log, send, stored>>

NoAnswer == [status |-> 0, key |-> None, body |-> "none",
             noRetry |-> FALSE, retryAfter |-> FALSE]

Fetches == {"batch", "steps", "register"}

\* CommHandler.__init__: in production there is a signing key or an exception.
Init ==
    /\ SendInit
    /\ conf \in Configs
    /\ req = [r \in Requests |->
                [pc |-> "idle", shape |-> Nobody, key |-> None,
                 thread |-> Nobody, begun |-> FALSE, result |-> "none",
                 stream |-> "no", answer |-> NoAnswer]]
    /\ fetch = [r \in Requests |-> [f \in Fetches |-> "none"]]
    /\ logging = [c \in Requests \cup Threads |-> FALSE]
    /\ synced = {}

Sync == conf.server = "sync"
Shape(r) == req[r].shape

\* Mutant of Idle: a thread is handed a request while it handles another.
BusyOrIdle(t) == TRUE

Idle(t) == \A r \in Requests : req[r].thread # t

\* Where a request is handled and where its function runs: a context per
\* request of an async server, otherwise the one of a thread.
Context(r) == IF req[r].thread = Nobody THEN r ELSE req[r].thread

Goes(r, place) == req' = [req EXCEPT ![r].pc = place]

-----------------------------------------------------------------------------
(* Requests and answers.                                                    *)

\* A web server calls the handler, a sync one on a thread of its own; Connect
\* calls post, which is async.
Arrive(r, shape) ==
    /\ req[r].pc = "idle" /\ \A q \in Requests : q < r => req[q].pc # "idle"
    /\ shape.connect => ~Sync
    /\ \E t \in IF Sync THEN {u \in Threads : Idle(u)} ELSE {Nobody} :
        req' = [req EXCEPT ![r].shape = shape, ![r].thread = t,
            ![r].pc = "arrived",
            ![r].key = IF shape.connect THEN None
                       ELSE ValidateRequestSig(shape.body, shape.sig, conf)]
    /\ UNCHANGED <<sending, conf, fetch, logging, synced>>

\* CommResponse.sign, if the request was signed.
Signed(key) == IF IsError(key) THEN None ELSE key

\* The end of wrap_handler: a returned exception is an error response.
Answer(r, status, body) ==
    [NoAnswer EXCEPT !.status = status, !.body = body,
                     !.key = Signed(req[r].key)]

Answers(r, status, body) ==
    req' = [req EXCEPT ![r].pc = "answered", ![r].thread = Nobody,
                       ![r].answer = Answer(r, status, body)]

\* wrap_handler(require_signature) for POST; the others decide themselves.
MayPass(r) == Shape(r).method = "POST" => ~IsError(req[r].key)

\* An exception leaves the handler; the web server answers for it.
Escapes(r) ==
    req' = [req EXCEPT ![r].pc = "escaped", ![r].thread = Nobody]

\* validate_request_sig raised, in wrap_handler.
Unverifiable(r) ==
    /\ req[r].pc = "arrived" /\ req[r].key = Unreadable
    /\ Escapes(r)
    /\ UNCHANGED <<sending, conf, fetch, logging, synced>>

\* The 401 of wrap_handler, before headers and signature.
Unauthorized(r) ==
    /\ req[r].pc = "arrived" /\ req[r].key # Unreadable /\ ~MayPass(r)
    /\ req' = [req EXCEPT ![r].pc = "answered", ![r].thread = Nobody,
                 ![r].answer = [NoAnswer EXCEPT !.status = 401, !.body = "error"]]
    /\ UNCHANGED <<sending, conf, fetch, logging, synced>>

-----------------------------------------------------------------------------
(* POST: running a function.                                                *)

\* CommHandler._get_function, also by the id of a function's on_failure.
Found(r) == Shape(r).fn \in conf.functions

\* post up to the function call: the probe, then what makes it an error.
EarlyAnswer(r) ==
    CASE Shape(r).probe -> <<200, "nothing">>
      [] ~Shape(r).probe /\ ~(Shape(r).body = "ok" /\ Found(r)) -> <<500, "error">>
      [] ~Shape(r).probe /\ Shape(r).body = "ok" /\ Found(r)
            /\ ~Shape(r).useApi /\ ~Shape(r).events -> <<500, "error">>
      [] OTHER -> << >>

\* Mutant of Quiet: the logger is as the context's last request left it.
AsLeft(r) == UNCHANGED logging

\* MiddlewareManager.from_client creates LoggerMiddleware, which disables the
\* logger in the context of the handler.
Quiet(r) == logging' = [logging EXCEPT ![Context(r)] = FALSE]

\* Mutant of Starts: the steps are only fetched by a sync server.
StartsBatch(r) == [fetch[r] EXCEPT !["batch"] = "first"]

\* Both fetches start at once (asyncio.gather), or the batch first.
Starts(r) == IF Sync THEN [fetch[r] EXCEPT !["batch"] = "first"]
             ELSE [fetch[r] EXCEPT !["batch"] = "first", !["steps"] = "first"]

\* An async function becomes a task, and its answer a stream if the handler
\* streams; a sync one goes to the thread pool, or blocks if there is none.
Calls(r) ==
    LET pooled == ~Sync /\ Shape(r).fn = "sync" /\ conf.pool
        stream == ~Sync /\ Shape(r).fn = "async" /\ conf.streaming
    IN  req' = [req EXCEPT ![r].pc = IF pooled THEN "queued" ELSE "called",
                           ![r].stream = IF stream THEN "open" ELSE "no"]

Post(r) ==
    /\ req[r].pc = "arrived" /\ Shape(r).method = "POST" /\ MayPass(r)
    /\ IF Shape(r).probe THEN UNCHANGED logging ELSE Quiet(r)
    /\ CASE EarlyAnswer(r) # << >> ->
              Answers(r, EarlyAnswer(r)[1], EarlyAnswer(r)[2]) /\ UNCHANGED fetch
         [] EarlyAnswer(r) = << >> /\ Shape(r).useApi ->
              Goes(r, "fetching") /\ fetch' = [fetch EXCEPT ![r] = Starts(r)]
         [] EarlyAnswer(r) = << >> /\ ~Shape(r).useApi ->
              Calls(r) /\ UNCHANGED fetch
    /\ UNCHANGED <<sending, conf, synced>>

\* Whether Inngest takes the key that this request's registration carries.
Accepted(r) ==
    conf.mode = "dev" \/ AuthKey(fetch[r]["register"], conf) \in conf.accepts

\* An answer to an authenticated request, or its failure. The answer to a
\* registration may be lost or unreadable after Inngest took it.
FetchAnswer(r, f) ==
    /\ fetch[r][f] \in Waiting /\ req[r].pc \in {"fetching", "registering"}
    /\ \E answer \in ApiAnswers(AuthKey(fetch[r][f], conf), conf) :
        /\ fetch' = [fetch EXCEPT ![r][f] =
                        FetchWithAuthFallback(@, answer, conf.fallback)]
        /\ synced' \in IF f # "register" THEN {synced}
                       ELSE IF answer = "ok" THEN {synced \cup {r}}
                       ELSE IF answer \in {"invalid", "failed"} /\ Accepted(r)
                       THEN {synced, synced \cup {r}} ELSE {synced}
    /\ UNCHANGED <<sending, conf, req, logging>>

Fetching(r, server) == req[r].pc = "fetching" /\ conf.server = server

\* Mutant of Usable: the steps are not looked at.
UsableBatch(r) == fetch[r]["batch"] = "ok"

Usable(r) == fetch[r]["batch"] = "ok" /\ fetch[r]["steps"] = "ok"

\* What gather returns: a raised BodyInvalidError at once, otherwise both
\* results, of which a returned exception is the answer.
Gathered(r) ==
    /\ Fetching(r, "async")
    /\ \/ /\ \E f \in {"batch", "steps"} : fetch[r][f] = "invalid"
          /\ Escapes(r)
       \/ /\ \A f \in {"batch", "steps"} : fetch[r][f] \in Got \ {"invalid"}
          /\ IF Usable(r) THEN Calls(r) ELSE Answers(r, 500, "error")
    /\ UNCHANGED <<sending, conf, fetch, logging, synced>>

\* post_sync: the steps are fetched after the batch.
FetchedSync(r) ==
    /\ Fetching(r, "sync")
    /\ \/ /\ fetch[r]["batch"] = "ok" /\ fetch[r]["steps"] = "none"
          /\ fetch' = [fetch EXCEPT ![r]["steps"] = "first"]
          /\ UNCHANGED req
       \/ /\ Usable(r) /\ Calls(r) /\ UNCHANGED fetch
       \/ /\ \E f \in {"batch", "steps"} : fetch[r][f] = "invalid"
          /\ Escapes(r) /\ UNCHANGED fetch
       \/ /\ \E f \in {"batch", "steps"} : fetch[r][f] \in Got \ {"ok", "invalid"}
          /\ Answers(r, 500, "error") /\ UNCHANGED fetch
    /\ UNCHANGED <<sending, conf, logging, synced>>

\* run_in_executor: the pool has as many threads as max_workers.
StartsOnPool(r, t) ==
    /\ req[r].pc = "queued" /\ ~Sync /\ Idle(t)
    /\ req' = [req EXCEPT ![r].pc = "called", ![r].thread = t]
    /\ UNCHANGED <<sending, conf, fetch, logging, synced>>

-----------------------------------------------------------------------------
(* The function call.                                                       *)

\* A sync function's hooks run through the *_sync methods.
SyncHooks(r) == Shape(r).fn = "sync"
OfRequest(r) == Installed(Shape(r).own)
Hook(r, hook) == Called(OfRequest(r), hook, Shape(r).raises, SyncHooks(r))
NoCalls == [calls |-> << >>, error |-> FALSE]

\* MiddlewareManager.before_execution is called once.
BeforeExecution(r) ==
    IF req[r].begun THEN NoCalls ELSE Hook(r, "before_execution")

\* LoggerMiddleware.before_execution, first of all.
Enable(r, called) ==
    logging' = IF \E i \in DOMAIN called.calls : called.calls[i][2] = Head(OfClient)
               THEN [logging EXCEPT ![Context(r)] = TRUE] ELSE logging

\* The function meets a step that no earlier request decided.
MeetsNewStep(r) ==
    Shape(r).sends = "step" \/ Shape(r).ends \in {"step", "failed step", "plan"}

\* ExecutionV0.run up to the handler: transform_input, and before_execution
\* when no step is memoized. An error of either is the result.
Begins(r) ==
    LET input  == Hook(r, "transform_input")
        before == IF input.error \/ Shape(r).memos THEN NoCalls
                  ELSE BeforeExecution(r)
    IN  /\ req[r].pc = "called"
        /\ log' = [log EXCEPT ![r] = @ \o input.calls \o before.calls]
        /\ Enable(r, before)
        /\ req' = [req EXCEPT
              ![r].begun = ~input.error /\ ~Shape(r).memos,
              ![r].result = IF input.error \/ before.error THEN "error" ELSE @,
              ![r].pc = IF input.error \/ before.error THEN "ended"
                        ELSE IF Shape(r).memos \/ MeetsNewStep(r) THEN "reporting"
                        ELSE "executing"]
        /\ UNCHANGED <<send, stored, conf, fetch, synced>>

\* report_step calls before_execution when no memo is left. One is left when a
\* targeted step is met before a memoized one of its group.
InReport(r) == IF Shape(r).left THEN NoCalls ELSE BeforeExecution(r)

\* report_step up to the first code that is new; it drops the error of
\* before_execution.
Reports(r) ==
    /\ req[r].pc = "reporting"
    /\ Logged(r, InReport(r))
    /\ Enable(r, InReport(r))
    /\ req' = [req EXCEPT ![r].pc = "executing", ![r].begun = ~Shape(r).left]
    /\ UNCHANGED <<send, stored, conf, fetch, synced>>

\* The memo that was left is met after the targeted step ran: before_execution.
ReportsLate(r) ==
    /\ req[r].pc = "executing" /\ ~req[r].begun
    /\ Shape(r).sends = "no" \/ SendEnded(r)
    /\ Logged(r, BeforeExecution(r))
    /\ Enable(r, BeforeExecution(r))
    /\ req' = [req EXCEPT ![r].begun = TRUE]
    /\ UNCHANGED <<send, stored, conf, fetch, synced>>

\* The manager of client.send has the client's middleware only.
OfSend(r) == IF Shape(r).sends = "client" THEN OfClient ELSE OfRequest(r)

\* The function sends events: client.send, or step.send_event. client.send
\* creates a LoggerMiddleware of its own, which disables the logger.
Sends(r) ==
    /\ req[r].pc = "executing" /\ Shape(r).sends # "no"
    /\ BeginSend(r, Shape(r).sends, OfSend(r),
                 conf.eventKey \/ conf.mode = "dev",
                 Shape(r).raises, SyncHooks(r))
    /\ IF Shape(r).sends = "client" THEN Quiet(r) ELSE UNCHANGED logging
    /\ UNCHANGED <<conf, req, fetch, synced>>

Tries(r) ==
    /\ Attempt(r)
    /\ UNCHANGED <<conf, req, fetch, logging, synced>>

Sent(r) ==
    /\ FinishSend(r, Shape(r).sends, OfSend(r), Shape(r).raises, SyncHooks(r))
    /\ UNCHANGED <<conf, req, fetch, logging, synced>>

\* What the function ends with: an exception of send is the function's, one of
\* step.send_event the step's.
Outcome(r) ==
    CASE Shape(r).sends = "no" -> Shape(r).ends
      [] Shape(r).sends = "step" ->
            IF send[r].pc = "raised" THEN "step error" ELSE "step"
      [] Shape(r).sends = "client" ->
            IF send[r].pc = "raised" THEN "error" ELSE Shape(r).ends

\* The handler returns or raises; after_execution unless it raised.
HandlerEnds(r) ==
    LET after == Hook(r, "after_execution")
    IN  /\ req[r].pc = "executing" /\ (Shape(r).sends = "no" \/ SendEnded(r))
        /\ IF Outcome(r) \in Errors
           THEN /\ UNCHANGED log
                /\ req' = [req EXCEPT ![r].pc = "ended", ![r].result = Outcome(r)]
           ELSE /\ Logged(r, after)
                /\ req' = [req EXCEPT ![r].pc = "ended",
                     ![r].result = IF after.error THEN "error" ELSE Outcome(r)]
        /\ UNCHANGED <<send, stored, conf, fetch, logging, synced>>

\* Mutant of Transformed: the error of transform_output is not looked at.
TransformedAnyway(r) ==
    IF req[r].result = "plan" THEN NoCalls
    ELSE [Hook(r, "transform_output") EXCEPT !.error = FALSE]

\* transform_output, which a plan of several steps skips.
Transformed(r) ==
    IF req[r].result = "plan" THEN NoCalls ELSE Hook(r, "transform_output")

\* CommResponse.from_call_result. An output that cannot be dumped becomes
\* from_error's response, which has no retry headers.
FromCallResult(r, result) ==
    [Answer(r, IF result \in Interrupts THEN 206
               ELSE IF result = "output" THEN 200 ELSE 500,
            IF result = "unserializable" THEN "error" ELSE result)
        EXCEPT !.noRetry = result \in {"non-retriable", "failed step"},
               !.retryAfter = result = "retry after"]

\* A stream's last chunk is not signed; it is lost if the server hung up.
Delivered(r, answer) ==
    CASE req[r].stream = "no"   -> answer
      [] req[r].stream = "open" -> [answer EXCEPT !.key = None]
      [] req[r].stream = "gone" -> NoAnswer

\* Function.call after the run: an error of a hook replaces the result.
Replies(r) ==
    LET output   == Transformed(r)
        response == Hook(r, "before_response")
        result   == IF output.error \/ response.error THEN "error"
                    ELSE req[r].result
    IN  /\ req[r].pc = "ended"
        /\ log' = [log EXCEPT ![r] = @ \o output.calls \o
                      (IF output.error THEN << >> ELSE response.calls)]
        /\ req' = [req EXCEPT ![r].pc = "answered", ![r].thread = Nobody,
                     ![r].result = result,
                     ![r].stream = IF @ = "open" THEN "done" ELSE @,
                     ![r].answer = Delivered(r, FromCallResult(r, result))]
        /\ UNCHANGED <<send, stored, conf, fetch, logging, synced>>

\* The server hangs up while the stream sends keepalives: the task goes on.
HangsUp(r) ==
    /\ req[r].stream = "open" /\ req[r].pc # "answered"
    /\ req' = [req EXCEPT ![r].stream = "gone"]
    /\ UNCHANGED <<sending, conf, fetch, logging, synced>>

-----------------------------------------------------------------------------
(* PUT and GET: syncing and inspecting the app.                             *)

\* get_server_kind and the handler's mode, which a sync and an inspection
\* compare; without the header any server will do.
OtherServer(r) == Shape(r).kind # None /\ Shape(r).kind # conf.mode

InBand(r) == Shape(r).inBand /\ conf.inBandSync

\* Syncer.in_band: the app's functions, to who signed the request.
InBandAnswer(r) ==
    CASE IsError(req[r].key) \/ req[r].key = None -> <<401, "error">>
      [] ~(IsError(req[r].key) \/ req[r].key = None) ->
            IF Shape(r).body = "ok" /\ conf.functions # {}
            THEN <<200, "functions">> ELSE <<500, "error">>

\* _create_out_of_band_request: what keeps it from being built.
Refusal(r) ==
    CASE OtherServer(r) -> <<400, "error">>
      [] ~OtherServer(r) /\ conf.functions = {} -> <<500, "error">>
      [] OTHER -> << >>

\* put and put_sync, up to the registration's first request.
Put(r) ==
    LET early == IF InBand(r) THEN InBandAnswer(r) ELSE Refusal(r)
    IN  /\ req[r].pc = "arrived" /\ Shape(r).method = "PUT"
        /\ req[r].key # Unreadable
        /\ IF early # << >>
           THEN Answers(r, early[1], early[2]) /\ UNCHANGED fetch
           ELSE /\ Goes(r, "registering")
                /\ fetch' = [fetch EXCEPT ![r]["register"] = "first"]
        /\ UNCHANGED <<sending, conf, logging, synced>>

\* _parse_out_of_band_response: a response of 400 and above is prepared and
\* then not returned.
OutOfBandAnswer(r) ==
    IF fetch[r]["register"] \in {"failed", "invalid"} THEN <<500, "error">>
    ELSE <<200, "server">>

Registered(r) ==
    /\ req[r].pc = "registering" /\ fetch[r]["register"] \in Got
    /\ Answers(r, OutOfBandAnswer(r)[1], OutOfBandAnswer(r)[2])
    /\ UNCHANGED <<sending, conf, fetch, logging, synced>>

\* _build_inspection_response: who signed the request may see the keys' hashes.
Inspection(key) == IF key \in Keys THEN "authenticated" ELSE "unauthenticated"

\* get_sync, also of an async server.
Inspect(r) ==
    /\ req[r].pc = "arrived" /\ Shape(r).method = "GET"
    /\ req[r].key # Unreadable
    /\ IF OtherServer(r) THEN Answers(r, 403, "nothing")
       ELSE Answers(r, 200, Inspection(req[r].key))
    /\ UNCHANGED <<sending, conf, fetch, logging, synced>>

-----------------------------------------------------------------------------
Handle(r) ==
    \/ Unverifiable(r) \/ Unauthorized(r) \/ Post(r) \/ Put(r) \/ Inspect(r)
    \/ Gathered(r) \/ FetchedSync(r) \/ Registered(r)
    \/ \E t \in Threads : StartsOnPool(r, t)
    \/ Begins(r) \/ Reports(r) \/ ReportsLate(r) \/ Sends(r) \/ Sent(r)
    \/ HandlerEnds(r) \/ Replies(r)

Network(r) == Tries(r) \/ \E f \in Fetches : FetchAnswer(r, f)

Next == \E r \in Requests :
    \/ \E shape \in Shapes[r] : Arrive(r, shape)
    \/ Handle(r) \/ Network(r) \/ HangsUp(r)

Spec == Init /\ [][Next]_vars

\* The event loop and the threads run what is ready, functions end, and every
\* request to Inngest is answered or times out. No request has to arrive.
FairSpec == Spec /\ \A r \in Requests : WF_vars(Handle(r)) /\ WF_vars(Network(r))

-----------------------------------------------------------------------------
(* Properties.                                                              *)

Running(r) == req[r].pc \in {"called", "queued", "reporting", "executing", "ended"}

Answered(r) == req[r].pc = "answered"

\* The hook of one middleware was called and later that of the other.
CalledInOrder(r, hook, one, other) ==
    \E i, j \in DOMAIN log[r] :
        i < j /\ log[r][i] = <<hook, one>> /\ log[r][j] = <<hook, other>>

\* A hook that raised, when its error ends the call, or one that a *_sync call
\* refuses. report_step drops the error of before_execution (v0.py:69); hooks
\* around a send belong to the send.
HookFailed(r) ==
    LET hook == Shape(r).raises
    IN  \/ \E m \in Range(OfRequest(r)) : Mismatched(m, SyncHooks(r))
        \/ /\ hook \in Range(log[r])
           /\ hook[1] \notin {"before_send_events", "after_send_events"}
           /\ ~(hook[1] = "before_execution" /\ Shape(r).memos)

\* Types: keys, threads, results, fetches and attempts are what they can be,
\* and a thread, whose context the logger reads, handles one request at a time.
TypeOK ==
    /\ conf \in Configs
    /\ \A r \in Requests :
        /\ req[r].shape \in Shapes[r] \cup {Nobody}
        /\ req[r].key \in Keys \cup SignatureErrors \cup {None}
        /\ req[r].thread \in Threads \cup {Nobody}
        /\ \A q \in Requests \ {r} :
                req[q].thread = req[r].thread => req[r].thread = Nobody
        /\ req[r].result \in Endings \cup {"none"}
        /\ \A f \in Fetches : fetch[r][f] \in FetchStates \cup {"none"}
        /\ send[r].attempts \in 0 .. MaxAttempts
    /\ synced \subseteq Requests

\* validate_request_sig, wrap_handler and Syncer.in_band: in production nobody
\* but the holder of the key or of the fallback key runs a function, reads the
\* functions' configuration or the hashes of the keys over HTTP; and an answer
\* carries the signature of the key its request was signed with. An out-of-band
\* sync in turn registers no app with a server of the other kind than the one
\* that asked, and none without functions. (Syncer.in_band compares no kinds,
\* which docs/SYNC.md:46 says of both syncs: there only the key counts.)
Authentic ==
    \A r \in Requests :
        LET holder == /\ Shape(r).sig \in Keys
                      /\ Shape(r).sig \in {conf.key, conf.fallback}
        IN  /\ conf.mode = "cloud" /\ req[r].pc # "idle" /\ ~Shape(r).connect /\
                (Running(r) \/ req[r].answer.body \in
                                  {"output", "functions", "authenticated"})
                    => holder
            /\ req[r].answer.key # None =>
                    holder /\ req[r].answer.key = Shape(r).sig
            /\ r \in synced =>
                    Shape(r).kind \in {None, conf.mode} /\ conf.functions # {}

\* use_api (handler.py:142-164): a function only runs on the batch and the
\* memoized steps of the run, never on what a failed fetch left of them.
RunsOnFetchedState ==
    \A r \in Requests :
        Running(r) /\ Shape(r).useApi =>
            fetch[r]["batch"] = "ok" /\ fetch[r]["steps"] = "ok"

\* fetch_with_auth_fallback: while keys rotate, a fetch, a registration or a
\* run only ends as unauthorized if Inngest takes neither of the two keys.
RotationSafe ==
    \A r \in Requests, f \in Fetches :
        fetch[r][f] = "unauthorized" =>
            /\ conf.mode = "cloud"
            /\ {conf.key, conf.fallback} \cap conf.accepts = {}

\* MiddlewareManager: whatever a request does, from its first hook to the
\* events it sends, no hook of a middleware is called twice (_disabled_hooks,
\* skip_middleware); what the transform_inputs made of the input is undone in
\* the opposite order on what a step or the function returned; and a middleware
\* that only an async function can have keeps the handler of a sync one from
\* running. (Nothing is said of transform_output on errors: middleware.py:83
\* has it not called then, manager.py:264 calls it.)
HooksPaired ==
    \A r \in Requests :
        /\ \A i, j \in DOMAIN log[r] : log[r][i] = log[r][j] => i = j
        /\ Answered(r) /\ ~HookFailed(r) /\ req[r].result \in Values =>
                \A m, n \in Range(OfRequest(r)) :
                    /\ <<"transform_output", m>> \in Range(log[r])
                        <=> <<"transform_input", m>> \in Range(log[r])
                    /\ CalledInOrder(r, "transform_output", m, n)
                        <=> CalledInOrder(r, "transform_input", n, m)
        /\ req[r].pc = "executing" =>
                \A m \in Range(OfRequest(r)) : ~Mismatched(m, SyncHooks(r))

\* Function.call and CommResponse.from_call_result: the error of a hook is the
\* answer and may be retried, even when the function itself succeeded, unless
\* the hook is before_execution and report_step called it (v0.py:69 drops its
\* error); otherwise the Executor is told not to retry, or when, exactly if the
\* function, or a step among several, ended with an error that says so. An
\* output that cannot be encoded is left out: errors.py:145 makes that error
\* non-retriable, but its answer does not say so.
AnsweredAsEnded ==
    \A r \in Requests :
        Answered(r) /\ req[r].result # "none" /\ req[r].stream # "gone" =>
            LET answer == req[r].answer
            IN  IF HookFailed(r)
                THEN /\ answer.status = 500 /\ answer.body = "error"
                     /\ ~answer.noRetry /\ ~answer.retryAfter
                ELSE Outcome(r) # "unserializable" =>
                     /\ answer.noRetry
                            = (Outcome(r) \in {"non-retriable", "failed step"})
                     /\ answer.retryAfter = (Outcome(r) = "retry after")

\* LoggerMiddleware and ExecutionV0: once no memo is left, the logger speaks in
\* the context of the function, on every thread and whatever the requests
\* before it left there, until the function uses client.send; and while memos
\* are met it is silent on an event loop and on the threads of a sync web
\* server, though not on those of the pool (ReplayIsQuiet). Left out is the
\* targeted step that runs before the memo of a sibling is met: v0.py:68 does
\* not call before_execution for it, although its code is new.
LogsNewCode ==
    \A r \in Requests :
        /\ req[r].pc = "executing" /\ (Shape(r).left => req[r].begun)
                /\ ~(Shape(r).sends = "client" /\ send[r].pc # "unsent")
                => logging[Context(r)]
        /\ req[r].pc = "reporting" /\ Shape(r).memos
                /\ (Sync \/ req[r].thread = Nobody)
                => ~logging[Context(r)]

\* send: however many attempts it takes, of which some may have been stored
\* with their answer lost, the events are stored at most once; and the caller
\* is only told ids of events that are.
SentOnce ==
    \A r \in Requests :
        /\ Cardinality({seed \in stored : seed[1] = r}) <= 1
        /\ send[r].pc = "returned" /\ send[r].resp \in WithIds =>
                \E seed \in stored : seed[1] = r

\* Every request is answered, or its exception left to the web server: the
\* fetches end, a thread becomes free, a stream that nobody reads ends too.
EveryRequestEnds ==
    \A r \in Requests :
        req[r].pc = "arrived" ~> req[r].pc \in {"answered", "escaped"}

-----------------------------------------------------------------------------
(* What the documentation says and the code does not do.                    *)

\* log.py:23 "intercepts logging calls to prevent duplicates during step
\* replay. Uses ContextVar for async/thread safety."
ReplayIsQuiet ==
    \A r \in Requests :
        req[r].pc = "reporting" /\ Shape(r).memos => ~logging[Context(r)]

\* docs/SYNC.md:32 "SDK forwards the API's response back to the original PUT
\* caller."
SyncErrorReported ==
    \A r \in Requests :
        Answered(r) /\ req[r].answer.body = "server"
            /\ req[r].answer.status = 200 => r \in synced

=============================================================================
