------------------------------ MODULE Execution ------------------------------
(***************************************************************************)
(* One run of a durable function: the Executor sends requests, the SDK       *)
(* replays the user's function for each of them (module Replay), several at  *)
(* a time when steps were planned in parallel, and the Executor applies      *)
(* their responses in any order.                                            *)
(*                                                                         *)
(* The Executor is not in this repository.  Its actions (Send, Apply, Wake,  *)
(* Lose) are what the SDK's requests and responses require of it:           *)
(* docs/EXECUTION_MODEL.md, server_lib.ServerRequest and the tests.          *)
(***************************************************************************)
EXTENDS Replay

CONSTANTS
  UserFunctions, \* the user functions Init chooses from
  Requests,     \* slots for the requests in flight
  MaxAttempts,  \* ctx.max_attempts
  MaxFaults     \* bound: failed hooks, user errors and lost responses

ASSUME ExecutionAssumption ==
    /\ MaxAttempts \in Nat \ {0}
    /\ MaxFaults \in Nat

VARIABLES
  fn,         \* the user's function
  req,        \* SDK: request slot -> the request it processes
  memos,      \* Executor: decided steps, [id, out, at]
  known,      \* Executor: hashed ids it was told to run or wait for
  asleep,     \* Executor: steps that are not step.run and have not ended yet
  queue,      \* Executor: requests to send, [target, attempt, cause]
  forcePlan,  \* Executor: parallel steps were reported, plan from now on
  run,        \* Executor: "running", "completed" or "failed"
  faults,     \* how many faults happened
  returned,   \* step -> how often its handler returned (an observer)
  condemned   \* steps whose handler ended with a non-retriable error (observer)

executor == <<memos, known, asleep, queue, forcePlan, run>>
observer == <<returned, condemned>>
vars == <<fn, req, executor, faults, observer>>

\* The steps of the user's function.
Positions(f) ==
    UNION {UNION {{<<s, b, i>> : i \in DOMAIN f[s].branches[b]} :
                    b \in DOMAIN f[s].branches} : s \in DOMAIN f}

Job(target, attempt, cause) ==
    [target |-> target, attempt |-> attempt, cause |-> cause]

Discovery(cause) == Job(None, 0, cause)

Init ==
    /\ fn \in UserFunctions
    /\ req = [r \in Requests |-> Idle]
    /\ memos = {}
    /\ known = {}
    /\ asleep = {}
    /\ queue = {Discovery(None)}
    /\ forcePlan = FALSE
    /\ run = "running"
    /\ faults = 0
    /\ returned = [p \in Positions(fn) |-> 0]
    /\ condemned = {}

-----------------------------------------------------------------------------
(* The SDK: the request in slot r.                                          *)

Replace(r, q) ==
    /\ req' = [req EXCEPT ![r] = q]
    /\ UNCHANGED <<fn, executor>>

SdkStep(r, q) == Replace(r, q) /\ UNCHANGED <<faults, observer>>

\* run(): transform_input, then before_execution when nothing is memoized.
Start(r) ==
    /\ req[r].pc = "start"
    /\ SdkStep(r, [req[r] EXCEPT !.pc = "code",
                                 !.before = req[r].memos = {}])

\* A middleware hook raised: before the function was called, or after it, when
\* the error takes the place of the function's result.
HookFails(r) ==
    /\ req[r].pc \in {"start", "result"}
    /\ faults < MaxFaults
    /\ faults' = faults + 1
    /\ Replace(r, Finished(req[r], ErrorResult(TRUE)))
    /\ UNCHANGED observer

\* The user's function raised between two steps.
UserError(r) ==
    /\ req[r].pc = "code"
    /\ faults < MaxFaults
    /\ faults' = faults + 1
    /\ Replace(r, Finished(req[r], ErrorResult(TRUE)))
    /\ UNCHANGED observer

\* report_step found a memo: the step method returns its data...
ReplayData(r) ==
    LET q == req[r] IN
    /\ AtStep(fn, q) /\ Memoized(fn, q) /\ Memo(fn, q).out = "data"
    /\ SdkStep(r, Returned(Reported(fn, q)))

\* ...or raises its error, a StepError that is not retriable.
ReplayError(r) ==
    LET q == req[r] IN
    /\ AtStep(fn, q) /\ Memoized(fn, q) /\ Memo(fn, q).out = "error"
    /\ SdkStep(r, Raised(fn, Reported(fn, q), FALSE))

New(r) == AtStep(fn, req[r]) /\ ~Memoized(fn, req[r])

Targeted(r) == ~MustSkip(req[r], HashedId(fn, req[r]))

\* Another step is targeted.
SkipStep(r) ==
    LET q == req[r] IN
    /\ New(r) /\ ~Targeted(r)
    /\ SdkStep(r, Skipped(fn, Reported(fn, q)))

\* A new step in a group, or while immediate execution is disabled.
PlanStep(r) ==
    LET q == req[r] IN
    /\ New(r) /\ Targeted(r) /\ MustPlan(fn, q)
    /\ SdkStep(r, Interrupted(fn, Reported(fn, q), PlannedResp(fn, q)))

\* A new sleep, wait_for_event, invoke...: the Executor does the work.
ReportOp(r) ==
    LET q == req[r] IN
    /\ New(r) /\ Targeted(r) /\ ~MustPlan(fn, q) /\ Step(fn, q).op # "STEP_RUN"
    /\ SdkStep(r, Interrupted(fn, Reported(fn, q), OpResp(fn, q)))

\* A new step.run that has to execute now.
EnterHandler(r) ==
    LET q == req[r] IN
    /\ New(r) /\ Targeted(r) /\ ~MustPlan(fn, q) /\ Step(fn, q).op = "STEP_RUN"
    /\ SdkStep(r, Entered(fn, q))

MayEnd(r, out) == req[r].pc = "handler" /\ out \in Step(fn, req[r]).outs

HandlerReturns(r, out) ==
    LET q == req[r] IN
    /\ MayEnd(r, out) /\ out \in {"data", "unserializable"}
    /\ Replace(r, HandlerOutput(fn, q, out))
    /\ returned' = IF out = "data" THEN Increment(returned, Pos(q)) ELSE returned
    /\ condemned' = IF out = "data" THEN condemned ELSE condemned \union {Pos(q)}
    /\ UNCHANGED faults

HandlerRaises(r) ==
    /\ MayEnd(r, "error")
    /\ SdkStep(r, HandlerError(fn, req[r], MaxAttempts))

\* NonRetriableError and RetryAfterError bubble up to the function.
HandlerBubbles(r, out) ==
    LET q == req[r] IN
    /\ MayEnd(r, out) /\ out \in {"nonretriable", "retryafter"}
    /\ Replace(r, Raised(fn, q, out = "retryafter"))
    /\ condemned' = IF out = "nonretriable" THEN condemned \union {Pos(q)} ELSE condemned
    /\ UNCHANGED <<faults, returned>>

HandlerNests(r) ==
    LET q == req[r] IN
    /\ MayEnd(r, "nested")
    /\ \E inner \in Step(fn, q).inner : SdkStep(r, HandlerNested(fn, q, inner))

BranchEnds(r) ==
    LET q == req[r] IN
    /\ InBranch(fn, q) /\ ~AtStep(fn, q)
    /\ SdkStep(r, BranchDone(q))

\* Mutant of GroupEnds: the collected responses are dropped.
GroupEndsSilently(r) ==
    LET q == req[r] IN
    /\ InStage(fn, q) /\ ~InBranch(fn, q)
    /\ SdkStep(r, GroupReturned([q EXCEPT !.resps = <<>>]))

GroupEnds(r) ==
    LET q == req[r] IN
    /\ InStage(fn, q) /\ ~InBranch(fn, q)
    /\ SdkStep(r, IF q.resps # <<>> THEN Finished(q, StepsResult(q.resps))
                                    ELSE GroupReturned(q))

\* The user's function returned.
FunctionReturns(r) ==
    /\ req[r].pc = "code" /\ ~InStage(fn, req[r])
    /\ SdkStep(r, Finished(req[r], ReturnResult))

Sdk(r) ==
    \/ Start(r) \/ ReplayData(r) \/ ReplayError(r) \/ SkipStep(r)
    \/ PlanStep(r) \/ ReportOp(r) \/ EnterHandler(r)
    \/ \E out \in Outcomes : HandlerReturns(r, out) \/ HandlerBubbles(r, out)
    \/ HandlerRaises(r) \/ HandlerNests(r)
    \/ BranchEnds(r) \/ GroupEnds(r) \/ FunctionReturns(r)

-----------------------------------------------------------------------------
(* The Executor.                                                            *)

\* A request carries the memos of the moment it is sent.
Send(r) ==
    /\ run = "running" /\ req[r] = Idle
    /\ \E j \in queue :
        /\ queue' = queue \ {j}
        /\ req' = [req EXCEPT ![r] =
                     Received(j.target, j.attempt, j.cause, memos, forcePlan)]
    /\ UNCHANGED <<fn, memos, known, asleep, forcePlan, run, faults, observer>>

\* Responses that decide a step; the first decision stays.
Decides(resp) ==
    /\ \/ resp.op \in {"STEP_RUN", "STEP_FAILED"}
       \/ resp.op = "STEP_ERROR" /\ ~resp.retry
    /\ resp.id \notin Ids(memos)

AsMemo(resp) == [id |-> resp.id, out |-> resp.out, at |-> resp.at]

\* What the Executor does next for one step of a response.
FollowUp(q, resp) ==
    CASE resp.op = "PLANNED" ->
            IF resp.id \in known THEN {} ELSE {Job(resp.id, 0, resp.id)}
      [] resp.op = "STEP_ERROR" /\ resp.retry -> {Job(q.target, q.attempt + 1, q.cause)}
      [] resp.op \notin {"PLANNED", "STEP_ERROR", "STEP_RUN", "STEP_FAILED"} -> {}
      [] OTHER -> {Discovery(resp.id)}

ApplySteps(q, resps) ==
    /\ memos' = memos \union {AsMemo(resps[i]) : i \in {k \in DOMAIN resps : Decides(resps[k])}}
    /\ queue' = queue \union UNION {FollowUp(q, resps[i]) : i \in DOMAIN resps}
    /\ asleep' = asleep \union
         {[id |-> resps[i].id, at |-> resps[i].at] :
             i \in {k \in DOMAIN resps : /\ resps[k].op = "SLEEP"
                                         /\ resps[k].id \notin known}}
    /\ known' = known \union {resps[i].id : i \in DOMAIN resps}
    /\ forcePlan' = (forcePlan \/ Len(resps) > 1)
    /\ run' = run

\* A function-level error, or no usable response: the same request again.
Retry(q, retriable) ==
    /\ IF retriable /\ q.attempt + 1 < MaxAttempts
       THEN queue' = queue \union {Job(q.target, q.attempt + 1, q.cause)} /\ run' = run
       ELSE queue' = queue /\ run' = "failed"
    /\ UNCHANGED <<memos, known, asleep, forcePlan>>

\* The SDK's response reaches the Executor.
Apply(r) ==
    LET q == req[r]
        res == Response(q)
    IN
    /\ q.pc = "result"
    /\ req' = [req EXCEPT ![r] = Idle]
    /\ \/ run # "running" /\ UNCHANGED executor
       \/ run = "running" /\ res.kind = "steps" /\ ApplySteps(q, res.steps)
       \/ run = "running" /\ res.kind = "error" /\ Retry(q, res.retry)
       \/ /\ run = "running" /\ res.kind = "return"
          /\ run' = "completed"
          /\ UNCHANGED <<memos, known, asleep, queue, forcePlan>>
    /\ UNCHANGED <<fn, faults, observer>>

\* The process dies with the request, or the response is lost on the way.
Lose(r) ==
    /\ req[r] # Idle
    /\ faults < MaxFaults
    /\ faults' = faults + 1
    /\ req' = [req EXCEPT ![r] = Idle]
    /\ IF run = "running" THEN Retry(req[r], TRUE) ELSE UNCHANGED executor
    /\ UNCHANGED <<fn, observer>>

\* The sleep is over, the event arrived, the invoked function returned.
Wake ==
    /\ run = "running"
    /\ \E s \in asleep :
        /\ asleep' = asleep \ {s}
        /\ memos' = memos \union {[id |-> s.id, out |-> "data", at |-> s.at]}
        /\ queue' = queue \union {Discovery(s.id)}
    /\ UNCHANGED <<fn, req, known, forcePlan, run, faults, observer>>

Next ==
    \/ \E r \in Requests :
        Sdk(r) \/ HookFails(r) \/ UserError(r) \/ Send(r) \/ Apply(r) \/ Lose(r)
    \/ Wake

Spec == Init /\ [][Next]_vars

\* The web server runs every request it accepted, handlers end, and the
\* Executor sends what it queued and applies what it received.
Fairness ==
    /\ \A r \in Requests : WF_vars(Sdk(r)) /\ WF_vars(Send(r)) /\ WF_vars(Apply(r))
    /\ WF_vars(Wake)

FairSpec == Spec /\ Fairness

-----------------------------------------------------------------------------
(* Types.                                                                   *)

StepDecl ==
    [id : UserIds, op : {"STEP_RUN", "SLEEP"}, outs : SUBSET Outcomes,
     caught : BOOLEAN, inner : SUBSET [id : UserIds, op : {"STEP_RUN", "SLEEP"}]]

\* A step outside a group is a stage of one branch of one step.
ASSUME FunctionsAssumption ==
    /\ None \notin StepIds
    /\ UserIds \subseteq StepIds
    /\ UserFunctions \subseteq Seq([par : BOOLEAN, branches : Seq(Seq(StepDecl))])
    /\ \A f \in UserFunctions : \A s \in DOMAIN f :
          ~f[s].par => Len(f[s].branches) = 1 /\ Len(f[s].branches[1]) = 1

MemoType == [id : StepIds, out : {"data", "error"}, at : Seq(Nat)]

RespType == [id : StepIds, op : Ops, out : Outcomes \union {"none"},
             at : Seq(Nat), retry : BOOLEAN]

Attempts == 0 .. MaxAttempts - 1

JobType == [target : StepIds \union {None}, attempt : Attempts,
            cause : StepIds \union {None}]

ResultType ==
    [kind : {"none", "steps", "error", "return"}, steps : Seq(RespType), retry : BOOLEAN]

RequestType ==
    [pc : {"idle", "start", "code", "handler", "result"},
     target : StepIds \union {None}, attempt : Attempts,
     cause : StepIds \union {None}, dis : BOOLEAN, memos : SUBSET MemoType,
     before : BOOLEAN, stage : Nat, branch : Nat, idx : Nat, outs : Nat,
     hid : StepIds \union {None}, counts : [UserIds -> Nat],
     resps : Seq(RespType), result : ResultType]

\* The type invariant of the SDK's requests and of the Executor's state.
TypeOK ==
    /\ fn \in UserFunctions
    /\ req \in [Requests -> RequestType]
    /\ memos \subseteq MemoType
    /\ known \subseteq StepIds
    /\ asleep \subseteq [id : StepIds, at : Seq(Nat)]
    /\ queue \subseteq JobType
    /\ forcePlan \in BOOLEAN
    /\ run \in {"running", "completed", "failed"}
    /\ faults \in 0 .. MaxFaults
    /\ returned \in [Positions(fn) -> Nat]
    /\ condemned \subseteq Positions(fn)

-----------------------------------------------------------------------------
(* Properties.                                                              *)

\* A step's handler returns at most once per run, whatever the order of the
\* concurrent requests; only a lost response or a failed hook lets it run
\* again (docs/EXECUTION_MODEL.md:115, the reason for disable_immediate_execution).
AtMostOnce == \A p \in Positions(fn) : returned[p] <= 1 + faults

\* The memo a step method is about to return was made by that very step, not
\* by another one whose id hashes to the same value (StepIDCounter).
MemoFitsStep ==
    \A r \in Requests : LET q == req[r] IN
        AtStep(fn, q) /\ Memoized(fn, q) => Memo(fn, q).at = Pos(q)

\* A request that targets a step runs no handler but that step's, and reports
\* the outcome of no other step, although it replays the whole function.
OnlyTheTarget ==
    \A r \in Requests : LET q == req[r] IN
        q.target # None =>
            /\ q.pc = "handler" => q.hid = q.target
            /\ \A i \in DOMAIN q.result.steps : q.result.steps[i].id = q.target

\* Group.parallel hands the user's code one output per callable: the skips it
\* swallows never make the tuple shorter.
GroupsReturnEverything ==
    \A r \in Requests : LET q == req[r] IN
        InStage(fn, q) /\ ~InBranch(fn, q) /\ q.resps = <<>>
            => q.outs = Len(Stage(fn, q).branches)

\* A step called inside a step's handler is never run, planned or waited for,
\* and a function that nests steps does not complete.
InnerIds ==
    UNION {{i.id : i \in fn[p[1]].branches[p[2]][p[3]].inner} : p \in Positions(fn)}

NestedStepsRejected ==
    /\ InnerIds \intersect known = {}
    /\ run = "completed" => InnerIds = {}

\* A handler that ended with a non-retriable error is not called again, unless
\* the response that said so was lost.
Enters(r) == req[r].pc # "handler" /\ req'[r].pc = "handler"

NonRetriableStaysDead ==
    [][\A r \in Requests :
          Enters(r) /\ faults = 0 => Pos(req'[r]) \notin condemned]_vars

\* The run is decided: it completes or fails.
RunEnds == <>(run # "running")

-----------------------------------------------------------------------------
(* The run the user sees is a durable run: steps are decided once, in the    *)
(* order of the function, and all of them before the function completes.    *)

Before(f, p) ==
    {t \in Positions(f) : \/ t[1] < p[1]
                          \/ t[1] = p[1] /\ t[2] = p[2] /\ t[3] < p[3]}

PlanOf(f) ==
    [before |-> [p \in Positions(f) |-> Before(f, p)],
     tolerated |-> {p \in Positions(f) : f[p[1]].branches[p[2]][p[3]].caught}]

Decided == [p \in {m.at : m \in memos} |-> (CHOOSE m \in memos : m.at = p).out]

Durable == INSTANCE DurableRun WITH plan <- PlanOf(fn), done <- Decided, run <- run

ImplementsDurableRun == Durable!Spec
=============================================================================
