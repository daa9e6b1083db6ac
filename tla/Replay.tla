------------------------------- MODULE Replay -------------------------------
(***************************************************************************)
(* Deterministic replay of one request: what ExecutionV0, Group.parallel    *)
(* and the step methods do to the state of a single call of the user's      *)
(* function.  The operators are pure: they take the request q being         *)
(* processed (and the user's function fn) and return the request after the  *)
(* step.  Module Execution turns them into actions of concurrent requests.  *)
(*                                                                         *)
(* A user function is a sequence of stages.  A stage is either one step or   *)
(* a group.parallel of branches, each branch a sequence of steps:           *)
(*   stage: [par |-> BOOLEAN, branches |-> <<branch, ...>>]                 *)
(*   step:  [id |-> step id, op |-> opcode, outs |-> outcomes its handler   *)
(*           may have, caught |-> the user wraps it in try/except Exception, *)
(*           inner |-> the steps its handler calls (0 or 1 of them)]         *)
(***************************************************************************)
EXTENDS Naturals, Sequences

CONSTANTS
  None,     \* no step: no stepId query parameter, no handler entered
  UserIds   \* the step ids that occur in the user's functions

\* server_lib.Opcode: the values the control flow tells apart.
Ops == {"STEP_RUN", "STEP_ERROR", "STEP_FAILED", "PLANNED", "SLEEP"}

\* How a step.run handler ends: it returns, raises an Exception, raises
\* NonRetriableError or RetryAfterError, returns what JSON cannot encode, or
\* calls a step of its own.
Outcomes == {"data", "error", "nonretriable", "retryafter", "unserializable",
             "nested"}

-----------------------------------------------------------------------------
(* Step ids.  "a:1" is [name |-> "a", path |-> <<1>>]: the suffix that      *)
(* _parse_step_id appends to a reused id lands in the same space as the ids *)
(* the user writes.                                                         *)

StepIds == [name : STRING, path : Seq(Nat)]

Id(name) == [name |-> name, path |-> <<>>]

\* StepIDCounter.increment
Increment(counts, id) == [counts EXCEPT ![id] = @ + 1]

\* _parse_step_id: the id that is hashed for this use of the step id.
Hashed(counts, id) ==
    LET n == counts[id] + 1
    IN  IF n > 1 THEN [id EXCEPT !.path = Append(@, n - 1)] ELSE id

-----------------------------------------------------------------------------
(* The request.                                                             *)

NoResult == [kind |-> "none", steps |-> <<>>, retry |-> TRUE]
StepsResult(resps) ==
    [kind |-> "steps", steps |-> resps,
     retry |-> \A i \in DOMAIN resps : resps[i].retry]
ErrorResult(retriable) == [kind |-> "error", steps |-> <<>>, retry |-> retriable]
ReturnResult == [kind |-> "return", steps |-> <<>>, retry |-> TRUE]

Idle ==
    [pc |-> "idle", target |-> None, attempt |-> 0, cause |-> None,
     dis |-> FALSE, memos |-> {}, before |-> FALSE,
     stage |-> 1, branch |-> 1, idx |-> 1, outs |-> 0,
     hid |-> None, counts |-> [id \in UserIds |-> 0],
     resps |-> <<>>, result |-> NoResult]

\* Handler.post: memos, target and counter of a new request.
Received(target, attempt, cause, memos, dis) ==
    [Idle EXCEPT !.pc = "start", !.target = target, !.attempt = attempt,
                 !.cause = cause, !.memos = memos, !.dis = dis]

Stage(fn, q) == fn[q.stage]
Branch(fn, q) == Stage(fn, q).branches[q.branch]
Step(fn, q) == Branch(fn, q)[q.idx]

\* Where in the user's function the request is: the identity of a step that
\* does not depend on its id.
Pos(q) == <<q.stage, q.branch, q.idx>>

InStage(fn, q) == q.pc = "code" /\ q.stage \in DOMAIN fn
InBranch(fn, q) ==
    InStage(fn, q) /\ q.branch \in DOMAIN Stage(fn, q).branches
\* The user's code is about to call a step method.
AtStep(fn, q) == InBranch(fn, q) /\ q.idx \in DOMAIN Branch(fn, q)

HashedId(fn, q) == Hashed(q.counts, Step(fn, q).id)

-----------------------------------------------------------------------------
(* How control leaves a step.                                               *)

\* The step method returned to the user's code.
Returned(q) == [q EXCEPT !.pc = "code", !.idx = @ + 1]

Finished(q, result) ==
    [q EXCEPT !.pc = "result", !.result = result, !.resps = <<>>]

NextBranch(q) == [q EXCEPT !.pc = "code", !.branch = @ + 1, !.idx = 1]

\* ResponseInterrupt: Group.parallel collects it, otherwise it ends the call.
Interrupted(fn, q, resp) ==
    IF Stage(fn, q).par
    THEN [NextBranch(q) EXCEPT !.resps = Append(@, resp)]
    ELSE Finished(q, StepsResult(<<resp>>))

\* SkipInterrupt: Group.parallel swallows it, otherwise run() makes a
\* StepUnexpectedError of it.
Skipped(fn, q) ==
    IF Stage(fn, q).par THEN NextBranch(q) ELSE Finished(q, ErrorResult(TRUE))

\* Mutant of Raised: the error response does not forbid the retry.
RaisedRetriable(fn, q, retriable) ==
    IF Step(fn, q).caught THEN Returned(q) ELSE Finished(q, ErrorResult(TRUE))

\* An Exception out of the step method: the user's except clause around the
\* step, otherwise a UserError for the whole call.
Raised(fn, q, retriable) ==
    IF Step(fn, q).caught THEN Returned(q) ELSE Finished(q, ErrorResult(retriable))

Resp(id, op, out, at, retriable) ==
    [id |-> id, op |-> op, out |-> out, at |-> at, retry |-> retriable]

-----------------------------------------------------------------------------
(* report_step: one disjunct of its decision per operator.                  *)

\* _parse_step_id and StepMemos.pop, and before_execution once no memo is
\* left.  Every path through report_step starts with it.
Popped(q, id, hid) ==
    LET rest == {m \in q.memos : m.id # hid}
    IN  [q EXCEPT !.counts = Increment(@, id),
                  !.memos = rest,
                  !.before = @ \/ rest = {}]

Reported(fn, q) == Popped(q, Step(fn, q).id, HashedId(fn, q))

Ids(memos) == {m.id : m \in memos}

Memoized(fn, q) == HashedId(fn, q) \in Ids(q.memos)

Memo(fn, q) == CHOOSE m \in q.memos : m.id = HashedId(fn, q)

\* Mutants of MustSkip: targeting is ignored, or taken to be always enabled.
NeverSkip(q, hid) == FALSE
SkipUnlessTarget(q, hid) == q.target # hid

\* _handle_skip
MustSkip(q, hid) == q.target # None /\ q.target # hid

\* Mutants of MustPlan: immediate execution is never disabled, or a targeted
\* step is planned again.
PlanGroupsOnly(fn, q) == q.target = None /\ Stage(fn, q).par
PlanEvenTargeted(fn, q) ==
    Stage(fn, q).par \/ (Step(fn, q).op = "STEP_RUN" /\ q.dis)

\* Plan rather than run: in a parallel group, or a single new step.run while
\* immediate execution is disabled.
MustPlan(fn, q) ==
    /\ q.target = None
    /\ \/ Stage(fn, q).par
       \/ Step(fn, q).op = "STEP_RUN" /\ q.dis

PlannedResp(fn, q) ==
    Resp(HashedId(fn, q),
         IF Step(fn, q).op = "STEP_RUN" THEN "PLANNED" ELSE Step(fn, q).op,
         "none", Pos(q), TRUE)

OpResp(fn, q) == Resp(HashedId(fn, q), Step(fn, q).op, "none", Pos(q), TRUE)

-----------------------------------------------------------------------------
(* step.run: the call enters the handler, and the handler ends.             *)

\* Mutant of Entered: the id of the step is not kept for the response.
EnteredForgetsId(fn, q) == [Reported(fn, q) EXCEPT !.pc = "handler"]

Entered(fn, q) ==
    [Reported(fn, q) EXCEPT !.pc = "handler", !.hid = HashedId(fn, q)]

\* Mutant of HandlerOutput: the id as the user wrote it.
HandlerOutputUserId(fn, q, out) ==
    Interrupted(fn, q, Resp(Step(fn, q).id, "STEP_RUN", out, Pos(q), TRUE))

\* The handler returned (STEP_RUN with its output, encodable or not).
HandlerOutput(fn, q, out) ==
    Interrupted(fn, q, Resp(q.hid, "STEP_RUN", out, Pos(q), TRUE))

\* The handler raised an Exception: retried by the Executor, or failed for
\* good when this was the last attempt.
HandlerError(fn, q, maxAttempts) ==
    LET op == IF q.attempt + 1 >= maxAttempts THEN "STEP_FAILED" ELSE "STEP_ERROR"
    IN  Interrupted(fn, q, Resp(q.hid, op, "error", Pos(q), TRUE))

\* The handler called the step `inner`.  report_step runs to its end first;
\* only a step it returns from reaches ReportedStep.__aenter__, which detects
\* the nesting and makes a STEP_ERROR of the outer step.
NestedRejected(fn, q) ==
    Interrupted(fn, q, Resp(q.hid, "STEP_ERROR", "error", Pos(q), FALSE))

\* Mutant of HandlerNested: nesting is not detected, the inner step runs.
NestedRuns(fn, q, inner) ==
    LET hid == Hashed(q.counts, inner.id)
    IN  Interrupted(fn, Popped(q, inner.id, hid),
                    Resp(hid, inner.op, "data", Append(Pos(q), 1), TRUE))

HandlerNested(fn, q, inner) ==
    LET hid == Hashed(q.counts, inner.id)
        p   == Popped(q, inner.id, hid)
    IN  IF hid \in Ids(q.memos) \/ (~MustSkip(q, hid) /\ inner.op = "STEP_RUN")
        THEN NestedRejected(fn, p)
        ELSE IF MustSkip(q, hid)
        THEN Skipped(fn, p)
        ELSE Interrupted(fn, p, Resp(hid, inner.op, "none", Append(Pos(q), 1), TRUE))

-----------------------------------------------------------------------------
(* The end of a branch, of a group and of the call.                         *)

BranchDone(q) == [NextBranch(q) EXCEPT !.outs = @ + 1]

GroupReturned(q) == [q EXCEPT !.stage = @ + 1, !.branch = 1, !.idx = 1, !.outs = 0]

\* CommResponse.from_call_result: what cannot be encoded becomes an error
\* response, which carries no header that forbids the retry.
Response(q) ==
    IF \E i \in DOMAIN q.result.steps : q.result.steps[i].out = "unserializable"
    THEN ErrorResult(TRUE)
    ELSE q.result

=============================================================================
