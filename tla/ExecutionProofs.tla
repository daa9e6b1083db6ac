-------------------------- MODULE ExecutionProofs --------------------------
(***************************************************************************)
(* What holds of Execution for every user function, number of requests,      *)
(* attempts and faults.                                                    *)
(*                                                                         *)
(* Type correctness and the isolation of targeted requests come first: each  *)
(* operator of Replay that moves a request is shown to keep RequestOK, and   *)
(* the actions follow one by one.                                          *)
(*                                                                         *)
(* If the ids tell the steps of the user's function apart (UserCode), five   *)
(* invariants build on each other.  Fitting: every memo, response and count  *)
(* is about the step it names.  Tokens: a request holds its target alone,    *)
(* and there is one request at a time until steps are reported together.     *)
(* ReturnsOnce: a step whose handler ended for good is decided, or on its    *)
(* way to the Executor.  Progressing: a request comes by a step once the     *)
(* steps before it are decided.  DecidedOnce: what is decided stays.         *)
(*                                                                         *)
(* Together they show that a run implements DurableRun.                      *)
(***************************************************************************)
EXTENDS UserCode, TLAPS, FiniteSetTheorems, SequenceTheorems

\* The request stands at a step of the function.
AtPosition(f, q) ==
    /\ q.stage \in DOMAIN f
    /\ q.branch \in DOMAIN f[q.stage].branches
    /\ q.idx \in DOMAIN f[q.stage].branches[q.branch]

\* What a response to request q says of a step.
RespOK(q, resp) ==
    /\ q.target # None => resp.id = q.target
    /\ resp.op = "STEP_RUN" => resp.out \in {"data", "unserializable"}
    /\ resp.op \in {"STEP_FAILED", "STEP_ERROR"} => resp.out = "error"
    /\ resp.op = "STEP_ERROR" /\ resp.retry => q.attempt + 1 < MaxAttempts

RequestOK(f, q) ==
    /\ q \in RequestType
    /\ q.pc = "handler" =>
          /\ AtPosition(f, q)
          /\ q.hid \in StepIds
          /\ q.target # None => q.hid = q.target
    /\ \A i \in DOMAIN q.resps : RespOK(q, q.resps[i])
    /\ \A i \in DOMAIN q.result.steps : RespOK(q, q.result.steps[i])

IInv == TypeOK /\ \A r \in Requests : RequestOK(fn, req[r])

-----------------------------------------------------------------------------
(* Steps and ids.                                                           *)

\* An element of a sequence over S is in S.
LEMMA SeqElement == ASSUME NEW S, NEW s \in Seq(S), NEW i \in DOMAIN s PROVE s[i] \in S
OBVIOUS

\* A position of a request is one of the function's steps, and what Step returns
\* there is a step the user declared.
LEMMA StepTyped ==
    ASSUME NEW f \in UserFunctions, NEW q \in RequestType, AtPosition(f, q)
    PROVE  /\ Step(f, q) \in StepDecl
           /\ Stage(f, q).par \in BOOLEAN
           /\ Pos(q) \in Positions(f)
           /\ Pos(q) \in Seq(Nat)
<1> DEFINE StageDecl == [par : BOOLEAN, branches : Seq(Seq(StepDecl))]
<1>1. f \in Seq(StageDecl)
    BY FunctionsAssumption
<1>a. f[q.stage] \in StageDecl
  <2> HIDE DEF StageDecl
  <2> QED BY <1>1, SeqElement DEF AtPosition
<1>2. f[q.stage].par \in BOOLEAN /\ f[q.stage].branches \in Seq(Seq(StepDecl))
    BY <1>a
<1>3. f[q.stage].branches[q.branch] \in Seq(StepDecl)
    BY <1>2, SeqElement DEF AtPosition
<1>4. Step(f, q) \in StepDecl
    BY <1>3, SeqElement DEF AtPosition, Step, Branch, Stage
<1>5. Pos(q) \in Positions(f)
    BY DEF AtPosition, Positions, Pos
<1>6. q.stage \in Nat /\ q.branch \in Nat /\ q.idx \in Nat
    BY DEF RequestType
<1> QED BY <1>2, <1>4, <1>5, <1>6 DEF Stage, Pos

\* The id a step is hashed under is a step id (_parse_step_id).
LEMMA HashedTyped ==
    ASSUME NEW counts \in [UserIds -> Nat], NEW id \in UserIds
    PROVE  Hashed(counts, id) \in StepIds
<1>1. id \in StepIds
    BY FunctionsAssumption
<1>2. counts[id] + 1 \in Nat /\ counts[id] + 1 - 1 \in Nat
    OBVIOUS
<1> DEFINE n == counts[id] + 1
<1>3. Append(id.path, n - 1) \in Seq(Nat)
    BY <1>1, <1>2 DEF StepIds
<1>4. [id EXCEPT !.path = Append(@, n - 1)] \in StepIds
    BY <1>1, <1>3 DEF StepIds
<1> QED BY <1>1, <1>4 DEF Hashed

-----------------------------------------------------------------------------
(* The operators that move a request keep RequestOK.                        *)

\* A request that ends with a result whose steps it may report.
LEMMA FinishedOK ==
    ASSUME NEW f \in UserFunctions, NEW q, RequestOK(f, q),
           NEW steps \in Seq(RespType), \A i \in DOMAIN steps : RespOK(q, steps[i]),
           NEW kind \in {"steps", "error", "return"}, NEW retriable \in BOOLEAN
    PROVE  RequestOK(f, Finished(q, [kind |-> kind, steps |-> steps, retry |-> retriable]))
<1> DEFINE res == [kind |-> kind, steps |-> steps, retry |-> retriable]
           n == Finished(q, res)
<1>1. q \in RequestType
    BY DEF RequestOK
<1>a. res \in ResultType /\ <<>> \in Seq(RespType)
    BY DEF ResultType
<1>2. n \in RequestType
  <2> HIDE DEF res
  <2> QED BY <1>1, <1>a DEF Finished, RequestType
<1>3. n.pc = "result" /\ n.resps = <<>> /\ n.result = res /\ n.target = q.target /\ n.attempt = q.attempt
    BY <1>1 DEF Finished, RequestType
<1>4. \A i \in DOMAIN n.result.steps : RespOK(n, n.result.steps[i])
    BY <1>3 DEF RespOK
<1> QED BY <1>2, <1>3, <1>4 DEF RequestOK

\* The step method returns to the user's code.
LEMMA ReturnedOK ==
    ASSUME NEW f \in UserFunctions, NEW q, RequestOK(f, q)
    PROVE  RequestOK(f, Returned(q))
<1> DEFINE n == Returned(q)
<1>a. q \in RequestType
    BY DEF RequestOK
<1>b. q.idx + 1 \in Nat
    BY <1>a DEF RequestType
<1>1. n \in RequestType
    BY <1>a, <1>b DEF Returned, RequestType
<1>2. /\ n.pc = "code" /\ n.resps = q.resps /\ n.result = q.result
      /\ n.target = q.target /\ n.attempt = q.attempt
    BY DEF RequestOK, Returned, RequestType
<1> QED BY <1>1, <1>2 DEF RequestOK, RespOK

\* Group.parallel goes on with the next callable.
LEMMA NextBranchOK ==
    ASSUME NEW f \in UserFunctions, NEW q, RequestOK(f, q)
    PROVE  /\ RequestOK(f, NextBranch(q))
           /\ NextBranch(q).resps = q.resps
           /\ NextBranch(q).target = q.target
           /\ NextBranch(q).attempt = q.attempt
           /\ NextBranch(q).pc = "code"
<1> DEFINE n == NextBranch(q)
<1>a. q \in RequestType
    BY DEF RequestOK
<1>b. q.branch + 1 \in Nat
    BY <1>a DEF RequestType
<1>1. n \in RequestType
    BY <1>a, <1>b DEF NextBranch, RequestType
<1>2. /\ n.pc = "code" /\ n.resps = q.resps /\ n.result = q.result
      /\ n.target = q.target /\ n.attempt = q.attempt
    BY DEF RequestOK, NextBranch, RequestType
<1> QED BY <1>1, <1>2 DEF RequestOK, RespOK

\* A ResponseInterrupt with an admissible response.
LEMMA InterruptedOK ==
    ASSUME NEW f \in UserFunctions, NEW q, RequestOK(f, q),
           NEW resp \in RespType, RespOK(q, resp)
    PROVE  RequestOK(f, Interrupted(f, q, resp))
<1>1. CASE Stage(f, q).par
  <2> DEFINE n == NextBranch(q)
             m == [n EXCEPT !.resps = Append(@, resp)]
  <2>1. RequestOK(f, n) /\ n.target = q.target /\ n.attempt = q.attempt /\ n.pc = "code"
      BY NextBranchOK
  <2> HIDE DEF n
  <2>2. n.resps \in Seq(RespType)
      BY <2>1 DEF RequestOK, RequestType
  <2> DEFINE s == Append(n.resps, resp)
  <2>3. s \in Seq(RespType) /\ \A i \in DOMAIN s : s[i] = resp \/ (i \in DOMAIN n.resps /\ s[i] = n.resps[i])
      BY <2>2
  <2> HIDE DEF s
  <2>4. m = [n EXCEPT !.resps = s]
      BY DEF s
  <2>5. m \in RequestType
      BY <2>1, <2>3, <2>4 DEF RequestOK, RequestType
  <2>6. m.pc = "code" /\ m.resps = s /\ m.result = n.result /\ m.target = n.target /\ m.attempt = n.attempt
      BY <2>1, <2>4 DEF RequestOK, RequestType
  <2>7. \A i \in DOMAIN m.resps : RespOK(m, m.resps[i])
      BY <2>1, <2>3, <2>6 DEF RequestOK, RespOK
  <2>8. RequestOK(f, m)
      BY <2>1, <2>5, <2>6, <2>7 DEF RequestOK, RespOK
  <2> QED BY <1>1, <2>8 DEF Interrupted, n
<1>2. CASE ~Stage(f, q).par
  <2>1. /\ <<resp>> \in Seq(RespType)
        /\ \A i \in DOMAIN <<resp>> : RespOK(q, <<resp>>[i])
      OBVIOUS
  <2> DEFINE retriable == \A i \in DOMAIN <<resp>> : <<resp>>[i].retry
  <2>2. retriable \in BOOLEAN
      OBVIOUS
  <2> HIDE DEF retriable
  <2>3. RequestOK(f, Finished(q, [kind |-> "steps", steps |-> <<resp>>, retry |-> retriable]))
      BY <2>1, <2>2, FinishedOK
  <2> QED BY <1>2, <2>3 DEF Interrupted, StepsResult, retriable
<1> QED BY <1>1, <1>2

\* An error result reports no step.
LEMMA ErrorOK ==
    ASSUME NEW f \in UserFunctions, NEW q, RequestOK(f, q), NEW retriable \in BOOLEAN
    PROVE  RequestOK(f, Finished(q, ErrorResult(retriable)))
<1>1. <<>> \in Seq(RespType) /\ DOMAIN <<>> = {}
    OBVIOUS
<1> QED BY <1>1, FinishedOK DEF ErrorResult

\* A SkipInterrupt.
LEMMA SkippedOK ==
    ASSUME NEW f \in UserFunctions, NEW q, RequestOK(f, q)
    PROVE  RequestOK(f, Skipped(f, q))
BY NextBranchOK, ErrorOK DEF Skipped

\* An Exception out of a step method.
LEMMA RaisedOK ==
    ASSUME NEW f \in UserFunctions, NEW q, RequestOK(f, q), NEW retriable \in BOOLEAN
    PROVE  RequestOK(f, Raised(f, q, retriable))
BY ReturnedOK, ErrorOK DEF Raised

\* The common prefix of report_step moves nothing but memos and counters.
LEMMA PoppedOK ==
    ASSUME NEW f \in UserFunctions, NEW q, RequestOK(f, q),
           NEW id \in UserIds, NEW hid
    PROVE  LET p == Popped(q, id, hid) IN
           /\ RequestOK(f, p)
           /\ p.pc = q.pc /\ p.target = q.target /\ p.attempt = q.attempt
           /\ p.stage = q.stage /\ p.branch = q.branch /\ p.idx = q.idx
           /\ p.hid = q.hid
<1> DEFINE p == Popped(q, id, hid)
           rest == {m \in q.memos : m.id # hid}
           cnt == Increment(q.counts, id)
<1>1. q \in RequestType
    BY DEF RequestOK
<1>2. rest \in SUBSET MemoType
    BY <1>1 DEF RequestType
<1>3. q.counts \in [UserIds -> Nat]
    BY <1>1 DEF RequestType
<1>4. cnt \in [UserIds -> Nat]
    BY <1>3 DEF Increment
<1>5. (q.before \/ rest = {}) \in BOOLEAN
    OBVIOUS
<1> DEFINE bef == q.before \/ rest = {}
<1>6. p = [q EXCEPT !.counts = cnt, !.memos = rest, !.before = bef]
    BY DEF Popped
<1> HIDE DEF rest, cnt, bef
<1>7. bef \in BOOLEAN
    BY <1>5 DEF bef
<1> HIDE DEF p
<1>8. p \in RequestType
    BY <1>1, <1>2, <1>4, <1>6, <1>7 DEF RequestType
<1>9. /\ p.pc = q.pc /\ p.target = q.target /\ p.attempt = q.attempt
      /\ p.stage = q.stage /\ p.branch = q.branch /\ p.idx = q.idx
      /\ p.hid = q.hid /\ p.resps = q.resps /\ p.result = q.result
    BY <1>1, <1>6 DEF RequestType
<1>10. RequestOK(f, p)
    BY <1>8, <1>9 DEF RequestOK, RespOK, AtPosition
<1> QED BY <1>9, <1>10 DEF p

\* A request that is about to call a step stands at one of the function's steps.
LEMMA AtStepTyped ==
    ASSUME NEW f \in UserFunctions, NEW q, RequestOK(f, q), AtStep(f, q)
    PROVE  /\ AtPosition(f, q)
           /\ q \in RequestType
           /\ Step(f, q) \in StepDecl
           /\ Step(f, q).id \in UserIds
           /\ HashedId(f, q) \in StepIds
           /\ Pos(q) \in Seq(Nat)
<1>1. q \in RequestType /\ AtPosition(f, q)
    BY DEF RequestOK, AtPosition, AtStep, InBranch, InStage, Stage, Branch
<1>2. Step(f, q) \in StepDecl /\ Pos(q) \in Seq(Nat)
    BY <1>1, StepTyped
<1>3. Step(f, q).id \in UserIds
    BY <1>2 DEF StepDecl
<1>4. q.counts \in [UserIds -> Nat]
    BY <1>1 DEF RequestType
<1>5. HashedId(f, q) \in StepIds
    BY <1>3, <1>4, HashedTyped DEF HashedId
<1> QED BY <1>1, <1>2, <1>3, <1>5

\* The request report_step leaves behind stands at the same step.
LEMMA ReportedOK ==
    ASSUME NEW f \in UserFunctions, NEW q, RequestOK(f, q), AtStep(f, q)
    PROVE  LET p == Reported(f, q) IN
           /\ RequestOK(f, p)
           /\ p.pc = q.pc /\ p.target = q.target /\ p.attempt = q.attempt
           /\ p.stage = q.stage /\ p.branch = q.branch /\ p.idx = q.idx
BY AtStepTyped, PoppedOK DEF Reported

\* Entering the handler: only of the targeted step, if one is targeted.
LEMMA EnteredOK ==
    ASSUME NEW f \in UserFunctions, NEW q, RequestOK(f, q), AtStep(f, q),
           ~MustSkip(q, HashedId(f, q))
    PROVE  RequestOK(f, Entered(f, q))
<1> DEFINE p == Reported(f, q)
           h == HashedId(f, q)
           n == [p EXCEPT !.pc = "handler", !.hid = h]
<1>1. /\ RequestOK(f, p) /\ p.target = q.target
      /\ p.stage = q.stage /\ p.branch = q.branch /\ p.idx = q.idx
    BY ReportedOK
<1>2. h \in StepIds /\ AtPosition(f, q) /\ (q.target # None => h = q.target)
    BY AtStepTyped DEF MustSkip
<1>3. Entered(f, q) = n
    BY DEF Entered
<1> HIDE DEF p, h
<1>4. p \in RequestType
    BY <1>1 DEF RequestOK
<1>5. n \in RequestType
    BY <1>2, <1>4 DEF RequestType
<1>6. /\ n.pc = "handler" /\ n.hid = h /\ n.resps = p.resps /\ n.result = p.result
      /\ n.target = p.target /\ n.attempt = p.attempt
      /\ n.stage = p.stage /\ n.branch = p.branch /\ n.idx = p.idx
    BY <1>4 DEF RequestType
<1>7. AtPosition(f, n)
    BY <1>1, <1>2, <1>6 DEF AtPosition
<1> QED BY <1>1, <1>2, <1>3, <1>5, <1>6, <1>7 DEF RequestOK, RespOK

\* The facts a handler's request satisfies.
LEMMA InHandler ==
    ASSUME NEW f \in UserFunctions, NEW q, RequestOK(f, q), q.pc = "handler"
    PROVE  /\ AtPosition(f, q) /\ q \in RequestType
           /\ q.hid \in StepIds /\ (q.target # None => q.hid = q.target)
           /\ Step(f, q) \in StepDecl
           /\ Pos(q) \in Positions(f) /\ Pos(q) \in Seq(Nat)
           /\ q.attempt \in Nat /\ q.attempt < MaxAttempts
<1>1. AtPosition(f, q) /\ q \in RequestType
    BY DEF RequestOK
<1>2. q.hid \in StepIds /\ (q.target # None => q.hid = q.target)
    BY DEF RequestOK
<1>3. q.attempt \in Nat /\ q.attempt < MaxAttempts
    BY <1>1, ExecutionAssumption DEF RequestType, Attempts
<1> QED BY <1>1, <1>2, <1>3, StepTyped

\* The handler ends with a response of its own step.
LEMMA HandlerRespOK ==
    ASSUME NEW f \in UserFunctions, NEW q, RequestOK(f, q), q.pc = "handler",
           NEW op \in {"STEP_RUN", "STEP_FAILED", "STEP_ERROR"},
           NEW out \in Outcomes, NEW retriable \in BOOLEAN,
           op = "STEP_RUN" => out \in {"data", "unserializable"},
           op # "STEP_RUN" => out = "error",
           op = "STEP_ERROR" /\ retriable => q.attempt + 1 < MaxAttempts
    PROVE  RequestOK(f, Interrupted(f, q, Resp(q.hid, op, out, Pos(q), retriable)))
<1> DEFINE resp == Resp(q.hid, op, out, Pos(q), retriable)
<1>1. q.hid \in StepIds /\ (q.target # None => q.hid = q.target) /\ Pos(q) \in Seq(Nat)
    BY InHandler
<1>2. resp \in RespType
    BY <1>1 DEF Resp, RespType, Ops
<1>3. RespOK(q, resp)
    BY <1>1 DEF Resp, RespOK
<1> HIDE DEF resp
<1>4. RequestOK(f, Interrupted(f, q, resp))
    BY <1>2, <1>3, InterruptedOK
<1> QED BY <1>4 DEF resp

\* The handler returned.
LEMMA HandlerOutputOK ==
    ASSUME NEW f \in UserFunctions, NEW q, RequestOK(f, q), q.pc = "handler",
           NEW out \in {"data", "unserializable"}
    PROVE  RequestOK(f, HandlerOutput(f, q, out))
BY HandlerRespOK DEF HandlerOutput, Outcomes

\* The handler raised: STEP_ERROR only while an attempt is left.
LEMMA HandlerErrorOK ==
    ASSUME NEW f \in UserFunctions, NEW q, RequestOK(f, q), q.pc = "handler"
    PROVE  RequestOK(f, HandlerError(f, q, MaxAttempts))
<1>1. q.attempt \in Nat /\ MaxAttempts \in Nat
    BY InHandler, ExecutionAssumption
<1>2. CASE q.attempt + 1 >= MaxAttempts
  <2>1. RequestOK(f, Interrupted(f, q, Resp(q.hid, "STEP_FAILED", "error", Pos(q), TRUE)))
      BY HandlerRespOK DEF Outcomes
  <2> QED BY <1>2, <2>1 DEF HandlerError
<1>3. CASE ~(q.attempt + 1 >= MaxAttempts)
  <2>1. q.attempt + 1 < MaxAttempts
      BY <1>1, <1>3
  <2>2. RequestOK(f, Interrupted(f, q, Resp(q.hid, "STEP_ERROR", "error", Pos(q), TRUE)))
      BY <2>1, HandlerRespOK DEF Outcomes
  <2> QED BY <1>3, <2>2 DEF HandlerError
<1> QED BY <1>2, <1>3

\* The handler called another step: rejected, skipped, or the inner operation leaks.
LEMMA HandlerNestedOK ==
    ASSUME NEW f \in UserFunctions, NEW q, RequestOK(f, q), q.pc = "handler",
           NEW inner \in Step(f, q).inner
    PROVE  RequestOK(f, HandlerNested(f, q, inner))
<1> DEFINE hid == Hashed(q.counts, inner.id)
           p == Popped(q, inner.id, hid)
           leak == Resp(hid, inner.op, "none", Append(Pos(q), 1), TRUE)
<1>1. inner.id \in UserIds /\ inner.op \in {"STEP_RUN", "SLEEP"}
    BY InHandler DEF StepDecl
<1>2. hid \in StepIds
    BY <1>1, InHandler, HashedTyped DEF RequestType
<1>3. /\ RequestOK(f, p) /\ p.pc = "handler" /\ p.target = q.target
      /\ Pos(p) = Pos(q) /\ p.attempt = q.attempt
    BY <1>1, PoppedOK DEF Pos
<1>4. RequestOK(f, NestedRejected(f, p))
    BY <1>3, HandlerRespOK DEF NestedRejected, Outcomes
<1>5. RequestOK(f, Skipped(f, p))
    BY <1>3, SkippedOK
<1>6. ASSUME ~MustSkip(q, hid), inner.op # "STEP_RUN"
      PROVE  RequestOK(f, Interrupted(f, p, leak))
  <2>1. Append(Pos(q), 1) \in Seq(Nat)
      BY InHandler
  <2>2. inner.op = "SLEEP"
      BY <1>1, <1>6
  <2>3. leak \in RespType
      BY <1>2, <2>1, <2>2 DEF Resp, RespType, Ops
  <2>4. RespOK(p, leak)
      BY <1>3, <1>6, <2>2 DEF RespOK, Resp, MustSkip
  <2> QED BY <1>3, <2>3, <2>4, InterruptedOK
<1> QED BY <1>4, <1>5, <1>6 DEF HandlerNested

\* The callable of a group returned, the group returned, the call was received
\* or started: nothing a response says changes.
LEMMA MovesOK ==
    ASSUME NEW f \in UserFunctions, NEW q, RequestOK(f, q)
    PROVE  /\ RequestOK(f, BranchDone(q))
           /\ q.pc = "code" => RequestOK(f, GroupReturned(q))
           /\ RequestOK(f, [q EXCEPT !.pc = "code", !.before = (q.memos = {})])
<1>1. q \in RequestType
    BY DEF RequestOK
<1>2. RequestOK(f, BranchDone(q))
  <2> DEFINE n == NextBranch(q)
             m == [n EXCEPT !.outs = @ + 1]
  <2>1. RequestOK(f, n) /\ n.pc = "code"
      BY NextBranchOK
  <2> HIDE DEF n
  <2>2. n \in RequestType
      BY <2>1 DEF RequestOK
  <2>3. n.outs + 1 \in Nat
      BY <2>2 DEF RequestType
  <2>4. m \in RequestType
      BY <2>2, <2>3 DEF RequestType
  <2>5. /\ m.pc = "code" /\ m.resps = n.resps /\ m.result = n.result
        /\ m.target = n.target /\ m.attempt = n.attempt
      BY <2>1, <2>2 DEF RequestType
  <2>6. RequestOK(f, m)
      BY <2>1, <2>4, <2>5 DEF RequestOK, RespOK
  <2> QED BY <2>6 DEF BranchDone, n
<1>3. ASSUME q.pc = "code" PROVE RequestOK(f, GroupReturned(q))
  <2> DEFINE m == GroupReturned(q)
  <2>1. q.stage + 1 \in Nat
      BY <1>1 DEF RequestType
  <2>2. m \in RequestType
      BY <1>1, <2>1 DEF GroupReturned, RequestType
  <2>3. /\ m.pc = "code" /\ m.resps = q.resps /\ m.result = q.result
        /\ m.target = q.target /\ m.attempt = q.attempt
      BY <1>1, <1>3 DEF GroupReturned, RequestType
  <2> QED BY <2>2, <2>3 DEF RequestOK, RespOK
<1>4. RequestOK(f, [q EXCEPT !.pc = "code", !.before = (q.memos = {})])
  <2> DEFINE bef == (q.memos = {})
             m == [q EXCEPT !.pc = "code", !.before = bef]
  <2>1. bef \in BOOLEAN
      OBVIOUS
  <2> HIDE DEF bef
  <2>2. m \in RequestType
      BY <1>1, <2>1 DEF RequestType
  <2>3. /\ m.pc = "code" /\ m.resps = q.resps /\ m.result = q.result
        /\ m.target = q.target /\ m.attempt = q.attempt
      BY <1>1 DEF RequestType
  <2>4. RequestOK(f, m)
      BY <2>2, <2>3 DEF RequestOK, RespOK
  <2> QED BY <2>4 DEF bef
<1> QED BY <1>2, <1>3, <1>4

\* An idle request and a request just received are well formed.
LEMMA FreshOK ==
    ASSUME NEW f \in UserFunctions, NEW target \in StepIds \union {None},
           NEW attempt \in Attempts, NEW cause \in StepIds \union {None},
           NEW snapshot \in SUBSET MemoType, NEW dis \in BOOLEAN
    PROVE  /\ RequestOK(f, Idle)
           /\ RequestOK(f, Received(target, attempt, cause, snapshot, dis))
<1> DEFINE n == Received(target, attempt, cause, snapshot, dis)
           zero == [id \in UserIds |-> 0]
<1>1. 0 \in Attempts
    BY ExecutionAssumption DEF Attempts
<1>2. zero \in [UserIds -> Nat] /\ <<>> \in Seq(RespType)
    OBVIOUS
<1>3. NoResult \in ResultType /\ NoResult.steps = <<>>
    BY <1>2 DEF NoResult, ResultType
<1>4. Idle \in RequestType /\ Idle.result = NoResult /\ Idle.resps = <<>> /\ Idle.pc = "idle"
  <2> HIDE DEF zero
  <2>1. Idle.counts = zero
      BY DEF Idle, zero
  <2> QED BY <1>1, <1>2, <1>3, <2>1 DEF Idle, RequestType, zero
<1>5. n \in RequestType
    BY <1>4 DEF Received, RequestType
<1>6. n.result = NoResult /\ n.resps = <<>> /\ n.pc = "start"
    BY <1>4 DEF Received, RequestType
<1> QED BY <1>3, <1>4, <1>5, <1>6 DEF RequestOK

-----------------------------------------------------------------------------
(* The invariant.                                                           *)

\* The invariant holds initially.
LEMMA InitIInv == Init => IInv
<1> SUFFICES ASSUME Init PROVE IInv
    OBVIOUS
<1>1. fn \in UserFunctions
    BY DEF Init
<1>2. 0 \in Attempts /\ 0 \in 0 .. MaxFaults
    BY ExecutionAssumption DEF Attempts
<1>3. RequestOK(fn, Idle)
    BY <1>1, <1>2, FreshOK
<1>4. \A r \in Requests : req[r] = Idle
    BY DEF Init
<1>5. req \in [Requests -> RequestType]
    BY <1>3 DEF Init, RequestOK
<1>6. queue \subseteq JobType
    BY <1>2 DEF Init, Discovery, Job, JobType
<1>7. returned \in [Positions(fn) -> Nat]
    BY DEF Init
<1> QED BY <1>1, <1>2, <1>3, <1>4, <1>5, <1>6, <1>7 DEF Init, IInv, TypeOK

\* A step that replaces one request by a well-formed one.
LEMMA ReplaceIInv ==
    ASSUME IInv, NEW r \in Requests, NEW q, RequestOK(fn, q), Replace(r, q),
           faults' \in 0 .. MaxFaults,
           returned' \in [Positions(fn) -> Nat],
           condemned' \subseteq Positions(fn)
    PROVE  IInv'
<1>1. fn' = fn /\ req' = [req EXCEPT ![r] = q]
    BY DEF Replace
<1>2. req \in [Requests -> RequestType] /\ q \in RequestType
    BY DEF IInv, TypeOK, RequestOK
<1>3. req' \in [Requests -> RequestType]
    BY <1>1, <1>2
<1>4. \A x \in Requests : req'[x] = IF x = r THEN q ELSE req[x]
    BY <1>1, <1>2
<1>5. \A x \in Requests : RequestOK(fn', req'[x])
    BY <1>1, <1>4 DEF IInv
<1>6. TypeOK'
    BY <1>1, <1>3 DEF IInv, TypeOK, Replace, executor
<1> QED BY <1>5, <1>6 DEF IInv, RequestOK, RespOK, AtPosition

\* Every step of the SDK keeps the invariant.
LEMMA SdkIInv ==
    ASSUME IInv, NEW r \in Requests, Sdk(r) \/ HookFails(r) \/ UserError(r)
    PROVE  IInv'
<1> DEFINE q == req[r]
<1>1. fn \in UserFunctions /\ RequestOK(fn, q)
    BY DEF IInv, TypeOK
<1>2. /\ faults \in 0 .. MaxFaults /\ returned \in [Positions(fn) -> Nat]
      /\ condemned \subseteq Positions(fn)
    BY DEF IInv, TypeOK
<1>3. ASSUME NEW n, RequestOK(fn, n), SdkStep(r, n) PROVE IInv'
    BY <1>2, <1>3, ReplaceIInv DEF SdkStep, observer
<1>4. CASE Start(r)
    BY <1>1, <1>3, <1>4, MovesOK DEF Start
<1>5. CASE ReplayData(r)
    BY <1>1, <1>3, <1>5, ReportedOK, ReturnedOK DEF ReplayData
<1>6. CASE ReplayError(r)
    BY <1>1, <1>3, <1>6, ReportedOK, RaisedOK DEF ReplayError
<1>7. CASE SkipStep(r)
    BY <1>1, <1>3, <1>7, ReportedOK, SkippedOK DEF SkipStep, New
<1>8. CASE PlanStep(r)
  <2> DEFINE p == Reported(fn, q)
             resp == PlannedResp(fn, q)
  <2>1. AtStep(fn, q) /\ q.target = None
      BY <1>8 DEF PlanStep, New, MustPlan
  <2>2. RequestOK(fn, p) /\ p.target = None
      BY <1>1, <2>1, ReportedOK
  <2>3. HashedId(fn, q) \in StepIds /\ Step(fn, q) \in StepDecl /\ Pos(q) \in Seq(Nat)
      BY <1>1, <2>1, AtStepTyped
  <2>4. resp \in RespType /\ resp.op \in {"PLANNED", "SLEEP"}
      BY <2>3 DEF PlannedResp, Resp, RespType, StepDecl, Ops
  <2>5. RespOK(p, resp)
      BY <2>2, <2>4 DEF RespOK
  <2> QED BY <1>1, <1>3, <1>8, <2>2, <2>4, <2>5, InterruptedOK DEF PlanStep
<1>9. CASE ReportOp(r)
  <2> DEFINE p == Reported(fn, q)
             resp == OpResp(fn, q)
  <2>1. /\ AtStep(fn, q) /\ ~MustSkip(q, HashedId(fn, q)) /\ Step(fn, q).op # "STEP_RUN"
      BY <1>9 DEF ReportOp, New, Targeted
  <2>2. RequestOK(fn, p) /\ p.target = q.target
      BY <1>1, <2>1, ReportedOK
  <2>3. HashedId(fn, q) \in StepIds /\ Step(fn, q) \in StepDecl /\ Pos(q) \in Seq(Nat)
      BY <1>1, <2>1, AtStepTyped
  <2>4. resp \in RespType /\ resp.op = "SLEEP" /\ resp.id = HashedId(fn, q)
      BY <2>1, <2>3 DEF OpResp, Resp, RespType, StepDecl, Ops
  <2>5. RespOK(p, resp)
      BY <2>1, <2>2, <2>4 DEF RespOK, MustSkip
  <2> QED BY <1>1, <1>3, <1>9, <2>2, <2>4, <2>5, InterruptedOK DEF ReportOp
<1>10. CASE EnterHandler(r)
    BY <1>1, <1>3, <1>10, EnteredOK DEF EnterHandler, New, Targeted
<1>11. ASSUME NEW out \in Outcomes, HandlerReturns(r, out) PROVE IInv'
  <2>1. q.pc = "handler" /\ out \in {"data", "unserializable"}
      BY <1>11 DEF HandlerReturns, MayEnd
  <2>2. RequestOK(fn, HandlerOutput(fn, q, out)) /\ Pos(q) \in Positions(fn)
      BY <1>1, <2>1, HandlerOutputOK, InHandler
  <2>3. returned' \in [Positions(fn) -> Nat] /\ condemned' \subseteq Positions(fn)
      BY <1>2, <1>11, <2>2 DEF HandlerReturns, Increment
  <2>4. Replace(r, HandlerOutput(fn, q, out)) /\ faults' = faults
      BY <1>11 DEF HandlerReturns
  <2> QED BY <1>2, <2>2, <2>3, <2>4, ReplaceIInv
<1>12. CASE HandlerRaises(r)
    BY <1>1, <1>3, <1>12, HandlerErrorOK DEF HandlerRaises, MayEnd
<1>13. ASSUME NEW out \in Outcomes, HandlerBubbles(r, out) PROVE IInv'
  <2>1. q.pc = "handler"
      BY <1>13 DEF HandlerBubbles, MayEnd
  <2> DEFINE retriable == out = "retryafter"
  <2>2. retriable \in BOOLEAN
      OBVIOUS
  <2>3. RequestOK(fn, Raised(fn, q, retriable)) /\ Pos(q) \in Positions(fn)
      BY <1>1, <2>1, <2>2, RaisedOK, InHandler
  <2>4. returned' \in [Positions(fn) -> Nat] /\ condemned' \subseteq Positions(fn)
      BY <1>2, <1>13, <2>3 DEF HandlerBubbles
  <2>5. Replace(r, Raised(fn, q, retriable)) /\ faults' = faults
      BY <1>13 DEF HandlerBubbles
  <2> QED BY <1>2, <2>3, <2>4, <2>5, ReplaceIInv
<1>14. CASE HandlerNests(r)
    BY <1>1, <1>3, <1>14, HandlerNestedOK DEF HandlerNests, MayEnd
<1>15. CASE BranchEnds(r)
    BY <1>1, <1>3, <1>15, MovesOK DEF BranchEnds
<1>16. CASE GroupEnds(r)
  <2>1. q.pc = "code" /\ RequestOK(fn, GroupReturned(q))
      BY <1>1, <1>16, MovesOK DEF GroupEnds, InStage
  <2> DEFINE steps == q.resps
             retriable == \A i \in DOMAIN steps : steps[i].retry
  <2>2. retriable \in BOOLEAN
      OBVIOUS
  <2>3. steps \in Seq(RespType) /\ \A i \in DOMAIN steps : RespOK(q, steps[i])
      BY <1>1 DEF RequestOK, RequestType
  <2> HIDE DEF retriable, steps
  <2>4. RequestOK(fn, Finished(q, [kind |-> "steps", steps |-> steps, retry |-> retriable]))
      BY <1>1, <2>2, <2>3, FinishedOK
  <2>5. RequestOK(fn, Finished(q, StepsResult(q.resps)))
      BY <2>4 DEF StepsResult, steps, retriable
  <2> QED BY <1>3, <1>16, <2>1, <2>5 DEF GroupEnds
<1>17. CASE FunctionReturns(r)
  <2>1. <<>> \in Seq(RespType) /\ DOMAIN <<>> = {}
      OBVIOUS
  <2>2. RequestOK(fn, Finished(q, ReturnResult))
      BY <1>1, <2>1, FinishedOK DEF ReturnResult
  <2> QED BY <1>3, <1>17, <2>2 DEF FunctionReturns
<1>18. CASE HookFails(r) \/ UserError(r)
  <2>1. Replace(r, Finished(q, ErrorResult(TRUE))) /\ UNCHANGED observer
      BY <1>18 DEF HookFails, UserError
  <2>2. RequestOK(fn, Finished(q, ErrorResult(TRUE)))
      BY <1>1, ErrorOK
  <2>a. faults < MaxFaults /\ faults' = faults + 1
      BY <1>18 DEF HookFails, UserError
  <2>3. faults' \in 0 .. MaxFaults
      BY <1>2, <2>a, ExecutionAssumption
  <2> QED BY <1>2, <2>1, <2>2, <2>3, ReplaceIInv DEF observer
<1> QED BY <1>4, <1>5, <1>6, <1>7, <1>8, <1>9, <1>10, <1>11, <1>12, <1>13, <1>14,
          <1>15, <1>16, <1>17, <1>18 DEF Sdk

\* Retrying a request queues a job with an attempt that is left, or ends the run.
LEMMA RetryTyped ==
    ASSUME IInv, NEW r \in Requests, NEW retriable \in BOOLEAN, Retry(req[r], retriable)
    PROVE  /\ queue' \subseteq JobType
           /\ run' \in {"running", "completed", "failed"}
           /\ UNCHANGED <<memos, known, asleep, forcePlan>>
<1> DEFINE q == req[r]
<1>1. q \in RequestType /\ queue \subseteq JobType /\ run \in {"running", "completed", "failed"}
    BY DEF IInv, TypeOK
<1>2. q.attempt \in Nat /\ q.target \in StepIds \union {None} /\ q.cause \in StepIds \union {None}
    BY <1>1 DEF RequestType, Attempts
<1>3. q.attempt + 1 < MaxAttempts => q.attempt + 1 \in Attempts
    BY <1>2, ExecutionAssumption DEF Attempts
<1>4. q.attempt + 1 < MaxAttempts => Job(q.target, q.attempt + 1, q.cause) \in JobType
    BY <1>2, <1>3 DEF Job, JobType
<1> QED BY <1>1, <1>4 DEF Retry

\* Applying the steps of a response keeps the Executor's state typed.
LEMMA ApplyTyped ==
    ASSUME IInv, NEW r \in Requests, Response(req[r]).kind = "steps",
           ApplySteps(req[r], Response(req[r]).steps)
    PROVE  /\ memos' \subseteq MemoType
           /\ queue' \subseteq JobType
           /\ asleep' \subseteq [id : StepIds, at : Seq(Nat)]
           /\ known' \subseteq StepIds
           /\ forcePlan' \in BOOLEAN
           /\ run' = run
<1> DEFINE q == req[r]
           resps == q.result.steps
<1>1. RequestOK(fn, q) /\ q \in RequestType /\ TypeOK
    BY DEF IInv, RequestOK
<1>2. q.result \in ResultType
    BY <1>1 DEF RequestType
<1>3. resps \in Seq(RespType)
    BY <1>2 DEF ResultType
<1>4. /\ Response(q) = q.result
      /\ \A i \in DOMAIN resps : resps[i].out # "unserializable"
    BY DEF Response, ErrorResult
<1>5. \A i \in DOMAIN resps : resps[i] \in RespType /\ RespOK(q, resps[i])
    BY <1>1, <1>3, SeqElement DEF RequestOK
<1>6. ApplySteps(q, resps)
    BY <1>4
<1> HIDE DEF resps
<1>7. memos' \subseteq MemoType
  <2>1. \A i \in DOMAIN resps : Decides(resps[i]) => AsMemo(resps[i]) \in MemoType
    <3> SUFFICES ASSUME NEW i \in DOMAIN resps, Decides(resps[i])
                 PROVE  AsMemo(resps[i]) \in MemoType
        OBVIOUS
    <3>1. resps[i].out \in {"data", "error"}
        BY <1>4, <1>5 DEF Decides, RespOK, resps
    <3> QED BY <1>5, <3>1 DEF AsMemo, MemoType, RespType
  <2> QED BY <1>1, <1>6, <2>1 DEF ApplySteps, TypeOK
<1>8. queue' \subseteq JobType
  <2>1. \A i \in DOMAIN resps : FollowUp(q, resps[i]) \subseteq JobType
    <3> SUFFICES ASSUME NEW i \in DOMAIN resps PROVE FollowUp(q, resps[i]) \subseteq JobType
        OBVIOUS
    <3> DEFINE s == resps[i]
    <3>1. s.id \in StepIds /\ 0 \in Attempts
        BY <1>5, ExecutionAssumption DEF RespType, Attempts
    <3>2. Job(s.id, 0, s.id) \in JobType /\ Discovery(s.id) \in JobType
        BY <3>1 DEF Discovery, Job, JobType
    <3>3. q.target \in StepIds \union {None} /\ q.cause \in StepIds \union {None} /\ q.attempt \in Nat
        BY <1>1 DEF RequestType, Attempts
    <3>4. s.op = "STEP_ERROR" /\ s.retry => q.attempt + 1 \in Attempts
        BY <1>5, <3>3, ExecutionAssumption DEF RespOK, Attempts
    <3>5. s.op = "STEP_ERROR" /\ s.retry => Job(q.target, q.attempt + 1, q.cause) \in JobType
        BY <3>3, <3>4 DEF Job, JobType
    <3> QED BY <3>2, <3>5 DEF FollowUp
  <2> QED BY <1>1, <1>6, <2>1 DEF ApplySteps, TypeOK
<1>9. asleep' \subseteq [id : StepIds, at : Seq(Nat)] /\ known' \subseteq StepIds
    BY <1>1, <1>5, <1>6 DEF ApplySteps, TypeOK, RespType
<1>10. forcePlan' \in BOOLEAN /\ run' = run
    BY <1>1, <1>6 DEF ApplySteps, TypeOK
<1> QED BY <1>7, <1>8, <1>9, <1>10

\* Every step of the Executor keeps the invariant.
LEMMA ExecutorIInv ==
    ASSUME IInv, (\E r \in Requests : Send(r) \/ Apply(r) \/ Lose(r)) \/ Wake
    PROVE  IInv'
<1>1. TypeOK /\ fn \in UserFunctions
    BY DEF IInv, TypeOK
<1>2. ASSUME NEW r \in Requests, NEW q, RequestOK(fn, q), req' = [req EXCEPT ![r] = q], fn' = fn
      PROVE  req' \in [Requests -> RequestType] /\ \A x \in Requests : RequestOK(fn, req'[x])
    BY <1>1, <1>2 DEF IInv, TypeOK, RequestOK
<1>3. RequestOK(fn, Idle)
  <2>1. 0 \in Attempts
      BY ExecutionAssumption DEF Attempts
  <2> QED BY <1>1, <2>1, FreshOK
<1>4. ASSUME TypeOK', fn' = fn, \A x \in Requests : RequestOK(fn, req'[x])
      PROVE  IInv'
    BY <1>4 DEF IInv, RequestOK, RespOK, AtPosition
<1>5. ASSUME NEW r \in Requests, Send(r) PROVE IInv'
  <2>1. PICK j \in queue :
          /\ queue' = queue \ {j}
          /\ req' = [req EXCEPT ![r] = Received(j.target, j.attempt, j.cause, memos, forcePlan)]
      BY <1>5 DEF Send
  <2>2. /\ j.target \in StepIds \union {None} /\ j.attempt \in Attempts
        /\ j.cause \in StepIds \union {None}
      BY <1>1, <2>1 DEF TypeOK, JobType
  <2>3. RequestOK(fn, Received(j.target, j.attempt, j.cause, memos, forcePlan))
      BY <1>1, <2>2, FreshOK DEF TypeOK
  <2>4. fn' = fn /\ UNCHANGED <<memos, known, asleep, forcePlan, run, faults, observer>>
      BY <1>5 DEF Send
  <2>5. req' \in [Requests -> RequestType] /\ \A x \in Requests : RequestOK(fn, req'[x])
      BY <1>2, <2>1, <2>3, <2>4
  <2>6. TypeOK'
      BY <1>1, <2>1, <2>4, <2>5 DEF TypeOK, observer
  <2> QED BY <1>4, <2>4, <2>5, <2>6
<1>6. ASSUME NEW r \in Requests, Apply(r) PROVE IInv'
  <2>1. req' = [req EXCEPT ![r] = Idle] /\ UNCHANGED <<fn, faults, observer>>
      BY <1>6 DEF Apply
  <2>2. req' \in [Requests -> RequestType] /\ \A x \in Requests : RequestOK(fn, req'[x])
      BY <1>2, <1>3, <2>1
  <2>3. CASE UNCHANGED executor
      BY <1>1, <1>4, <2>1, <2>2, <2>3 DEF TypeOK, executor, observer
  <2>4. CASE Response(req[r]).kind = "steps" /\ ApplySteps(req[r], Response(req[r]).steps)
    <3>1. TypeOK'
        BY <1>1, <2>1, <2>2, <2>4, ApplyTyped DEF TypeOK, observer
    <3> QED BY <1>4, <2>1, <2>2, <3>1
  <2>5. CASE Retry(req[r], Response(req[r]).retry)
    <3>1. req[r].result.retry \in BOOLEAN
        BY <1>1 DEF TypeOK, RequestType, ResultType
    <3>2. Response(req[r]).retry \in BOOLEAN
        BY <3>1 DEF Response, ErrorResult
    <3>3. TypeOK'
        BY <1>1, <2>1, <2>2, <2>5, <3>2, RetryTyped DEF TypeOK, observer
    <3> QED BY <1>4, <2>1, <2>2, <3>3
  <2>6. CASE run' = "completed" /\ UNCHANGED <<memos, known, asleep, queue, forcePlan>>
    <3>1. TypeOK'
        BY <1>1, <2>1, <2>2, <2>6 DEF TypeOK, observer
    <3> QED BY <1>4, <2>1, <2>2, <3>1
  <2> QED BY <1>6, <2>3, <2>4, <2>5, <2>6 DEF Apply
<1>7. ASSUME NEW r \in Requests, Lose(r) PROVE IInv'
  <2>1. /\ req' = [req EXCEPT ![r] = Idle] /\ UNCHANGED <<fn, observer>>
        /\ faults < MaxFaults /\ faults' = faults + 1
      BY <1>7 DEF Lose
  <2>2. req' \in [Requests -> RequestType] /\ \A x \in Requests : RequestOK(fn, req'[x])
      BY <1>2, <1>3, <2>1
  <2>3. faults' \in 0 .. MaxFaults
      BY <1>1, <2>1, ExecutionAssumption DEF TypeOK
  <2>4. CASE UNCHANGED executor
    <3>1. TypeOK'
        BY <1>1, <2>1, <2>2, <2>3, <2>4 DEF TypeOK, executor, observer
    <3> QED BY <1>4, <2>1, <2>2, <3>1
  <2>5. CASE Retry(req[r], TRUE)
    <3>1. TypeOK'
        BY <1>1, <2>1, <2>2, <2>3, <2>5, RetryTyped DEF TypeOK, observer
    <3> QED BY <1>4, <2>1, <2>2, <3>1
  <2> QED BY <1>7, <2>4, <2>5 DEF Lose
<1>8. CASE Wake
  <2>1. PICK s \in asleep :
          /\ asleep' = asleep \ {s}
          /\ memos' = memos \union {[id |-> s.id, out |-> "data", at |-> s.at]}
          /\ queue' = queue \union {Discovery(s.id)}
      BY <1>8 DEF Wake
  <2>2. s.id \in StepIds /\ s.at \in Seq(Nat) /\ 0 \in Attempts
      BY <1>1, <2>1, ExecutionAssumption DEF TypeOK, Attempts
  <2>3. /\ [id |-> s.id, out |-> "data", at |-> s.at] \in MemoType
        /\ Discovery(s.id) \in JobType
      BY <2>2 DEF MemoType, Discovery, Job, JobType
  <2>4. UNCHANGED <<fn, req, known, forcePlan, run, faults, observer>>
      BY <1>8 DEF Wake
  <2>5. TypeOK'
      BY <1>1, <2>1, <2>3, <2>4 DEF TypeOK, observer
  <2> QED BY <1>4, <2>4, <2>5 DEF IInv
<1> QED BY <1>5, <1>6, <1>7, <1>8

\* IInv is an inductive invariant of the specification.
THEOREM Invariance == Spec => []IInv
<1>1. IInv /\ [Next]_vars => IInv'
  <2> SUFFICES ASSUME IInv, [Next]_vars PROVE IInv'
      OBVIOUS
  <2>1. CASE Next
      BY <2>1, SdkIInv, ExecutorIInv DEF Next
  <2>2. CASE UNCHANGED vars
      BY <2>2 DEF vars, executor, observer, IInv, TypeOK, RequestOK, RespOK, AtPosition
  <2> QED BY <2>1, <2>2
<1> QED BY InitIInv, <1>1, PTL DEF Spec

\* Type correctness: in particular no job, and so no request, ever carries an
\* attempt beyond max_attempts, and only decided steps become memos.
THEOREM TypeCorrect == Spec => []TypeOK
<1>1. IInv => TypeOK
    BY DEF IInv
<1> QED BY Invariance, <1>1, PTL

\* A targeted request runs and reports no step but its target.
THEOREM Isolation == Spec => []OnlyTheTarget
<1>1. IInv => OnlyTheTarget
    BY DEF IInv, RequestOK, RespOK, OnlyTheTarget
<1> QED BY Invariance, <1>1, PTL

-----------------------------------------------------------------------------
(* Positions and keys.                                                      *)

\* The values of a function on a finite set are finitely many.
LEMMA ValuesFinite ==
    ASSUME NEW D, NEW R, IsFiniteSet(D), NEW g \in [D -> R]
    PROVE  IsFiniteSet({g[d] : d \in D})
<1> DEFINE T == {g[d] : d \in D}
<1>1. g \in Surjection(D, T)
    BY DEF Surjection
<1> HIDE DEF T
<1> QED BY <1>1, FS_Surjection DEF T

\* The function has finitely many steps.
LEMMA PositionsFinite ==
    ASSUME NEW f \in UserFunctions
    PROVE  IsFiniteSet(Positions(f))
<1> DEFINE Calls(s, b) == {<<s, b, i>> : i \in DOMAIN f[s].branches[b]}
           Branches(s) == {Calls(s, b) : b \in DOMAIN f[s].branches}
           Stages == {UNION Branches(s) : s \in DOMAIN f}
           StageDecl == [par : BOOLEAN, branches : Seq(Seq(StepDecl))]
<1>1. f \in Seq(StageDecl)
    BY FunctionsAssumption
<1>2. ASSUME NEW S, NEW g \in Seq(S) PROVE IsFiniteSet(DOMAIN g)
  <2>1. DOMAIN g = 1 .. Len(g) /\ Len(g) \in Int /\ 1 \in Int
      BY <1>2
  <2> QED BY <2>1, FS_Interval
<1>3. ASSUME NEW s \in DOMAIN f, NEW b \in DOMAIN f[s].branches
      PROVE  IsFiniteSet(Calls(s, b))
  <2>1. f[s].branches \in Seq(Seq(StepDecl))
    <3>1. f[s] \in StageDecl
      <4> HIDE DEF StageDecl
      <4> QED BY <1>1, SeqElement
    <3> QED BY <3>1
  <2>2. f[s].branches[b] \in Seq(StepDecl)
      BY <2>1, SeqElement
  <2> DEFINE D == DOMAIN f[s].branches[b]
             g == [i \in D |-> <<s, b, i>>]
  <2>3. IsFiniteSet(D)
      BY <1>2, <2>2
  <2>4. IsFiniteSet({g[i] : i \in D})
    <3>1. g \in [D -> {g[i] : i \in D}]
        OBVIOUS
    <3> HIDE DEF g, D
    <3> QED BY <2>3, <3>1, ValuesFinite
  <2>5. {g[i] : i \in D} = Calls(s, b)
      OBVIOUS
  <2> QED BY <2>4, <2>5
<1>4. ASSUME NEW s \in DOMAIN f PROVE IsFiniteSet(UNION Branches(s))
  <2> DEFINE D == DOMAIN f[s].branches
             g == [b \in D |-> Calls(s, b)]
  <2>1. IsFiniteSet(D)
    <3>1. f[s] \in StageDecl
      <4> HIDE DEF StageDecl
      <4> QED BY <1>1, SeqElement
    <3>2. f[s].branches \in Seq(Seq(StepDecl))
        BY <3>1
    <3> QED BY <1>2, <3>2
  <2>2. {g[b] : b \in D} = Branches(s)
    <3> HIDE DEF Calls
    <3> QED OBVIOUS
  <2>3. IsFiniteSet({g[b] : b \in D})
    <3> DEFINE R == {g[i] : i \in D}
    <3>1. g \in [D -> R]
      <4> HIDE DEF Calls
      <4> QED OBVIOUS
    <3> HIDE DEF g, D, R
    <3> QED BY <2>1, <3>1, ValuesFinite
  <2>4. \A T \in Branches(s) : IsFiniteSet(T)
    <3> HIDE DEF Calls
    <3> QED BY <1>3
  <2> HIDE DEF Branches, g, D
  <2> QED BY <2>2, <2>3, <2>4, FS_UNION
<1>5. IsFiniteSet(Stages)
  <2> DEFINE D == DOMAIN f
             g == [s \in D |-> UNION Branches(s)]
  <2>1. IsFiniteSet(D)
      BY <1>1, <1>2
  <2>2. {g[s] : s \in D} = Stages
    <3> HIDE DEF Branches
    <3> QED OBVIOUS
  <2>3. IsFiniteSet({g[s] : s \in D})
    <3> DEFINE R == {g[i] : i \in D}
    <3>1. g \in [D -> R]
      <4> HIDE DEF Branches
      <4> QED OBVIOUS
    <3> HIDE DEF g, D, R
    <3> QED BY <2>1, <3>1, ValuesFinite
  <2> QED BY <2>2, <2>3
<1>6. \A T \in Stages : IsFiniteSet(T)
  <2> HIDE DEF Branches
  <2> QED BY <1>4
<1>7. Positions(f) = UNION Stages
    BY DEF Positions
<1> HIDE DEF Stages
<1> QED BY <1>5, <1>6, <1>7, FS_UNION

\* The coordinates of a step.
LEMMA PositionTyped ==
    ASSUME NEW f \in UserFunctions, NEW p \in Positions(f)
    PROVE  /\ p = <<p[1], p[2], p[3]>>
           /\ p[1] \in 1 .. Len(f) /\ Len(f) \in Nat
           /\ p[2] \in 1 .. Len(f[p[1]].branches) /\ Len(f[p[1]].branches) \in Nat
           /\ p[3] \in 1 .. Len(f[p[1]].branches[p[2]])
           /\ Len(f[p[1]].branches[p[2]]) \in Nat
           /\ At(f, p) \in StepDecl
<1> DEFINE StageDecl == [par : BOOLEAN, branches : Seq(Seq(StepDecl))]
<1>1. f \in Seq(StageDecl)
    BY FunctionsAssumption
<1>2. PICK s \in DOMAIN f : \E b \in DOMAIN f[s].branches :
            \E i \in DOMAIN f[s].branches[b] : p = <<s, b, i>>
    BY DEF Positions
<1>3. PICK b \in DOMAIN f[s].branches :
            \E i \in DOMAIN f[s].branches[b] : p = <<s, b, i>>
    BY <1>2
<1>4. PICK i \in DOMAIN f[s].branches[b] : p = <<s, b, i>>
    BY <1>3
<1>5. p[1] = s /\ p[2] = b /\ p[3] = i
    BY <1>4
<1>6. f[s] \in StageDecl
  <2> HIDE DEF StageDecl
  <2> QED BY <1>1, SeqElement
<1>7. f[s].branches \in Seq(Seq(StepDecl))
    BY <1>6
<1>8. f[s].branches[b] \in Seq(StepDecl)
    BY <1>7, SeqElement
<1>9. f[s].branches[b][i] \in StepDecl
    BY <1>8, SeqElement
<1>10. s \in 1 .. Len(f) /\ Len(f) \in Nat
    BY <1>1
<1>11. b \in 1 .. Len(f[s].branches) /\ Len(f[s].branches) \in Nat
    BY <1>7
<1>12. i \in 1 .. Len(f[s].branches[b]) /\ Len(f[s].branches[b]) \in Nat
    BY <1>8
<1> QED BY <1>4, <1>5, <1>9, <1>10, <1>11, <1>12 DEF At

\* Step t is behind request q: q has come by it, or by the end of its callable.
Behind(q, t) == Earlier(t, Pos(q)) \/ (q.pc = "handler" /\ t = Pos(q))

\* The request runs the function.
Replaying(q) == q.pc \in {"start", "code", "handler"}

\* The name of a sleep that some handler calls, which report_step answers with.
InnerName(f, id) ==
    \E t \in Positions(f) : \E i \in At(f, t).inner : i.op = "SLEEP" /\ id.name = i.id.name

\* What says that a step is decided or asleep is about that step.
Fits(f, e) ==
    \/ e.at \in Positions(f) /\ e.id = Key(f, e.at)
    \/ InnerName(f, e.id) /\ e.at \notin Positions(f)

\* What a response says is about the step it names.
RespFits(f, resp) ==
    \/ /\ resp.at \in Positions(f) /\ resp.id = Key(f, resp.at)
       /\ resp.op = "SLEEP" <=> At(f, resp.at).op = "SLEEP"
    \/ InnerName(f, resp.id) /\ resp.at \notin Positions(f) /\ resp.op = "SLEEP"

\* How often the id of step p was counted.
Seen(f, q, p) == {t \in Positions(f) : Behind(q, t) /\ At(f, t).id = At(f, p).id}

\* The counter of each step ahead (StepIDCounter).
Counts(f, q) ==
    \A p \in Positions(f) : ~Behind(q, p) =>
        q.counts[At(f, p).id] = Cardinality(Seen(f, q, p))

\* The request stands within the function, or at an end of a part of it.
Within(f, q) ==
    /\ q.stage \in 1 .. Len(f) + 1 /\ q.branch \in Nat \ {0} /\ q.idx \in Nat \ {0}
    /\ q.stage \notin DOMAIN f => q.branch = 1 /\ q.idx = 1
    /\ q.stage \in DOMAIN f =>
         /\ q.branch <= Len(f[q.stage].branches) + 1
         /\ q.branch \in DOMAIN f[q.stage].branches =>
              q.idx <= Len(f[q.stage].branches[q.branch]) + 1
         /\ q.branch \notin DOMAIN f[q.stage].branches => q.idx = 1

\* What a request holds is about the steps it names.
RequestFits(f, q) ==
    /\ \A m \in q.memos : Fits(f, m)
    /\ \A i \in DOMAIN q.resps : RespFits(f, q.resps[i])
    /\ \A i \in DOMAIN q.result.steps : RespFits(f, q.result.steps[i])
    /\ Replaying(q) => Counts(f, q) /\ Within(f, q)
    /\ q.pc = "handler" => q.hid = Key(f, Pos(q)) /\ Step(f, q).op = "STEP_RUN"

-----------------------------------------------------------------------------
\* An id with a counter appended.
LEMMA Numbered ==
    ASSUME NEW id \in StepIds, NEW n
    PROVE  [id EXCEPT !.path = Append(@, n)] = [name |-> id.name, path |-> Append(id.path, n)]
<1> DEFINE s == Append(id.path, n)
<1>1. [id EXCEPT !.path = s] = [name |-> id.name, path |-> s]
  <2> HIDE DEF s
  <2> QED BY DEF StepIds
<1> QED BY <1>1, Zenon DEF s

\* What _parse_step_id makes of an id that was counted n times.
LEMMA HashedAs ==
    ASSUME NEW counts, NEW id \in StepIds, NEW n \in Nat, counts[id] = n
    PROVE  Hashed(counts, id) = IF n > 0 THEN [name |-> id.name, path |-> Append(id.path, n)]
                                ELSE id
<1>1. CASE n > 0
  <2> DEFINE k == counts[id] + 1
  <2>1. k > 1 /\ k - 1 = n
      BY <1>1
  <2>2. Hashed(counts, id) = IF k > 1 THEN [id EXCEPT !.path = Append(@, k - 1)] ELSE id
      BY Zenon DEF Hashed
  <2> HIDE DEF k
  <2>3. Hashed(counts, id) = [id EXCEPT !.path = Append(@, k - 1)]
      BY <2>1, <2>2, Zenon
  <2>4. Hashed(counts, id) = [name |-> id.name, path |-> Append(id.path, k - 1)]
      BY <2>3, Numbered
  <2> QED BY <1>1, <2>1, <2>4
<1>2. CASE ~(n > 0)
  <2>1. ~(counts[id] + 1 > 1)
      BY <1>2
  <2> QED BY <1>2, <2>1 DEF Hashed
<1> QED BY <1>1, <1>2

\* The key of a step, spelled out.
LEMMA KeyAs ==
    ASSUME NEW f \in UserFunctions, NEW p \in Positions(f)
    PROVE  LET id == At(f, p).id
               n  == Cardinality(Uses(f, p))
           IN  /\ id \in StepIds /\ n \in Nat
               /\ Key(f, p) = IF n > 0 THEN [name |-> id.name, path |-> Append(id.path, n)]
                              ELSE id
<1> DEFINE id == At(f, p).id
           n == Cardinality(Uses(f, p))
<1>1. id \in StepIds
    BY PositionTyped, FunctionsAssumption DEF StepDecl
<1>2. n \in Nat
  <2>1. Uses(f, p) \in SUBSET Positions(f)
      BY DEF Uses
  <2>2. IsFiniteSet(Uses(f, p))
      BY <2>1, PositionsFinite, FS_Subset
  <2> QED BY <2>2, FS_CardinalityType
<1>3. Key(f, p) = IF n > 0 THEN [id EXCEPT !.path = Append(@, n)] ELSE id
    BY Zenon DEF Key
<1> HIDE DEF n, id
<1>4. [id EXCEPT !.path = Append(@, n)] = [name |-> id.name, path |-> Append(id.path, n)]
    BY <1>1, Numbered
<1>5. Key(f, p) = IF n > 0 THEN [name |-> id.name, path |-> Append(id.path, n)] ELSE id
    BY <1>3, <1>4, Zenon
<1> QED BY <1>1, <1>2, <1>5 DEF n, id

\* The key of a step has its name, so no nested step has it.
LEMMA KeyName ==
    ASSUME NEW f \in UserFunctions, NEW p \in Positions(f)
    PROVE  /\ Key(f, p).name = At(f, p).id.name
           /\ Key(f, p) \in StepIds
           /\ TellsApart(f) => ~InnerName(f, Key(f, p))
<1> DEFINE id == At(f, p).id
           n == Cardinality(Uses(f, p))
<1>1. id \in StepIds /\ n \in Nat
    BY KeyAs
<1>2. Key(f, p) = IF n > 0 THEN [name |-> id.name, path |-> Append(id.path, n)] ELSE id
    BY KeyAs
<1> HIDE DEF n, id
<1>3. Append(id.path, n) \in Seq(Nat)
    BY <1>1 DEF StepIds
<1>4. Key(f, p).name = id.name /\ Key(f, p) \in StepIds
    BY <1>1, <1>2, <1>3 DEF StepIds
<1> QED BY <1>4 DEF id, TellsApart, InnerName

\* A request stands at a step whose id it has counted as often as the function
\* used it, so the id it hashes is the step's key (_parse_step_id).
LEMMA HashedIsKey ==
    ASSUME NEW f \in UserFunctions, NEW q, RequestOK(f, q), AtStep(f, q), Counts(f, q)
    PROVE  /\ HashedId(f, q) = Key(f, Pos(q)) /\ Pos(q) \in Positions(f)
           /\ At(f, Pos(q)) = Step(f, q) /\ ~Behind(q, Pos(q))
<1>1. /\ AtPosition(f, q) /\ q \in RequestType /\ Step(f, q).id \in UserIds
    BY AtStepTyped
<1>2. Pos(q) \in Positions(f)
    BY <1>1, StepTyped
<1>3. Pos(q)[1] = q.stage /\ Pos(q)[2] = q.branch /\ Pos(q)[3] = q.idx
    BY DEF Pos
<1>4. At(f, Pos(q)) = Step(f, q)
    BY <1>3 DEF At, Step, Branch, Stage
<1>5. q.pc = "code"
    BY DEF AtStep, InBranch, InStage
<1>6. ~Behind(q, Pos(q))
    BY <1>1, <1>3, <1>5 DEF Behind, Earlier, RequestType
<1> DEFINE id == Step(f, q).id
           n == Cardinality(Uses(f, Pos(q)))
<1>7. Seen(f, q, Pos(q)) = Uses(f, Pos(q))
    BY <1>5 DEF Seen, Uses, Behind
<1>8. q.counts[id] = n
    BY <1>2, <1>4, <1>6, <1>7 DEF Counts
<1>9. id \in StepIds /\ n \in Nat
      /\ Key(f, Pos(q)) = IF n > 0 THEN [name |-> id.name, path |-> Append(id.path, n)] ELSE id
    BY <1>2, <1>4, KeyAs
<1>10. HashedId(f, q) = Hashed(q.counts, id)
    BY DEF HashedId
<1> HIDE DEF n, id
<1>11. HashedId(f, q) = Key(f, Pos(q))
    BY <1>8, <1>9, <1>10, HashedAs
<1> QED BY <1>2, <1>4, <1>6, <1>11

\* The name of a hashed id.
LEMMA HashedName ==
    ASSUME NEW counts \in [UserIds -> Nat], NEW id \in UserIds
    PROVE  Hashed(counts, id).name = id.name
<1>1. id \in StepIds /\ counts[id] \in Nat
    BY FunctionsAssumption
<1> QED BY <1>1, HashedAs

-----------------------------------------------------------------------------
(* What a step of the SDK makes of a request.                               *)

\* What a move of a request leaves alone.
SameJob(q, n) == n.target = q.target /\ n.dis = q.dis /\ n.attempt = q.attempt
SameSpot(q, n) ==
    n.stage = q.stage /\ n.branch = q.branch /\ n.idx = q.idx /\ n.outs = q.outs
SameWork(q, n) == n.resps = q.resps /\ n.result = q.result
SameReplay(q, n) == n.counts = q.counts /\ n.memos = q.memos

\* report_step: the id is counted and its memo is taken.
Reports(f, q, n) ==
    /\ AtStep(f, q)
    /\ n.counts = Increment(q.counts, Step(f, q).id)
    /\ n.memos = {m \in q.memos : m.id # HashedId(f, q)}

\* report_step, by the step itself or by one that its handler called.
Leaving(f, q, n) ==
    \/ Reports(f, q, n)
    \/ /\ q.pc = "handler"
       /\ \/ SameReplay(q, n)
          \/ \E inner \in Step(f, q).inner :
                /\ n.counts = Increment(q.counts, inner.id)
                /\ n.memos = {m \in q.memos : m.id # Hashed(q.counts, inner.id)}

\* The step method was called and has no memo.
IsNew(f, q) == AtStep(f, q) /\ ~Memoized(f, q)

\* A SkipInterrupt: of a step, or of a step that a handler called.
Skips(f, q) ==
    \/ IsNew(f, q) /\ MustSkip(q, HashedId(f, q))
    \/ q.pc = "handler" /\ Step(f, q).inner # {} /\ q.target # None

\* A ResponseInterrupt.
Responds(f, q, resp) ==
    \/ /\ IsNew(f, q) /\ ~MustSkip(q, HashedId(f, q))
       /\ resp.id = HashedId(f, q) /\ resp.at = Pos(q)
       /\ \/ Step(f, q).op = "STEP_RUN" /\ resp.op = "PLANNED" /\ q.target = None
          \/ Step(f, q).op = "SLEEP" /\ resp.op = "SLEEP"
    \/ /\ q.pc = "handler" /\ resp.id = q.hid /\ resp.at = Pos(q)
       /\ resp.op \in {"STEP_RUN", "STEP_FAILED", "STEP_ERROR"}
       /\ resp.op = "STEP_RUN" => resp.out \in Step(f, q).outs
    \/ /\ q.pc = "handler" /\ resp.op = "SLEEP" /\ resp.at = Append(Pos(q), 1)
       /\ \E inner \in Step(f, q).inner :
             inner.op = "SLEEP" /\ resp.id = Hashed(q.counts, inner.id)
       /\ ~MustSkip(q, resp.id)

\* The call starts.
Begins(q, n) ==
    q.pc = "start" /\ n.pc = "code" /\ SameSpot(q, n) /\ SameWork(q, n) /\ SameReplay(q, n)

\* step.run calls its handler.
EntersHandler(f, q, n) ==
    /\ IsNew(f, q) /\ Reports(f, q, n) /\ SameSpot(q, n) /\ SameWork(q, n)
    /\ ~MustSkip(q, HashedId(f, q)) /\ ~MustPlan(f, q) /\ Step(f, q).op = "STEP_RUN"
    /\ n.pc = "handler" /\ n.hid = HashedId(f, q)

\* The step method returned, or the user's code caught what it raised.
GoesOn(f, q, n) ==
    /\ n.pc = "code" /\ SameWork(q, n)
    /\ n.stage = q.stage /\ n.branch = q.branch /\ n.idx = q.idx + 1 /\ n.outs = q.outs
    /\ \/ /\ Reports(f, q, n)
          /\ \E m \in q.memos : m.id = HashedId(f, q) /\ (m.out = "data" \/ Step(f, q).caught)
       \/ /\ q.pc = "handler" /\ SameReplay(q, n) /\ Step(f, q).caught
          /\ Step(f, q).outs \intersect {"nonretriable", "retryafter"} # {}

\* An interrupt in a group.
Leaves(f, q, n) ==
    /\ Stage(f, q).par /\ Leaving(f, q, n) /\ n.result = q.result
    /\ n.pc = "code" /\ n.stage = q.stage /\ n.branch = q.branch + 1 /\ n.idx = 1
    /\ n.outs = q.outs
    /\ \/ n.resps = q.resps /\ Skips(f, q)
       \/ \E resp \in RespType : n.resps = Append(q.resps, resp) /\ Responds(f, q, resp)

\* A callable of a group returned; the group returned.
Closes(f, q, n) ==
    /\ InBranch(f, q) /\ ~AtStep(f, q) /\ SameWork(q, n) /\ SameReplay(q, n)
    /\ n.pc = "code" /\ n.stage = q.stage /\ n.branch = q.branch + 1 /\ n.idx = 1
    /\ n.outs = q.outs + 1

\* A group returned to the function.
Resumes(f, q, n) ==
    /\ InStage(f, q) /\ ~InBranch(f, q) /\ q.resps = <<>>
    /\ SameWork(q, n) /\ SameReplay(q, n)
    /\ n.pc = "code" /\ n.stage = q.stage + 1 /\ n.branch = 1 /\ n.idx = 1 /\ n.outs = 0

\* The call ended.
Answers(f, q, result) ==
    /\ ~Stage(f, q).par
    /\ \E resp \in RespType : result = StepsResult(<<resp>>) /\ Responds(f, q, resp)

\* With an exception of a step that the function did not catch.
Raises(f, q, result) ==
    \/ AtStep(f, q) /\ result = ErrorResult(FALSE)
    \/ /\ q.pc = "handler" /\ ~Step(f, q).caught
       /\ \/ result = ErrorResult(FALSE) /\ "nonretriable" \in Step(f, q).outs
          \/ result = ErrorResult(TRUE) /\ "retryafter" \in Step(f, q).outs

\* In every way it can end.
Ends(f, q, n) ==
    /\ n.pc = "result" /\ n.resps = <<>> /\ n.memos \subseteq q.memos
    /\ \/ Answers(f, q, n.result)
       \/ ~Stage(f, q).par /\ Skips(f, q) /\ n.result = ErrorResult(TRUE)
       \/ Raises(f, q, n.result)
       \/ /\ InStage(f, q) /\ ~InBranch(f, q) /\ q.resps # <<>>
          /\ n.result = StepsResult(q.resps)
       \/ q.pc = "code" /\ ~InStage(f, q) /\ n.result = ReturnResult

\* Something outside of the steps raised: a hook, or the user's code.
Breaks(q, n) ==
    /\ q.pc \in {"start", "code", "result"}
    /\ n.pc = "result" /\ n.resps = <<>> /\ n.memos = q.memos
    /\ n.result = ErrorResult(TRUE)

\* A step of the SDK.
Moves(f, q, n) ==
    /\ SameJob(q, n)
    /\ \/ Begins(q, n) \/ EntersHandler(f, q, n) \/ GoesOn(f, q, n) \/ Leaves(f, q, n)
       \/ Closes(f, q, n) \/ Resumes(f, q, n) \/ Ends(f, q, n)

-----------------------------------------------------------------------------
\* A call that ends.
LEMMA FinishedFields ==
    ASSUME NEW q \in RequestType, NEW result
    PROVE  LET n == Finished(q, result) IN
           /\ n.pc = "result" /\ n.resps = <<>> /\ n.memos = q.memos
           /\ n.result = result /\ SameJob(q, n)
BY DEF Finished, RequestType, SameJob

\* A step method that returns.
LEMMA ReturnedFields ==
    ASSUME NEW q \in RequestType
    PROVE  LET n == Returned(q) IN
           /\ n.pc = "code" /\ SameWork(q, n) /\ SameReplay(q, n) /\ SameJob(q, n)
           /\ n.stage = q.stage /\ n.branch = q.branch /\ n.idx = q.idx + 1
           /\ n.outs = q.outs
BY DEF Returned, RequestType, SameJob, SameWork, SameReplay

\* The next callable of a group.
LEMMA NextBranchFields ==
    ASSUME NEW q \in RequestType
    PROVE  LET n == NextBranch(q) IN
           /\ n.pc = "code" /\ SameWork(q, n) /\ SameReplay(q, n) /\ SameJob(q, n)
           /\ n.stage = q.stage /\ n.branch = q.branch + 1 /\ n.idx = 1
           /\ n.outs = q.outs
BY DEF NextBranch, RequestType, SameJob, SameWork, SameReplay

\* A response interrupt in a group: Group.parallel collects it.
LEMMA InterruptedInGroup ==
    ASSUME NEW f, NEW q \in RequestType, NEW resp, Stage(f, q).par,
           NEW new, new = Interrupted(f, q, resp)
    PROVE  /\ SameJob(q, new) /\ new.pc = "code" /\ new.result = q.result /\ SameReplay(q, new)
           /\ new.stage = q.stage /\ new.branch = q.branch + 1 /\ new.idx = 1
           /\ new.outs = q.outs /\ new.resps = Append(q.resps, resp)
<1> DEFINE n == NextBranch(q)
           s == Append(n.resps, resp)
           m == [n EXCEPT !.resps = s]
<1>1. /\ n.pc = "code" /\ SameWork(q, n) /\ SameReplay(q, n) /\ SameJob(q, n)
      /\ n.stage = q.stage /\ n.branch = q.branch + 1 /\ n.idx = 1
      /\ n.outs = q.outs
    BY NextBranchFields
<1>2. n \in RequestType
  <2>1. q.branch + 1 \in Nat
      BY DEF RequestType
  <2> QED BY <2>1 DEF NextBranch, RequestType
<1>3. new = m
    BY DEF Interrupted
<1>4. s = Append(q.resps, resp)
    BY <1>1 DEF SameWork
<1> HIDE DEF n, s
<1>5. /\ m.pc = n.pc /\ m.result = n.result /\ m.counts = n.counts /\ m.memos = n.memos
      /\ m.stage = n.stage /\ m.branch = n.branch /\ m.idx = n.idx /\ m.outs = n.outs
      /\ m.target = n.target /\ m.dis = n.dis /\ m.attempt = n.attempt /\ m.resps = s
    BY <1>2 DEF RequestType
<1> HIDE DEF m
<1> QED BY <1>1, <1>3, <1>4, <1>5 DEF SameJob, SameReplay, SameWork

\* A response interrupt outside of a group ends the call.
LEMMA InterruptedAlone ==
    ASSUME NEW f, NEW q \in RequestType, NEW resp, ~Stage(f, q).par,
           NEW new, new = Interrupted(f, q, resp)
    PROVE  /\ SameJob(q, new) /\ new.pc = "result" /\ new.resps = <<>> /\ new.memos = q.memos
           /\ new.result = StepsResult(<<resp>>)
BY FinishedFields DEF Interrupted

\* report_step counts an id and takes its memo.
LEMMA PoppedFields ==
    ASSUME NEW q \in RequestType, NEW id, NEW hid
    PROVE  LET n == Popped(q, id, hid) IN
           /\ SameJob(q, n) /\ SameSpot(q, n) /\ SameWork(q, n)
           /\ n.pc = q.pc /\ n.hid = q.hid
           /\ n.counts = Increment(q.counts, id)
           /\ n.memos = {m \in q.memos : m.id # hid}
<1> DEFINE rest == {m \in q.memos : m.id # hid}
           cnt == Increment(q.counts, id)
           bef == q.before \/ rest = {}
           n == [q EXCEPT !.counts = cnt, !.memos = rest, !.before = bef]
<1>1. Popped(q, id, hid) = n
    BY DEF Popped
<1> HIDE DEF rest, cnt, bef
<1>2. /\ SameJob(q, n) /\ SameSpot(q, n) /\ SameWork(q, n)
      /\ n.pc = q.pc /\ n.hid = q.hid /\ n.counts = cnt /\ n.memos = rest
    BY DEF RequestType, SameJob, SameSpot, SameWork
<1> QED BY <1>1, <1>2 DEF rest, cnt

\* The request at a step, reported.
LEMMA ReportedFields ==
    ASSUME NEW f \in UserFunctions, NEW q, RequestOK(f, q), AtStep(f, q)
    PROVE  LET n == Reported(f, q) IN
           /\ RequestOK(f, n) /\ n \in RequestType
           /\ SameJob(q, n) /\ SameSpot(q, n) /\ SameWork(q, n) /\ n.pc = q.pc
           /\ Reports(f, q, n)
           /\ Stage(f, n) = Stage(f, q) /\ Step(f, n) = Step(f, q) /\ Pos(n) = Pos(q)
<1> DEFINE n == Reported(f, q)
<1>1. q \in RequestType
    BY DEF RequestOK
<1>2. /\ SameJob(q, n) /\ SameSpot(q, n) /\ SameWork(q, n) /\ n.pc = q.pc
      /\ n.counts = Increment(q.counts, Step(f, q).id)
      /\ n.memos = {m \in q.memos : m.id # HashedId(f, q)}
    BY <1>1, PoppedFields DEF Reported
<1>3. RequestOK(f, n)
    BY ReportedOK
<1> HIDE DEF n
<1>4. Stage(f, n) = Stage(f, q) /\ Step(f, n) = Step(f, q) /\ Pos(n) = Pos(q)
    BY <1>2 DEF SameSpot, Stage, Step, Branch, Pos
<1>5. Reports(f, q, n) /\ n \in RequestType
    BY <1>2, <1>3 DEF Reports, RequestOK
<1> QED BY <1>2, <1>3, <1>4, <1>5 DEF n

\* An interrupt, once report_step is done with the request.
LEMMA InterruptMoves ==
    ASSUME NEW f, NEW q, NEW p, RequestOK(f, p),
           SameJob(q, p), SameSpot(q, p), SameWork(q, p), Leaving(f, q, p),
           p.memos \subseteq q.memos,
           NEW resp \in RespType, Responds(f, q, resp)
    PROVE  Moves(f, q, Interrupted(f, p, resp))
<1> DEFINE n == Interrupted(f, p, resp)
<1>1. Stage(f, p) = Stage(f, q)
    BY DEF SameSpot, Stage
<1>2. CASE Stage(f, q).par
  <2>1. /\ SameJob(p, n) /\ n.pc = "code" /\ n.result = p.result /\ SameReplay(p, n)
        /\ n.stage = p.stage /\ n.branch = p.branch + 1 /\ n.idx = 1
        /\ n.outs = p.outs /\ n.resps = Append(p.resps, resp)
    <3>1. Stage(f, p).par
        BY <1>1, <1>2
    <3> QED BY <3>1, InterruptedInGroup DEF RequestOK
  <2> HIDE DEF n
  <2>2. SameJob(q, n) /\ Leaving(f, q, n)
      BY <2>1 DEF SameJob, Leaving, Reports, SameReplay
  <2>3. Leaves(f, q, n)
      BY <1>2, <2>1, <2>2 DEF SameSpot, SameWork, Leaves
  <2> QED BY <2>2, <2>3 DEF Moves, n
<1>3. CASE ~Stage(f, q).par
  <2>1. /\ SameJob(p, n) /\ n.pc = "result" /\ n.resps = <<>> /\ n.memos = p.memos
        /\ n.result = StepsResult(<<resp>>)
      BY <1>1, <1>3, InterruptedAlone DEF RequestOK
  <2> HIDE DEF n
  <2>2. SameJob(q, n) /\ Answers(f, q, n.result)
      BY <1>3, <2>1 DEF SameJob, Answers
  <2> QED BY <2>1, <2>2 DEF Ends, Moves, n
<1> QED BY <1>2, <1>3

\* A skip, once report_step is done with the request.
LEMMA SkipMoves ==
    ASSUME NEW f, NEW q, NEW p \in RequestType,
           SameJob(q, p), SameSpot(q, p), SameWork(q, p), Leaving(f, q, p),
           p.memos \subseteq q.memos, Skips(f, q)
    PROVE  Moves(f, q, Skipped(f, p))
<1> DEFINE n == Skipped(f, p)
<1>1. Stage(f, p) = Stage(f, q)
    BY DEF SameSpot, Stage
<1>2. CASE Stage(f, q).par
  <2>1. n = NextBranch(p)
      BY <1>1, <1>2 DEF Skipped
  <2>2. /\ SameJob(p, n) /\ n.pc = "code" /\ SameWork(p, n) /\ SameReplay(p, n)
        /\ n.stage = p.stage /\ n.branch = p.branch + 1 /\ n.idx = 1
        /\ n.outs = p.outs
      BY <2>1, NextBranchFields
  <2> HIDE DEF n
  <2>3. SameJob(q, n) /\ Leaving(f, q, n)
      BY <2>2 DEF SameJob, Leaving, Reports, SameReplay
  <2>4. Leaves(f, q, n)
      BY <1>2, <2>2, <2>3 DEF SameSpot, SameWork, Leaves
  <2> QED BY <2>3, <2>4 DEF Moves, n
<1>3. CASE ~Stage(f, q).par
  <2>1. n = Finished(p, ErrorResult(TRUE))
      BY <1>1, <1>3 DEF Skipped
  <2>2. /\ SameJob(p, n) /\ n.pc = "result" /\ n.resps = <<>> /\ n.memos = p.memos
        /\ n.result = ErrorResult(TRUE)
    <3> DEFINE m == Finished(p, ErrorResult(TRUE))
    <3>1. /\ SameJob(p, m) /\ m.pc = "result" /\ m.resps = <<>> /\ m.memos = p.memos
          /\ m.result = ErrorResult(TRUE)
        BY FinishedFields
    <3> HIDE DEF m, n
    <3> QED BY <2>1, <3>1 DEF m
  <2> HIDE DEF n
  <2>3. SameJob(q, n)
      BY <2>2 DEF SameJob
  <2> QED BY <1>3, <2>2, <2>3 DEF Ends, Moves, n
<1> QED BY <1>2, <1>3

\* What report_step does to a new step.
LEMMA NewMoves ==
    ASSUME IInv, NEW r \in Requests,
           SkipStep(r) \/ PlanStep(r) \/ ReportOp(r) \/ EnterHandler(r)
    PROVE  Moves(fn, req[r], req'[r])
<1> DEFINE q == req[r]
           p == Reported(fn, q)
<1>1. fn \in UserFunctions /\ RequestOK(fn, q) /\ IsNew(fn, q) /\ AtStep(fn, q)
    BY DEF IInv, TypeOK, SkipStep, PlanStep, ReportOp, EnterHandler, New, IsNew
<1>2. /\ RequestOK(fn, p) /\ p \in RequestType /\ SameJob(q, p) /\ SameSpot(q, p)
      /\ SameWork(q, p) /\ Reports(fn, q, p) /\ p.pc = q.pc
    BY <1>1, ReportedFields
<1>3. req \in [Requests -> RequestType]
    BY DEF IInv, TypeOK
<1>4. Leaving(fn, q, p) /\ p.memos \subseteq q.memos
    BY <1>2 DEF Leaving, Reports
<1>5. /\ HashedId(fn, q) \in StepIds /\ Step(fn, q) \in StepDecl /\ Pos(q) \in Seq(Nat)
    BY <1>1, AtStepTyped
<1>6. ASSUME NEW n, SdkStep(r, n) PROVE req'[r] = n
    BY <1>3, <1>6 DEF SdkStep, Replace
<1> HIDE DEF p
<1>7. CASE SkipStep(r)
  <2>1. Skips(fn, q)
      BY <1>7 DEF SkipStep, New, IsNew, Targeted, Skips
  <2>2. Moves(fn, q, Skipped(fn, p))
      BY <1>2, <1>4, <2>1, SkipMoves
  <2> QED BY <1>6, <1>7, <2>2 DEF SkipStep, p
<1>8. CASE PlanStep(r)
  <2> DEFINE resp == PlannedResp(fn, q)
  <2>1. resp \in RespType /\ resp.id = HashedId(fn, q) /\ resp.at = Pos(q)
        /\ resp.op = IF Step(fn, q).op = "STEP_RUN" THEN "PLANNED" ELSE Step(fn, q).op
      BY <1>5 DEF PlannedResp, Resp, RespType, StepDecl, Ops
  <2> HIDE DEF resp
  <2>2. Responds(fn, q, resp)
      BY <1>1, <1>5, <1>8, <2>1 DEF PlanStep, Targeted, MustPlan, Responds, StepDecl
  <2>3. Moves(fn, q, Interrupted(fn, p, resp))
      BY <1>2, <1>4, <2>1, <2>2, InterruptMoves
  <2> QED BY <1>6, <1>8, <2>3 DEF PlanStep, p, resp
<1>9. CASE ReportOp(r)
  <2> DEFINE resp == OpResp(fn, q)
  <2>1. resp \in RespType /\ resp.id = HashedId(fn, q) /\ resp.at = Pos(q)
        /\ resp.op = Step(fn, q).op
      BY <1>5 DEF OpResp, Resp, RespType, StepDecl, Ops
  <2> HIDE DEF resp
  <2>2. Responds(fn, q, resp)
      BY <1>1, <1>5, <1>9, <2>1 DEF ReportOp, Targeted, Responds, StepDecl
  <2>3. Moves(fn, q, Interrupted(fn, p, resp))
      BY <1>2, <1>4, <2>1, <2>2, InterruptMoves
  <2> QED BY <1>6, <1>9, <2>3 DEF ReportOp, p, resp
<1>10. CASE EnterHandler(r)
  <2> DEFINE hid == HashedId(fn, q)
             n == [p EXCEPT !.pc = "handler", !.hid = hid]
  <2>1. req'[r] = n
      BY <1>6, <1>10 DEF EnterHandler, Entered, p
  <2>2. /\ SameJob(p, n) /\ SameSpot(p, n) /\ SameWork(p, n) /\ SameReplay(p, n)
        /\ n.pc = "handler" /\ n.hid = hid
    <3> HIDE DEF hid
    <3> QED BY <1>2 DEF RequestType, SameJob, SameSpot, SameWork, SameReplay
  <2> HIDE DEF n
  <2>3. SameJob(q, n) /\ SameSpot(q, n) /\ SameWork(q, n) /\ Reports(fn, q, n)
      BY <1>2, <2>2 DEF SameJob, SameSpot, SameWork, SameReplay, Reports
  <2>4. ~MustSkip(q, HashedId(fn, q)) /\ ~MustPlan(fn, q) /\ Step(fn, q).op = "STEP_RUN"
      BY <1>10 DEF EnterHandler, Targeted
  <2>5. EntersHandler(fn, q, n)
      BY <1>1, <2>2, <2>3, <2>4 DEF EntersHandler
  <2> QED BY <2>1, <2>3, <2>5 DEF Moves
<1> QED BY <1>7, <1>8, <1>9, <1>10

\* The user's code catches an exception of the step, or the call ends with it.
LEMMA RaisedFields ==
    ASSUME NEW f, NEW q \in RequestType, NEW retriable, NEW n, n = Raised(f, q, retriable)
    PROVE  /\ SameJob(q, n)
           /\ Step(f, q).caught =>
                /\ n.pc = "code" /\ SameWork(q, n) /\ SameReplay(q, n)
                /\ n.stage = q.stage /\ n.branch = q.branch /\ n.idx = q.idx + 1
                /\ n.outs = q.outs
           /\ ~Step(f, q).caught =>
                /\ n.pc = "result" /\ n.resps = <<>> /\ n.memos = q.memos
                /\ n.result = ErrorResult(retriable)
<1>1. CASE Step(f, q).caught
    BY <1>1, ReturnedFields DEF Raised
<1>2. CASE ~Step(f, q).caught
    BY <1>2, FinishedFields DEF Raised
<1> QED BY <1>1, <1>2

\* What report_step does with the memo of a step.
LEMMA ReplayMoves ==
    ASSUME IInv, NEW r \in Requests, ReplayData(r) \/ ReplayError(r)
    PROVE  Moves(fn, req[r], req'[r])
<1> DEFINE q == req[r]
           p == Reported(fn, q)
           m == Memo(fn, q)
<1>1. fn \in UserFunctions /\ RequestOK(fn, q) /\ AtStep(fn, q) /\ Memoized(fn, q)
    BY DEF IInv, TypeOK, ReplayData, ReplayError
<1>2. /\ RequestOK(fn, p) /\ p \in RequestType /\ SameJob(q, p) /\ SameSpot(q, p)
      /\ SameWork(q, p) /\ Reports(fn, q, p) /\ Step(fn, p) = Step(fn, q)
    BY <1>1, ReportedFields
<1>3. req \in [Requests -> RequestType]
    BY DEF IInv, TypeOK
<1>4. ASSUME NEW n, SdkStep(r, n) PROVE req'[r] = n
    BY <1>3, <1>4 DEF SdkStep, Replace
<1>5. m \in q.memos /\ m.id = HashedId(fn, q)
    BY <1>1 DEF Memoized, Ids, Memo
<1> HIDE DEF p
<1>6. CASE ReplayData(r)
  <2> DEFINE n == Returned(p)
  <2>1. req'[r] = n /\ m.out = "data"
      BY <1>4, <1>6 DEF ReplayData, p
  <2>2. /\ n.pc = "code" /\ SameWork(p, n) /\ SameReplay(p, n) /\ SameJob(p, n)
        /\ n.stage = p.stage /\ n.branch = p.branch /\ n.idx = p.idx + 1
        /\ n.outs = p.outs
      BY <1>2, ReturnedFields
  <2> HIDE DEF n
  <2>3. SameJob(q, n) /\ Reports(fn, q, n) /\ SameWork(q, n)
      BY <1>2, <2>2 DEF SameJob, SameReplay, SameWork, Reports
  <2>4. GoesOn(fn, q, n)
    <3> HIDE DEF m
    <3> QED BY <1>2, <1>5, <2>1, <2>2, <2>3 DEF GoesOn, SameSpot
  <2> QED BY <2>1, <2>3, <2>4 DEF Moves
<1>7. CASE ReplayError(r)
  <2> DEFINE n == Raised(fn, p, FALSE)
  <2>1. req'[r] = n
      BY <1>4, <1>7 DEF ReplayError, p
  <2> HIDE DEF n
  <2>2. /\ SameJob(p, n)
        /\ Step(fn, q).caught =>
              /\ n.pc = "code" /\ SameWork(p, n) /\ SameReplay(p, n)
              /\ n.stage = p.stage /\ n.branch = p.branch /\ n.idx = p.idx + 1
              /\ n.outs = p.outs
        /\ ~Step(fn, q).caught =>
              /\ n.pc = "result" /\ n.resps = <<>> /\ n.memos = p.memos
              /\ n.result = ErrorResult(FALSE)
    <3>0. PICK no : no = FALSE
        OBVIOUS
    <3>1. p \in RequestType /\ n = Raised(fn, p, no) /\ Step(fn, p) = Step(fn, q)
        BY <1>2, <3>0 DEF n
    <3>2. /\ SameJob(p, n)
          /\ Step(fn, p).caught =>
                /\ n.pc = "code" /\ SameWork(p, n) /\ SameReplay(p, n)
                /\ n.stage = p.stage /\ n.branch = p.branch /\ n.idx = p.idx + 1
                /\ n.outs = p.outs
          /\ ~Step(fn, p).caught =>
                /\ n.pc = "result" /\ n.resps = <<>> /\ n.memos = p.memos
                /\ n.result = ErrorResult(no)
        BY <3>1, RaisedFields
    <3> QED BY <3>0, <3>1, <3>2
  <2>3. SameJob(q, n)
      BY <1>2, <2>2 DEF SameJob
  <2>4. CASE Step(fn, q).caught
    <3>1. Reports(fn, q, n) /\ SameWork(q, n)
        BY <1>2, <2>2, <2>4 DEF SameReplay, SameWork, Reports
    <3>2. GoesOn(fn, q, n)
      <4> HIDE DEF m
      <4> QED BY <1>2, <1>5, <2>2, <2>4, <3>1 DEF GoesOn, SameSpot
    <3> QED BY <2>1, <2>3, <3>2 DEF Moves
  <2>5. CASE ~Step(fn, q).caught
    <3>1. n.memos \subseteq q.memos
        BY <1>2, <2>2, <2>5 DEF Reports
    <3>2. Ends(fn, q, n)
        BY <1>1, <2>2, <2>5, <3>1 DEF Ends, Raises
    <3> QED BY <2>1, <2>3, <3>2 DEF Moves
  <2> QED BY <2>4, <2>5
<1> QED BY <1>6, <1>7

\* How a handler ends.
LEMMA HandlerMoves ==
    ASSUME IInv, NEW r \in Requests,
           \/ \E out \in Outcomes : HandlerReturns(r, out) \/ HandlerBubbles(r, out)
           \/ HandlerRaises(r) \/ HandlerNests(r)
    PROVE  Moves(fn, req[r], req'[r])
<1> DEFINE q == req[r]
<1>1. fn \in UserFunctions /\ RequestOK(fn, q) /\ q.pc = "handler"
    BY DEF IInv, TypeOK, HandlerReturns, HandlerBubbles, HandlerRaises, HandlerNests, MayEnd
<1>2. /\ q \in RequestType /\ q.hid \in StepIds /\ Step(fn, q) \in StepDecl
      /\ Pos(q) \in Seq(Nat) /\ q.attempt \in Nat
    BY <1>1, InHandler
<1>3. req \in [Requests -> RequestType]
    BY DEF IInv, TypeOK
<1>4. ASSUME NEW n, Replace(r, n) PROVE req'[r] = n
    BY <1>3, <1>4 DEF Replace
<1>5. SameJob(q, q) /\ SameSpot(q, q) /\ SameWork(q, q) /\ Leaving(fn, q, q)
    BY <1>1 DEF SameJob, SameSpot, SameWork, SameReplay, Leaving
<1> HIDE DEF q
<1>6. ASSUME NEW resp \in RespType, resp.id = q.hid, resp.at = Pos(q),
             resp.op \in {"STEP_RUN", "STEP_FAILED", "STEP_ERROR"},
             resp.op = "STEP_RUN" => resp.out \in Step(fn, q).outs
      PROVE  Responds(fn, q, resp)
    BY <1>1, <1>6 DEF Responds
<1>7. ASSUME NEW out \in Outcomes, HandlerReturns(r, out)
      PROVE  Moves(fn, q, req'[r])
  <2> DEFINE resp == Resp(q.hid, "STEP_RUN", out, Pos(q), TRUE)
  <2>1. resp \in RespType /\ resp.id = q.hid /\ resp.at = Pos(q)
        /\ resp.op = "STEP_RUN" /\ resp.out = out
      BY <1>2 DEF Resp, RespType, Ops
  <2> HIDE DEF resp
  <2>2. out \in Step(fn, q).outs
      BY <1>7 DEF HandlerReturns, MayEnd, q
  <2>3. Responds(fn, q, resp)
      BY <1>6, <2>1, <2>2
  <2>4. Moves(fn, q, Interrupted(fn, q, resp))
      BY <1>1, <1>5, <2>1, <2>3, InterruptMoves
  <2>5. req'[r] = Interrupted(fn, q, resp)
      BY <1>4, <1>7 DEF HandlerReturns, HandlerOutput, q, resp
  <2> QED BY <2>4, <2>5
<1>8. ASSUME HandlerRaises(r) PROVE Moves(fn, q, req'[r])
  <2> DEFINE op == IF q.attempt + 1 >= MaxAttempts THEN "STEP_FAILED" ELSE "STEP_ERROR"
             resp == Resp(q.hid, op, "error", Pos(q), TRUE)
  <2>1. op \in {"STEP_FAILED", "STEP_ERROR"}
      OBVIOUS
  <2> HIDE DEF op
  <2>2. resp \in RespType /\ resp.id = q.hid /\ resp.at = Pos(q)
        /\ resp.op \in {"STEP_FAILED", "STEP_ERROR"}
      BY <1>2, <2>1 DEF Resp, RespType, Ops, Outcomes
  <2>3. req'[r] = Interrupted(fn, q, resp)
      BY <1>4, <1>8 DEF HandlerRaises, HandlerError, SdkStep, q, op
  <2> HIDE DEF resp
  <2>4. Responds(fn, q, resp)
      BY <1>6, <2>2
  <2>5. Moves(fn, q, Interrupted(fn, q, resp))
      BY <1>1, <1>5, <2>2, <2>4, InterruptMoves
  <2> QED BY <2>3, <2>5
<1>9. ASSUME NEW out \in Outcomes, HandlerBubbles(r, out)
      PROVE  Moves(fn, q, req'[r])
  <2> DEFINE retriable == out = "retryafter"
             n == Raised(fn, q, retriable)
  <2>1. req'[r] = n /\ out \in Step(fn, q).outs /\ out \in {"nonretriable", "retryafter"}
      BY <1>4, <1>9 DEF HandlerBubbles, MayEnd, q
  <2> HIDE DEF n, retriable
  <2>2. /\ SameJob(q, n)
        /\ Step(fn, q).caught =>
              /\ n.pc = "code" /\ SameWork(q, n) /\ SameReplay(q, n)
              /\ n.stage = q.stage /\ n.branch = q.branch /\ n.idx = q.idx + 1
              /\ n.outs = q.outs
        /\ ~Step(fn, q).caught =>
              /\ n.pc = "result" /\ n.resps = <<>> /\ n.memos = q.memos
              /\ n.result = ErrorResult(retriable)
      BY <1>2, RaisedFields DEF n
  <2>3. CASE Step(fn, q).caught
    <3>1. GoesOn(fn, q, n)
        BY <1>1, <2>1, <2>2, <2>3 DEF GoesOn
    <3> QED BY <2>1, <2>2, <3>1 DEF Moves
  <2>4. CASE ~Step(fn, q).caught
    <3>1. Raises(fn, q, n.result)
        BY <1>1, <2>1, <2>2, <2>4 DEF Raises, retriable
    <3>2. Ends(fn, q, n)
        BY <2>2, <2>4, <3>1 DEF Ends
    <3> QED BY <2>1, <2>2, <3>2 DEF Moves
  <2> QED BY <2>3, <2>4
<1>10. ASSUME HandlerNests(r) PROVE Moves(fn, q, req'[r])
  <2>1. PICK inner \in Step(fn, q).inner : req'[r] = HandlerNested(fn, q, inner)
      BY <1>4, <1>10 DEF HandlerNests, SdkStep, q
  <2> DEFINE hid == Hashed(q.counts, inner.id)
             p == Popped(q, inner.id, hid)
  <2>2. inner.id \in UserIds /\ inner.op \in {"STEP_RUN", "SLEEP"}
      BY <1>2 DEF StepDecl
  <2>3. hid \in StepIds
      BY <1>2, <2>2, HashedTyped DEF RequestType
  <2>4. RequestOK(fn, p) /\ p \in RequestType
      BY <1>1, <2>2, <2>3, PoppedOK DEF RequestOK
  <2>5. /\ SameJob(q, p) /\ SameSpot(q, p) /\ SameWork(q, p) /\ p.hid = q.hid
        /\ p.counts = Increment(q.counts, inner.id)
        /\ p.memos = {m \in q.memos : m.id # hid}
      BY <1>2, PoppedFields
  <2>6. req'[r] = IF hid \in Ids(q.memos) \/ (~MustSkip(q, hid) /\ inner.op = "STEP_RUN")
                  THEN NestedRejected(fn, p)
                  ELSE IF MustSkip(q, hid) THEN Skipped(fn, p)
                  ELSE Interrupted(fn, p, Resp(hid, inner.op, "none", Append(Pos(q), 1), TRUE))
      BY <2>1 DEF HandlerNested
  <2> HIDE DEF p
  <2>7. Leaving(fn, q, p) /\ p.memos \subseteq q.memos
      BY <1>1, <2>5 DEF Leaving
  <2> HIDE DEF hid
  <2>8. ASSUME req'[r] = NestedRejected(fn, p) PROVE Moves(fn, q, req'[r])
    <3> DEFINE resp == Resp(p.hid, "STEP_ERROR", "error", Pos(p), FALSE)
    <3>1. Pos(p) = Pos(q)
        BY <2>5 DEF SameSpot, Pos
    <3>2. resp \in RespType /\ resp.id = q.hid /\ resp.at = Pos(q)
          /\ resp.op = "STEP_ERROR"
        BY <1>2, <2>5, <3>1 DEF Resp, RespType, Ops, Outcomes
    <3>3. req'[r] = Interrupted(fn, p, resp)
        BY <2>8 DEF NestedRejected
    <3> HIDE DEF resp
    <3>4. Responds(fn, q, resp)
        BY <1>6, <3>2
    <3>5. Moves(fn, q, Interrupted(fn, p, resp))
        BY <2>4, <2>5, <2>7, <3>2, <3>4, InterruptMoves
    <3> QED BY <3>3, <3>5
  <2>9. ASSUME req'[r] = Skipped(fn, p), MustSkip(q, hid) PROVE Moves(fn, q, req'[r])
    <3>1. Skips(fn, q)
        BY <1>1, <2>1, <2>9 DEF Skips, MustSkip
    <3>2. Moves(fn, q, Skipped(fn, p))
        BY <2>4, <2>5, <2>7, <3>1, SkipMoves
    <3> QED BY <2>9, <3>2
  <2>10. ASSUME ~MustSkip(q, hid), inner.op # "STEP_RUN",
                req'[r] = Interrupted(fn, p, Resp(hid, inner.op, "none", Append(Pos(q), 1), TRUE))
         PROVE  Moves(fn, q, req'[r])
    <3> DEFINE at == Append(Pos(q), 1)
               resp == Resp(hid, inner.op, "none", at, TRUE)
    <3>1. at \in Seq(Nat) /\ inner.op = "SLEEP"
        BY <1>2, <2>2, <2>10
    <3> HIDE DEF at
    <3>2. resp \in RespType /\ resp.id = hid /\ resp.at = at /\ resp.op = "SLEEP"
        BY <2>3, <3>1 DEF Resp, RespType, Ops
    <3>3. req'[r] = Interrupted(fn, p, resp)
        BY <2>10 DEF at
    <3> HIDE DEF resp
    <3>4. Responds(fn, q, resp)
        BY <1>1, <2>1, <2>10, <3>1, <3>2 DEF Responds, at, hid
    <3>5. Moves(fn, q, Interrupted(fn, p, resp))
        BY <2>4, <2>5, <2>7, <3>2, <3>4, InterruptMoves
    <3> QED BY <3>3, <3>5
  <2> QED BY <2>6, <2>8, <2>9, <2>10
<1> QED BY <1>7, <1>8, <1>9, <1>10 DEF q

\* The ends of a callable, of a group and of the call; and its start.
LEMMA OtherMoves ==
    ASSUME IInv, NEW r \in Requests,
           Start(r) \/ BranchEnds(r) \/ GroupEnds(r) \/ FunctionReturns(r)
    PROVE  Moves(fn, req[r], req'[r])
<1> DEFINE q == req[r]
<1>1. q \in RequestType
    BY DEF IInv, TypeOK
<1>2. req \in [Requests -> RequestType]
    BY DEF IInv, TypeOK
<1>3. ASSUME NEW n, SdkStep(r, n) PROVE req'[r] = n
    BY <1>2, <1>3 DEF SdkStep, Replace
<1>4. ASSUME Start(r) PROVE Moves(fn, q, req'[r])
  <2> DEFINE bef == (q.memos = {})
             n == [q EXCEPT !.pc = "code", !.before = bef]
  <2>1. req'[r] = n /\ q.pc = "start"
      BY <1>3, <1>4 DEF Start
  <2> HIDE DEF bef, q
  <2>2. /\ SameJob(q, n) /\ SameSpot(q, n) /\ SameWork(q, n) /\ SameReplay(q, n)
        /\ n.pc = "code"
      BY <1>1 DEF RequestType, SameJob, SameSpot, SameWork, SameReplay
  <2> HIDE DEF n
  <2> QED BY <2>1, <2>2 DEF Begins, Moves
<1>5. ASSUME BranchEnds(r) PROVE Moves(fn, q, req'[r])
  <2> DEFINE b == NextBranch(q)
             n == [b EXCEPT !.outs = @ + 1]
  <2>1. req'[r] = n /\ InBranch(fn, q) /\ ~AtStep(fn, q)
      BY <1>3, <1>5 DEF BranchEnds, BranchDone
  <2>2. /\ b.pc = "code" /\ SameWork(q, b) /\ SameReplay(q, b) /\ SameJob(q, b)
        /\ b.stage = q.stage /\ b.branch = q.branch + 1 /\ b.idx = 1
        /\ b.outs = q.outs
      BY <1>1, NextBranchFields
  <2>3. b \in RequestType
    <3>1. q.branch + 1 \in Nat
        BY <1>1 DEF RequestType
    <3> QED BY <1>1, <3>1 DEF NextBranch, RequestType
  <2> HIDE DEF b, q
  <2>4. /\ SameJob(b, n) /\ SameWork(b, n) /\ SameReplay(b, n) /\ n.pc = b.pc
        /\ n.stage = b.stage /\ n.branch = b.branch /\ n.idx = b.idx /\ n.outs = b.outs + 1
      BY <2>3 DEF RequestType, SameJob, SameWork, SameReplay
  <2> HIDE DEF n
  <2>5. SameJob(q, n) /\ SameWork(q, n) /\ SameReplay(q, n)
      BY <2>2, <2>4 DEF SameJob, SameWork, SameReplay
  <2>6. Closes(fn, q, n)
      BY <2>1, <2>2, <2>4, <2>5 DEF Closes
  <2> QED BY <2>1, <2>5, <2>6 DEF Moves
<1>6. ASSUME GroupEnds(r) PROVE Moves(fn, q, req'[r])
  <2>1. InStage(fn, q) /\ ~InBranch(fn, q)
        /\ req'[r] = IF q.resps # <<>> THEN Finished(q, StepsResult(q.resps))
                     ELSE GroupReturned(q)
      BY <1>3, <1>6 DEF GroupEnds
  <2> HIDE DEF q
  <2>2. CASE q.resps # <<>>
    <3> DEFINE n == Finished(q, StepsResult(q.resps))
    <3>1. req'[r] = n
        BY <2>1, <2>2
    <3>2. /\ n.pc = "result" /\ n.resps = <<>> /\ n.memos = q.memos
          /\ n.result = StepsResult(q.resps) /\ SameJob(q, n)
        BY <1>1, FinishedFields
    <3> HIDE DEF n
    <3> QED BY <2>1, <2>2, <3>1, <3>2 DEF Ends, Moves
  <2>3. CASE ~(q.resps # <<>>)
    <3> DEFINE n == GroupReturned(q)
    <3>1. req'[r] = n
        BY <2>1, <2>3
    <3>2. /\ SameJob(q, n) /\ SameWork(q, n) /\ SameReplay(q, n) /\ n.pc = q.pc
          /\ n.stage = q.stage + 1 /\ n.branch = 1 /\ n.idx = 1 /\ n.outs = 0
        BY <1>1 DEF GroupReturned, RequestType, SameJob, SameWork, SameReplay
    <3> HIDE DEF n
    <3>3. Resumes(fn, q, n)
        BY <2>1, <2>3, <3>2 DEF Resumes, InStage
    <3> QED BY <3>1, <3>2, <3>3 DEF Moves
  <2> QED BY <2>2, <2>3
<1>7. ASSUME FunctionReturns(r) PROVE Moves(fn, q, req'[r])
  <2> DEFINE n == Finished(q, ReturnResult)
  <2>1. req'[r] = n /\ q.pc = "code" /\ ~InStage(fn, q)
      BY <1>3, <1>7 DEF FunctionReturns
  <2>2. /\ n.pc = "result" /\ n.resps = <<>> /\ n.memos = q.memos
        /\ n.result = ReturnResult /\ SameJob(q, n)
      BY <1>1, FinishedFields
  <2> HIDE DEF n
  <2> QED BY <2>1, <2>2 DEF Ends, Moves
<1> QED BY <1>4, <1>5, <1>6, <1>7

\* A step of the SDK moves one request.
LEMMA SdkMoves ==
    ASSUME IInv, NEW r \in Requests, Sdk(r)
    PROVE  /\ Moves(fn, req[r], req'[r])
           /\ \A x \in Requests \ {r} : req'[x] = req[x]
           /\ UNCHANGED <<fn, executor, faults>>
<1>1. req \in [Requests -> RequestType]
    BY DEF IInv, TypeOK
<1>2. Moves(fn, req[r], req'[r])
    BY NewMoves, ReplayMoves, HandlerMoves, OtherMoves DEF Sdk
<1>3. ASSUME NEW n, Replace(r, n)
      PROVE  (\A x \in Requests \ {r} : req'[x] = req[x]) /\ UNCHANGED <<fn, executor>>
    BY <1>1, <1>3 DEF Replace
<1>4. ASSUME NEW n, SdkStep(r, n)
      PROVE  /\ \A x \in Requests \ {r} : req'[x] = req[x]
             /\ UNCHANGED <<fn, executor, faults>>
    BY <1>3, <1>4 DEF SdkStep
<1>5. CASE \/ Start(r) \/ ReplayData(r) \/ ReplayError(r) \/ SkipStep(r)
           \/ PlanStep(r) \/ ReportOp(r) \/ EnterHandler(r)
           \/ HandlerRaises(r) \/ HandlerNests(r)
           \/ BranchEnds(r) \/ GroupEnds(r) \/ FunctionReturns(r)
  <2>1. \E n : SdkStep(r, n)
      BY <1>5 DEF Start, ReplayData, ReplayError, SkipStep, PlanStep, ReportOp, EnterHandler,
                  HandlerRaises, HandlerNests, BranchEnds, GroupEnds, FunctionReturns
  <2> QED BY <1>2, <1>4, <2>1
<1>6. ASSUME NEW out \in Outcomes, HandlerReturns(r, out) \/ HandlerBubbles(r, out)
      PROVE  /\ \A x \in Requests \ {r} : req'[x] = req[x]
             /\ UNCHANGED <<fn, executor, faults>>
  <2>1. (\E n : Replace(r, n)) /\ faults' = faults
      BY <1>6 DEF HandlerReturns, HandlerBubbles
  <2> QED BY <1>3, <2>1
<1> QED BY <1>2, <1>5, <1>6 DEF Sdk

\* A hook or the user's code raises.
LEMMA FaultMoves ==
    ASSUME IInv, NEW r \in Requests, HookFails(r) \/ UserError(r)
    PROVE  /\ Breaks(req[r], req'[r]) /\ SameJob(req[r], req'[r])
           /\ \A x \in Requests \ {r} : req'[x] = req[x]
           /\ UNCHANGED <<fn, executor, returned, condemned>>
           /\ faults' = faults + 1
<1> DEFINE q == req[r]
           n == Finished(q, ErrorResult(TRUE))
<1>1. req \in [Requests -> RequestType] /\ q \in RequestType
    BY DEF IInv, TypeOK
<1>2. /\ q.pc \in {"start", "code", "result"} /\ Replace(r, n)
      /\ UNCHANGED observer /\ faults' = faults + 1
    BY DEF HookFails, UserError
<1>3. /\ n.pc = "result" /\ n.resps = <<>> /\ n.memos = q.memos
      /\ n.result = ErrorResult(TRUE) /\ SameJob(q, n)
    BY <1>1, FinishedFields
<1> HIDE DEF n
<1>4. req'[r] = n /\ (\A x \in Requests \ {r} : req'[x] = req[x]) /\ UNCHANGED <<fn, executor>>
    BY <1>1, <1>2 DEF Replace
<1>5. UNCHANGED <<returned, condemned>>
    BY <1>2 DEF observer
<1> QED BY <1>2, <1>3, <1>4, <1>5 DEF Breaks

-----------------------------------------------------------------------------
(* What a request counted.                                                  *)

\* The steps that a request has come by are finitely many.
LEMMA SeenFinite ==
    ASSUME NEW f \in UserFunctions, NEW q, NEW p
    PROVE  IsFiniteSet(Seen(f, q, p)) /\ Cardinality(Seen(f, q, p)) \in Nat
<1>1. Seen(f, q, p) \in SUBSET Positions(f)
    BY DEF Seen
<1>2. IsFiniteSet(Seen(f, q, p))
    BY <1>1, PositionsFinite, FS_Subset
<1> QED BY <1>2, FS_CardinalityType

\* Coming by the rest of a callable that did not end is no use of an id: the ids
\* of those steps are not used again.
LEMMA CountsPassed ==
    ASSUME NEW f \in UserFunctions, TellsApart(f), NEW q, NEW n, Counts(f, q),
           \A t \in Positions(f) : Behind(q, t) => Behind(n, t),
           \A t \in Positions(f) : Behind(n, t) => Behind(q, t) \/ t[3] # 1,
           \A t \in Positions(f) : n.counts[At(f, t).id] = q.counts[At(f, t).id]
    PROVE  Counts(f, n)
<1> SUFFICES ASSUME NEW p \in Positions(f), ~Behind(n, p)
             PROVE  n.counts[At(f, p).id] = Cardinality(Seen(f, n, p))
    BY DEF Counts
<1>1. ~Behind(q, p)
    OBVIOUS
<1>2. \A t \in Positions(f) : t # p /\ At(f, t).id = At(f, p).id => t[3] = 1
    BY DEF TellsApart
<1>3. Seen(f, n, p) = Seen(f, q, p)
    BY <1>2 DEF Seen
<1> QED BY <1>1, <1>3 DEF Counts

\* The step that a request reports is counted once.
LEMMA CountsReported ==
    ASSUME NEW f \in UserFunctions, TellsApart(f), NEW q \in RequestType, NEW n, Counts(f, q),
           NEW pos \in Positions(f), ~Behind(q, pos), Behind(n, pos),
           \A t \in Positions(f) : Behind(q, t) => Behind(n, t),
           \A t \in Positions(f) : Behind(n, t) => Behind(q, t) \/ t = pos \/ t[3] # 1,
           n.counts = Increment(q.counts, At(f, pos).id)
    PROVE  Counts(f, n)
<1> SUFFICES ASSUME NEW p \in Positions(f), ~Behind(n, p)
             PROVE  n.counts[At(f, p).id] = Cardinality(Seen(f, n, p))
    BY DEF Counts
<1>1. ~Behind(q, p) /\ p # pos
    OBVIOUS
<1>2. \A t \in Positions(f) : t # p /\ At(f, t).id = At(f, p).id => t[3] = 1
    BY DEF TellsApart
<1>3. q.counts[At(f, p).id] = Cardinality(Seen(f, q, p))
    BY <1>1 DEF Counts
<1>4. At(f, p).id \in UserIds /\ At(f, pos).id \in UserIds /\ q.counts \in [UserIds -> Nat]
    BY PositionTyped DEF StepDecl, RequestType
<1>5. CASE At(f, pos).id = At(f, p).id
  <2>1. Seen(f, n, p) = Seen(f, q, p) \cup {pos} /\ pos \notin Seen(f, q, p)
      BY <1>2, <1>5 DEF Seen
  <2>2. Cardinality(Seen(f, n, p)) = Cardinality(Seen(f, q, p)) + 1
      BY <2>1, SeenFinite, FS_AddElement
  <2>3. n.counts[At(f, p).id] = q.counts[At(f, p).id] + 1
      BY <1>4, <1>5 DEF Increment
  <2> QED BY <1>3, <2>2, <2>3
<1>6. CASE At(f, pos).id # At(f, p).id
  <2>1. Seen(f, n, p) = Seen(f, q, p)
      BY <1>2, <1>6 DEF Seen
  <2>2. n.counts[At(f, p).id] = q.counts[At(f, p).id]
      BY <1>4, <1>6 DEF Increment
  <2> QED BY <1>3, <2>1, <2>2
<1> QED BY <1>5, <1>6

\* Where a move can start from.
LEMMA MovesFrom ==
    ASSUME NEW f \in UserFunctions, NEW q, RequestOK(f, q), NEW n, Moves(f, q, n), n.pc # "result"
    PROVE  /\ q \in RequestType /\ Replaying(q)
           /\ EntersHandler(f, q, n) \/ GoesOn(f, q, n) \/ Leaves(f, q, n) => AtPosition(f, q)
<1>1. q \in RequestType
    BY DEF RequestOK
<1>2. ~Ends(f, q, n)
    BY DEF Ends
<1>3. AtStep(f, q) => q.pc = "code" /\ AtPosition(f, q)
    BY DEF AtStep, InBranch, InStage, AtPosition, Branch, Stage
<1>4. q.pc = "handler" => AtPosition(f, q)
    BY DEF RequestOK
<1>5. EntersHandler(f, q, n) \/ GoesOn(f, q, n) \/ Leaves(f, q, n) =>
          AtPosition(f, q) /\ q.pc \in {"code", "handler"}
    BY <1>3, <1>4 DEF EntersHandler, GoesOn, Leaves, Leaving, Reports
<1>6. Begins(q, n) \/ Closes(f, q, n) \/ Resumes(f, q, n) => q.pc \in {"start", "code"}
    BY DEF Begins, Closes, Resumes, InBranch, InStage
<1> QED BY <1>1, <1>2, <1>5, <1>6 DEF Moves, Replaying

\* A request stays within the function.
LEMMA WithinKept ==
    ASSUME NEW f \in UserFunctions, NEW q, RequestOK(f, q), Within(f, q),
           NEW n \in RequestType, Moves(f, q, n), n.pc # "result"
    PROVE  Within(f, n)
<1>1. q \in RequestType /\ Len(f) \in Nat /\ DOMAIN f = 1 .. Len(f)
    BY FunctionsAssumption DEF RequestOK
<1>2. /\ q.stage \in Nat /\ q.branch \in Nat /\ q.idx \in Nat
    BY <1>1 DEF RequestType
<1>3. ~Ends(f, q, n)
    BY DEF Ends
<1>4. CASE Begins(q, n) \/ EntersHandler(f, q, n)
    BY <1>4 DEF Begins, EntersHandler, SameSpot, Within
<1>5. \A s \in DOMAIN f : /\ f[s].branches \in Seq(Seq(StepDecl))
                          /\ Len(f[s].branches) \in Nat
                          /\ DOMAIN f[s].branches = 1 .. Len(f[s].branches)
  <2> DEFINE StageDecl == [par : BOOLEAN, branches : Seq(Seq(StepDecl))]
  <2>1. \A s \in DOMAIN f : f[s] \in StageDecl
    <3> HIDE DEF StageDecl
    <3>1. f \in Seq(StageDecl)
        BY FunctionsAssumption DEF StageDecl
    <3> QED BY <3>1, SeqElement
  <2>2. \A s \in DOMAIN f : f[s].branches \in Seq(Seq(StepDecl))
      BY <2>1
  <2> QED BY <2>2
<1>6. \A s \in DOMAIN f : \A b \in DOMAIN f[s].branches :
          /\ Len(f[s].branches[b]) \in Nat
          /\ DOMAIN f[s].branches[b] = 1 .. Len(f[s].branches[b])
  <2>1. \A s \in DOMAIN f : \A b \in DOMAIN f[s].branches : f[s].branches[b] \in Seq(StepDecl)
      BY <1>5, SeqElement
  <2> QED BY <2>1
<1>7. CASE GoesOn(f, q, n)
  <2>1. AtPosition(f, q)
      BY <1>7, MovesFrom
  <2>2. n.stage = q.stage /\ n.branch = q.branch /\ n.idx = q.idx + 1
      BY <1>7 DEF GoesOn
  <2>3. q.stage \in DOMAIN f /\ q.branch \in DOMAIN f[q.stage].branches
        /\ q.idx \in DOMAIN f[q.stage].branches[q.branch]
      BY <2>1 DEF AtPosition
  <2>4. /\ n.stage \in 1 .. Len(f) /\ n.branch \in 1 .. Len(f[n.stage].branches)
        /\ n.idx \in 1 .. Len(f[n.stage].branches[n.branch]) + 1
        /\ n.branch \in DOMAIN f[n.stage].branches
        /\ Len(f[n.stage].branches) \in Nat
        /\ Len(f[n.stage].branches[n.branch]) \in Nat
    <3>1. n.stage = q.stage /\ n.branch = q.branch /\ n.idx = q.idx + 1
        BY <2>2
    <3>2. /\ Len(f[q.stage].branches) \in Nat
          /\ DOMAIN f[q.stage].branches = 1 .. Len(f[q.stage].branches)
        BY <1>5, <2>3
    <3>3. /\ Len(f[q.stage].branches[q.branch]) \in Nat
          /\ DOMAIN f[q.stage].branches[q.branch] = 1 .. Len(f[q.stage].branches[q.branch])
        BY <1>6, <2>3
    <3>4. q.idx + 1 \in 1 .. Len(f[q.stage].branches[q.branch]) + 1
        BY <1>2, <2>3, <3>3
    <3> QED BY <1>1, <2>3, <3>1, <3>2, <3>3, <3>4
  <2> QED BY <1>1, <2>4 DEF Within
<1>8. CASE Leaves(f, q, n) \/ Closes(f, q, n)
  <2>1. q.stage \in DOMAIN f /\ q.branch \in DOMAIN f[q.stage].branches
      BY <1>8, MovesFrom DEF Closes, InBranch, InStage, AtPosition, Stage
  <2>2. n.stage = q.stage /\ n.branch = q.branch + 1 /\ n.idx = 1
      BY <1>8 DEF Leaves, Closes
  <2>3. /\ n.stage \in 1 .. Len(f) /\ n.branch \in 1 .. Len(f[n.stage].branches) + 1
        /\ n.idx = 1 /\ Len(f[n.stage].branches) \in Nat
      BY <1>1, <1>2, <1>5, <2>1, <2>2
  <2>4. n.branch \in DOMAIN f[n.stage].branches => Len(f[n.stage].branches[n.branch]) \in Nat
      BY <1>1, <1>6, <2>3
  <2> QED BY <1>1, <2>3, <2>4, SMTT(30) DEF Within
<1>9. CASE Resumes(f, q, n)
  <2>1. q.stage \in DOMAIN f /\ n.stage = q.stage + 1 /\ n.branch = 1 /\ n.idx = 1
      BY <1>9 DEF Resumes, InStage
  <2>2. /\ n.stage \in 1 .. Len(f) + 1 /\ n.branch = 1 /\ n.idx = 1
      BY <1>1, <1>2, <2>1
  <2>3. n.stage \in DOMAIN f => /\ Len(f[n.stage].branches) \in Nat
                               /\ DOMAIN f[n.stage].branches = 1 .. Len(f[n.stage].branches)
      BY <1>5
  <2>4. n.stage \in DOMAIN f /\ n.branch \in DOMAIN f[n.stage].branches
            => Len(f[n.stage].branches[n.branch]) \in Nat
      BY <1>6
  <2> QED BY <2>2, <2>3, <2>4 DEF Within
<1> QED BY <1>3, <1>4, <1>7, <1>8, <1>9 DEF Moves

\* The rest of the callable that a request is in.
Rest(q, t) == t[1] = q.stage /\ t[2] = q.branch /\ t[3] > q.idx

\* How far a move comes.
LEMMA Passed ==
    ASSUME NEW f \in UserFunctions, NEW q, RequestOK(f, q), Within(f, q),
           NEW n \in RequestType, Moves(f, q, n), n.pc # "result",
           NEW t \in Positions(f)
    PROVE  /\ Behind(q, t) => Behind(n, t)
           /\ EntersHandler(f, q, n) \/ GoesOn(f, q, n) =>
                (Behind(n, t) => Behind(q, t) \/ t = Pos(q))
           /\ Leaves(f, q, n) => (Behind(n, t) => Behind(q, t) \/ t = Pos(q) \/ Rest(q, t))
           /\ Begins(q, n) \/ Closes(f, q, n) \/ Resumes(f, q, n) =>
                (Behind(n, t) => Behind(q, t))
           /\ EntersHandler(f, q, n) \/ GoesOn(f, q, n) \/ Leaves(f, q, n) => Behind(n, Pos(q))
<1>1. /\ q \in RequestType /\ Replaying(q) /\ q.stage \in Nat /\ q.branch \in Nat /\ q.idx \in Nat
    BY MovesFrom DEF RequestType
<1>2. /\ t = <<t[1], t[2], t[3]>> /\ t[1] \in Nat /\ t[2] \in Nat /\ t[3] \in Nat
      /\ t[1] \in 1 .. Len(f) /\ t[2] \in 1 .. Len(f[t[1]].branches)
      /\ t[3] \in 1 .. Len(f[t[1]].branches[t[2]])
    BY PositionTyped
<1>3. t \in Positions(f) /\ t[1] \in DOMAIN f /\ t[2] \in DOMAIN f[t[1]].branches
      /\ t[3] \in DOMAIN f[t[1]].branches[t[2]]
  <2>1. t \in Positions(f) => \E s \in DOMAIN f : \E b \in DOMAIN f[s].branches :
            \E i \in DOMAIN f[s].branches[b] : t = <<s, b, i>>
      BY DEF Positions
  <2> QED BY <2>1
<1>4. /\ Pos(q)[1] = q.stage /\ Pos(q)[2] = q.branch /\ Pos(q)[3] = q.idx
      /\ Pos(n)[1] = n.stage /\ Pos(n)[2] = n.branch /\ Pos(n)[3] = n.idx
    BY DEF Pos
<1>5. t = Pos(q) <=> t[1] = q.stage /\ t[2] = q.branch /\ t[3] = q.idx
    BY <1>2 DEF Pos
<1>6. /\ q.branch >= 1 /\ q.idx >= 1
    BY <1>1 DEF Within
<1>7. ~Ends(f, q, n)
    BY DEF Ends
<1>8. CASE Begins(q, n)
  <2>1. Pos(n) = Pos(q) /\ q.pc # "handler" /\ n.pc # "handler"
      BY <1>8 DEF Begins, SameSpot, Pos
  <2>2. Behind(n, t) <=> Behind(q, t)
      BY <2>1 DEF Behind
  <2> QED BY <1>8, <2>1, <2>2 DEF Begins, EntersHandler, IsNew, AtStep, InBranch, InStage, GoesOn,
                            Leaves, Leaving, Reports
<1>9. CASE EntersHandler(f, q, n)
  <2>1. Pos(n) = Pos(q) /\ q.pc = "code" /\ n.pc = "handler"
      BY <1>9 DEF EntersHandler, SameSpot, Pos, IsNew, AtStep, InBranch, InStage
  <2>2. Behind(n, t) <=> Behind(q, t) \/ t = Pos(q)
      BY <2>1 DEF Behind
  <2>3. Behind(n, Pos(q))
      BY <2>1 DEF Behind
  <2>4. ~Begins(q, n) /\ ~Closes(f, q, n) /\ ~Resumes(f, q, n) /\ ~Leaves(f, q, n)
      BY <2>1 DEF Begins, Closes, Resumes, Leaves
  <2> QED BY <2>2, <2>3, <2>4
<1>10. CASE GoesOn(f, q, n)
  <2>1. n.stage = q.stage /\ n.branch = q.branch /\ n.idx = q.idx + 1 /\ n.pc = "code"
      BY <1>10 DEF GoesOn
  <2>2. Behind(n, t) <=> Earlier(t, Pos(q)) \/ t = Pos(q)
      BY <1>1, <1>2, <1>4, <1>5, <2>1 DEF Behind, Earlier
  <2>3. Behind(n, Pos(q))
      BY <1>1, <1>4, <2>1 DEF Behind, Earlier
  <2>4. ~Begins(q, n) /\ ~Closes(f, q, n) /\ ~Resumes(f, q, n) /\ ~Leaves(f, q, n)
      BY <1>1, <2>1 DEF Begins, SameSpot, Closes, Resumes, Leaves
  <2> QED BY <2>2, <2>3, <2>4 DEF Behind
<1>11. CASE Leaves(f, q, n)
  <2>1. n.stage = q.stage /\ n.branch = q.branch + 1 /\ n.idx = 1 /\ n.pc = "code"
      BY <1>11 DEF Leaves
  <2>2. Behind(n, t) <=> Earlier(t, Pos(q)) \/ t = Pos(q) \/ Rest(q, t)
      BY <1>1, <1>2, <1>4, <1>5, <2>1 DEF Behind, Earlier, Rest
  <2>3. Behind(n, Pos(q))
      BY <1>1, <1>4, <2>1 DEF Behind, Earlier
  <2>4. q.pc # "start" /\ (AtPosition(f, q) => ~Resumes(f, q, n))
        /\ ~Begins(q, n) /\ ~GoesOn(f, q, n) /\ ~EntersHandler(f, q, n)
      BY <1>1, <2>1, <1>11 DEF Begins, SameSpot, Resumes, Leaves, GoesOn, EntersHandler, Leaving,
                 Reports, AtStep, InBranch, InStage
  <2>5. ~Closes(f, q, n)
      BY <1>1, <1>11 DEF Closes, Leaves, Leaving, Reports, InBranch, InStage, AtStep
  <2>6. ~Resumes(f, q, n)
      BY <1>1, <2>1 DEF Resumes
  <2> QED BY <2>2, <2>3, <2>4, <2>5, <2>6 DEF Behind
<1>12. CASE Closes(f, q, n)
  <2>1. n.stage = q.stage /\ n.branch = q.branch + 1 /\ n.idx = 1 /\ n.pc = "code" /\ q.pc = "code"
        /\ q.branch \in DOMAIN f[q.stage].branches
        /\ q.idx \notin DOMAIN f[q.stage].branches[q.branch]
      BY <1>12 DEF Closes, InBranch, InStage, AtStep, Branch, Stage
  <2>2. ASSUME t[1] = q.stage, t[2] = q.branch PROVE t[3] < q.idx
    <3>1. t[3] # q.idx
        BY <1>3, <2>1, <2>2
    <3>2. q.idx \notin 1 .. Len(f[q.stage].branches[q.branch])
      <4>1. f[t[1]].branches[t[2]] = f[q.stage].branches[q.branch]
          BY <2>2
      <4>2. DOMAIN f[t[1]].branches[t[2]] = 1 .. Len(f[t[1]].branches[t[2]])
        <5> DEFINE StageDecl == [par : BOOLEAN, branches : Seq(Seq(StepDecl))]
        <5>1. f[t[1]] \in StageDecl
          <6> HIDE DEF StageDecl
          <6>1. f \in Seq(StageDecl)
              BY FunctionsAssumption DEF StageDecl
          <6> QED BY <1>3, <6>1, SeqElement
        <5>2. f[t[1]].branches \in Seq(Seq(StepDecl))
            BY <5>1
        <5>3. f[t[1]].branches[t[2]] \in Seq(StepDecl)
            BY <1>3, <5>2, SeqElement
        <5> QED BY <5>3
      <4> QED BY <2>1, <4>1, <4>2
    <3>3. t[3] \in 1 .. Len(f[q.stage].branches[q.branch])
        BY <1>2, <2>2
    <3>4. Len(f[q.stage].branches[q.branch]) \in Nat
        BY <2>2, PositionTyped
    <3> DEFINE L == Len(f[q.stage].branches[q.branch])
    <3>5. L \in Nat /\ t[3] \in 1 .. L /\ q.idx \notin 1 .. L
        BY <3>2, <3>3, <3>4
    <3> HIDE DEF L
    <3> QED BY <1>1, <1>6, <3>5
  <2>3. Behind(n, t) <=> Behind(q, t)
      BY <1>1, <1>2, <1>4, <2>1, <2>2 DEF Behind, Earlier
  <2>4. ~EntersHandler(f, q, n) /\ ~GoesOn(f, q, n) /\ ~Leaves(f, q, n)
      BY <1>1, <1>12, <2>1 DEF EntersHandler, GoesOn, Leaves, Leaving, Reports, Closes
  <2> QED BY <2>3, <2>4
<1>13. CASE Resumes(f, q, n)
  <2>1. /\ n.stage = q.stage + 1 /\ n.branch = 1 /\ n.idx = 1 /\ n.pc = "code" /\ q.pc = "code"
        /\ q.branch \notin DOMAIN f[q.stage].branches
      BY <1>13 DEF Resumes, InBranch, InStage, Stage
  <2>2. ASSUME t[1] = q.stage PROVE t[2] < q.branch
    <3>1. DOMAIN f[t[1]].branches = 1 .. Len(f[t[1]].branches) /\ Len(f[t[1]].branches) \in Nat
      <4> DEFINE StageDecl == [par : BOOLEAN, branches : Seq(Seq(StepDecl))]
      <4>1. f[t[1]] \in StageDecl
        <5> HIDE DEF StageDecl
        <5>1. f \in Seq(StageDecl)
            BY FunctionsAssumption DEF StageDecl
        <5> QED BY <1>3, <5>1, SeqElement
      <4>2. f[t[1]].branches \in Seq(Seq(StepDecl))
          BY <4>1
      <4> QED BY <4>2
    <3> QED BY <1>1, <1>2, <1>6, <2>1, <2>2, <3>1
  <2>3. Behind(n, t) <=> Behind(q, t)
      BY <1>1, <1>2, <1>4, <2>1, <2>2 DEF Behind, Earlier
  <2>4. ~EntersHandler(f, q, n) /\ ~GoesOn(f, q, n) /\ ~Leaves(f, q, n)
      BY <1>1, <2>1 DEF EntersHandler, SameSpot, GoesOn, Leaves
  <2> QED BY <2>3, <2>4
<1> QED BY <1>7, <1>8, <1>9, <1>10, <1>11, <1>12, <1>13 DEF Moves

-----------------------------------------------------------------------------
(* What a request reports and holds.                                        *)

\* Where the request in a handler is, and at a step: the step of the function.
LEMMA Here ==
    ASSUME NEW f \in UserFunctions, NEW q \in RequestType, AtPosition(f, q)
    PROVE  Pos(q) \in Positions(f) /\ At(f, Pos(q)) = Step(f, q)
<1>1. Pos(q) \in Positions(f)
    BY StepTyped
<1>2. Pos(q)[1] = q.stage /\ Pos(q)[2] = q.branch /\ Pos(q)[3] = q.idx
    BY DEF Pos
<1> QED BY <1>1, <1>2 DEF At, Step, Branch, Stage

\* A request that replays the function counts each id as often as it came by a
\* step that has it (StepIDCounter).
LEMMA CountsKept ==
    ASSUME NEW f \in UserFunctions, TellsApart(f), NEW q, RequestOK(f, q),
           Counts(f, q), Within(f, q),
           NEW n \in RequestType, Moves(f, q, n), n.pc # "result"
    PROVE  Counts(f, n)
<1>1. /\ q \in RequestType /\ Replaying(q)
      /\ EntersHandler(f, q, n) \/ GoesOn(f, q, n) \/ Leaves(f, q, n) => AtPosition(f, q)
    BY MovesFrom
<1>2. /\ \A t \in Positions(f) : Behind(q, t) => Behind(n, t)
      /\ EntersHandler(f, q, n) \/ GoesOn(f, q, n) =>
            \A t \in Positions(f) : Behind(n, t) => Behind(q, t) \/ t = Pos(q)
      /\ Leaves(f, q, n) =>
            \A t \in Positions(f) : Behind(n, t) => Behind(q, t) \/ t = Pos(q) \/ Rest(q, t)
      /\ Begins(q, n) \/ Closes(f, q, n) \/ Resumes(f, q, n) =>
            \A t \in Positions(f) : Behind(n, t) => Behind(q, t)
    BY Passed
<1>3. \A t \in Positions(f) : Rest(q, t) => t[3] # 1
  <2>1. q.idx \in Nat /\ q.idx >= 1
      BY <1>1 DEF Within, RequestType
  <2> QED BY <2>1, PositionTyped DEF Rest
<1>4. ASSUME Reports(f, q, n), EntersHandler(f, q, n) \/ GoesOn(f, q, n) \/ Leaves(f, q, n)
      PROVE  Counts(f, n)
  <2>1. /\ Pos(q) \in Positions(f) /\ At(f, Pos(q)) = Step(f, q) /\ ~Behind(q, Pos(q))
      BY <1>4, HashedIsKey DEF Reports
  <2>2. n.counts = Increment(q.counts, At(f, Pos(q)).id)
      BY <1>4, <2>1 DEF Reports
  <2>3. Behind(n, Pos(q))
      BY <1>4, <2>1, Passed
  <2>4. \A t \in Positions(f) : Behind(n, t) => Behind(q, t) \/ t = Pos(q) \/ t[3] # 1
      BY <1>2, <1>3, <1>4
  <2> QED BY <1>1, <1>2, <2>1, <2>2, <2>3, <2>4, CountsReported
<1>5. ASSUME SameReplay(q, n), Begins(q, n) \/ Closes(f, q, n) \/ Resumes(f, q, n)
      PROVE  Counts(f, n)
    BY <1>2, <1>5, CountsPassed DEF SameReplay
<1>6. ASSUME q.pc = "handler", GoesOn(f, q, n) \/ Leaves(f, q, n),
             \A t \in Positions(f) : n.counts[At(f, t).id] = q.counts[At(f, t).id]
      PROVE  Counts(f, n)
  <2>1. Behind(q, Pos(q))
      BY <1>6 DEF Behind
  <2>2. \A t \in Positions(f) : Behind(n, t) => Behind(q, t) \/ t[3] # 1
      BY <1>2, <1>3, <1>6, <2>1
  <2> QED BY <1>2, <1>6, <2>2, CountsPassed
<1>7. ASSUME q.pc = "handler", GoesOn(f, q, n), SameReplay(q, n) PROVE Counts(f, n)
    BY <1>6, <1>7 DEF SameReplay
<1>8. ASSUME q.pc = "handler", Leaves(f, q, n), SameReplay(q, n) PROVE Counts(f, n)
    BY <1>6, <1>8 DEF SameReplay
<1>9. ASSUME q.pc = "handler", Leaves(f, q, n), NEW inner \in Step(f, q).inner,
             n.counts = Increment(q.counts, inner.id)
      PROVE  Counts(f, n)
  <2>1. Pos(q) \in Positions(f) /\ inner \in At(f, Pos(q)).inner
      BY <1>1, <1>9, Here
  <2>2. \A t \in Positions(f) : At(f, t).id # inner.id
      BY <2>1 DEF TellsApart
  <2>3. ASSUME NEW t \in Positions(f) PROVE n.counts[At(f, t).id] = q.counts[At(f, t).id]
    <3>1. At(f, t).id \in UserIds /\ q.counts \in [UserIds -> Nat]
        BY <1>1, PositionTyped DEF StepDecl, RequestType
    <3> QED BY <1>9, <2>2, <3>1 DEF Increment
  <2> QED BY <1>6, <1>9, <2>3
<1>10. CASE Begins(q, n) \/ Closes(f, q, n) \/ Resumes(f, q, n)
    BY <1>5, <1>10 DEF Begins, Closes, Resumes
<1>11. CASE EntersHandler(f, q, n)
    BY <1>4, <1>11 DEF EntersHandler
<1>12. CASE GoesOn(f, q, n)
    BY <1>4, <1>7, <1>12 DEF GoesOn
<1>13. CASE Leaves(f, q, n)
    BY <1>4, <1>8, <1>9, <1>13 DEF Leaves, Leaving
<1>14. ~Ends(f, q, n)
    BY DEF Ends
<1> QED BY <1>10, <1>11, <1>12, <1>13, <1>14 DEF Moves

\* What a request reports fits the step it names.
LEMMA ReportFits ==
    ASSUME NEW f \in UserFunctions, NEW q, RequestOK(f, q), RequestFits(f, q),
           NEW resp \in RespType, Responds(f, q, resp)
    PROVE  RespFits(f, resp)
<1>1. q \in RequestType
    BY DEF RequestOK
<1>2. CASE IsNew(f, q) /\ resp.id = HashedId(f, q) /\ resp.at = Pos(q)
           /\ \/ Step(f, q).op = "STEP_RUN" /\ resp.op = "PLANNED"
              \/ Step(f, q).op = "SLEEP" /\ resp.op = "SLEEP"
  <2>1. AtStep(f, q) /\ Replaying(q)
      BY <1>2 DEF IsNew, AtStep, InBranch, InStage, Replaying
  <2>2. HashedId(f, q) = Key(f, Pos(q)) /\ Pos(q) \in Positions(f) /\ At(f, Pos(q)) = Step(f, q)
      BY <2>1, HashedIsKey DEF RequestFits
  <2> QED BY <1>2, <2>2 DEF RespFits
<1>3. CASE q.pc = "handler" /\ resp.id = q.hid /\ resp.at = Pos(q)
           /\ resp.op \in {"STEP_RUN", "STEP_FAILED", "STEP_ERROR"}
  <2>1. Pos(q) \in Positions(f) /\ At(f, Pos(q)) = Step(f, q)
      BY <1>1, <1>3, Here DEF RequestOK
  <2>2. q.hid = Key(f, Pos(q)) /\ Step(f, q).op = "STEP_RUN"
      BY <1>3 DEF RequestFits
  <2> QED BY <1>3, <2>1, <2>2 DEF RespFits
<1>4. ASSUME q.pc = "handler", resp.op = "SLEEP", resp.at = Append(Pos(q), 1),
             NEW inner \in Step(f, q).inner, inner.op = "SLEEP",
             resp.id = Hashed(q.counts, inner.id)
      PROVE  RespFits(f, resp)
  <2>1. Pos(q) \in Positions(f) /\ At(f, Pos(q)) = Step(f, q) /\ Step(f, q) \in StepDecl
      BY <1>1, <1>4, Here, StepTyped DEF RequestOK
  <2>2. inner.id \in UserIds /\ q.counts \in [UserIds -> Nat]
      BY <1>1, <2>1 DEF StepDecl, RequestType
  <2>3. resp.id.name = inner.id.name
      BY <1>4, <2>2, HashedName
  <2>4. InnerName(f, resp.id)
      BY <1>4, <2>1, <2>3 DEF InnerName
  <2>5. resp.at \notin Positions(f)
    <3> DEFINE s == Pos(q)
    <3>a. s \in Seq(Nat) /\ Len(s) = 3
        BY <1>1 DEF Pos, RequestType
    <3>b. resp.at = Append(s, 1)
        BY <1>4
    <3> HIDE DEF s
    <3>c. Len(Append(s, 1)) = Len(s) + 1
      <4>1. 1 \in Nat
          OBVIOUS
      <4> QED BY <3>a, <4>1, AppendProperties, Zenon
    <3>1. Len(resp.at) = 4
        BY <3>a, <3>b, <3>c
    <3>2. \A t \in Positions(f) : Len(t) = 3
        BY DEF Positions
    <3> QED BY <3>1, <3>2
  <2> QED BY <1>4, <2>4, <2>5 DEF RespFits
<1> QED BY <1>2, <1>3, <1>4 DEF Responds

\* A request only loses memos.
LEMMA MemosShrink ==
    ASSUME NEW f, NEW q, NEW n, Moves(f, q, n)
    PROVE  n.memos \subseteq q.memos
<1>1. SameReplay(q, n) \/ Reports(f, q, n) \/ Leaving(f, q, n) => n.memos \subseteq q.memos
    BY DEF SameReplay, Reports, Leaving
<1> QED BY <1>1 DEF Moves, Begins, EntersHandler, GoesOn, Leaves, Closes, Resumes, Ends

\* The responses that a move adds.
LEMMA NewResponses ==
    ASSUME NEW f, NEW q \in RequestType, NEW n \in RequestType, Moves(f, q, n)
    PROVE  /\ \A i \in DOMAIN n.resps :
                (i \in DOMAIN q.resps /\ n.resps[i] = q.resps[i]) \/ Responds(f, q, n.resps[i])
           /\ \A i \in DOMAIN n.result.steps :
                \/ i \in DOMAIN q.result.steps /\ n.result.steps[i] = q.result.steps[i]
                \/ i \in DOMAIN q.resps /\ n.result.steps[i] = q.resps[i]
                \/ Responds(f, q, n.result.steps[i])
<1>1. q.resps \in Seq(RespType)
    BY DEF RequestType
<1>2. CASE Begins(q, n) \/ EntersHandler(f, q, n) \/ GoesOn(f, q, n) \/ Closes(f, q, n) \/ Resumes(f, q, n)
    BY <1>2 DEF Begins, EntersHandler, GoesOn, Closes, Resumes, SameWork
<1>3. CASE Leaves(f, q, n)
  <2>1. n.result = q.result
      BY <1>3 DEF Leaves
  <2>2. CASE n.resps = q.resps
      BY <2>1, <2>2
  <2>3. ASSUME NEW resp \in RespType, n.resps = Append(q.resps, resp), Responds(f, q, resp),
               NEW i \in DOMAIN n.resps
        PROVE  (i \in DOMAIN q.resps /\ n.resps[i] = q.resps[i]) \/ Responds(f, q, n.resps[i])
    <3>1. /\ Len(n.resps) = Len(q.resps) + 1 /\ n.resps[Len(q.resps) + 1] = resp
          /\ \A k \in 1 .. Len(q.resps) : n.resps[k] = q.resps[k]
        BY <1>1, <2>3, AppendProperties
    <3>2. n.resps \in Seq(RespType)
        BY DEF RequestType
    <3>3. i \in 1 .. Len(q.resps) \/ i = Len(q.resps) + 1
        BY <1>1, <2>3, <3>1, <3>2
    <3>4. DOMAIN q.resps = 1 .. Len(q.resps)
        BY <1>1
    <3>5. CASE i \in 1 .. Len(q.resps)
        BY <3>1, <3>4, <3>5
    <3>6. CASE i = Len(q.resps) + 1
      <4>1. n.resps[i] = resp
          BY <3>1, <3>6
      <4> QED BY <2>3, <4>1
    <3> QED BY <3>3, <3>5, <3>6
  <2> QED BY <1>3, <2>1, <2>2, <2>3 DEF Leaves
<1>4. CASE Ends(f, q, n)
  <2>1. n.resps = <<>> /\ DOMAIN n.resps = {}
      BY <1>4 DEF Ends
  <2>2. ASSUME NEW result, result.steps = <<>> PROVE DOMAIN result.steps = {}
      BY <2>2
  <2>3. ErrorResult(TRUE).steps = <<>> /\ ErrorResult(FALSE).steps = <<>>
        /\ ReturnResult.steps = <<>>
      BY DEF ErrorResult, ReturnResult
  <2>4. CASE Answers(f, q, n.result)
    <3>1. PICK resp \in RespType : n.result = StepsResult(<<resp>>) /\ Responds(f, q, resp)
        BY <2>4 DEF Answers
    <3>2. n.result.steps = <<resp>>
        BY <3>1 DEF StepsResult
    <3>3. DOMAIN n.result.steps = {1} /\ n.result.steps[1] = resp
        BY <3>2
    <3> QED BY <2>1, <3>1, <3>3
  <2>5. CASE n.result = StepsResult(q.resps)
    <3>1. n.result.steps = q.resps
        BY <2>5 DEF StepsResult
    <3> QED BY <2>1, <3>1
  <2>6. CASE n.result \in {ErrorResult(TRUE), ErrorResult(FALSE), ReturnResult}
    <3>1. n.result.steps = <<>>
        BY <2>3, <2>6
    <3> QED BY <2>1, <3>1
  <2> QED BY <1>4, <2>4, <2>5, <2>6 DEF Ends, Raises
<1> QED BY <1>2, <1>3, <1>4 DEF Moves

\* A step of the SDK keeps what a request holds about the function's steps.
LEMMA FitsKept ==
    ASSUME NEW f \in UserFunctions, TellsApart(f), NEW q, RequestOK(f, q), RequestFits(f, q),
           NEW n \in RequestType, Moves(f, q, n)
    PROVE  RequestFits(f, n)
<1>1. q \in RequestType
    BY DEF RequestOK
<1>2. \A m \in n.memos : Fits(f, m)
    BY MemosShrink DEF RequestFits
<1>3. \A i \in DOMAIN n.resps : n.resps[i] \in RespType
  <2>1. n.resps \in Seq(RespType)
      BY DEF RequestType
  <2> QED BY <2>1, SeqElement
<1>4. \A i \in DOMAIN n.result.steps : n.result.steps[i] \in RespType
  <2>1. n.result.steps \in Seq(RespType)
      BY DEF RequestType, ResultType
  <2> QED BY <2>1, SeqElement
<1>5. \A i \in DOMAIN n.resps : RespFits(f, n.resps[i])
    BY <1>1, <1>3, NewResponses, ReportFits DEF RequestFits
<1>6. \A i \in DOMAIN n.result.steps : RespFits(f, n.result.steps[i])
    BY <1>1, <1>4, NewResponses, ReportFits DEF RequestFits
<1>7. ASSUME Replaying(n) PROVE Counts(f, n) /\ Within(f, n)
  <2>1. n.pc # "result" /\ Replaying(q)
      BY <1>7, MovesFrom DEF Replaying
  <2> QED BY <2>1, CountsKept, WithinKept DEF RequestFits
<1>8. ASSUME n.pc = "handler" PROVE n.hid = Key(f, Pos(n)) /\ Step(f, n).op = "STEP_RUN"
  <2>1. EntersHandler(f, q, n)
      BY <1>8 DEF Moves, Begins, GoesOn, Leaves, Closes, Resumes, Ends
  <2>2. AtStep(f, q) /\ SameSpot(q, n) /\ n.hid = HashedId(f, q) /\ Step(f, q).op = "STEP_RUN"
      BY <2>1 DEF EntersHandler, IsNew
  <2>3. Counts(f, q)
      BY <2>2 DEF RequestFits, Replaying, AtStep, InBranch, InStage
  <2>4. HashedId(f, q) = Key(f, Pos(q))
      BY <2>2, <2>3, HashedIsKey
  <2>5. Pos(n) = Pos(q) /\ Step(f, n) = Step(f, q)
      BY <2>2 DEF SameSpot, Pos, Step, Branch, Stage
  <2> QED BY <2>2, <2>4, <2>5
<1> QED BY <1>2, <1>5, <1>6, <1>7, <1>8 DEF RequestFits

\* A hook or user code that raises leaves what the request holds fitting.
LEMMA FitsBroken ==
    ASSUME NEW f, NEW q, RequestFits(f, q), NEW n, Breaks(q, n)
    PROVE  RequestFits(f, n)
<1>1. n.result.steps = <<>> /\ DOMAIN n.result.steps = {} /\ DOMAIN n.resps = {}
    BY DEF Breaks, ErrorResult
<1>2. ~Replaying(n) /\ n.pc # "handler" /\ n.memos = q.memos
    BY DEF Breaks, Replaying
<1> QED BY <1>1, <1>2 DEF RequestFits

\* A request that was just received has counted nothing, and come by nothing.
LEMMA FitsFresh ==
    ASSUME NEW f \in UserFunctions, NEW target, NEW attempt, NEW cause, NEW dis,
           NEW snapshot, \A m \in snapshot : Fits(f, m)
    PROVE  /\ RequestFits(f, Idle)
           /\ RequestFits(f, Received(target, attempt, cause, snapshot, dis))
<1> DEFINE n == Received(target, attempt, cause, snapshot, dis)
<1>1. /\ Idle.pc = "idle" /\ Idle.memos = {} /\ Idle.resps = <<>> /\ Idle.result = NoResult
    BY DEF Idle
<1>2. NoResult.steps = <<>> /\ DOMAIN NoResult.steps = {} /\ DOMAIN <<>> = {}
    BY DEF NoResult
<1>3. RequestFits(f, Idle)
  <2> HIDE DEF n
  <2> QED BY <1>1, <1>2 DEF RequestFits, Replaying
<1>4. /\ n.pc = "start" /\ n.memos = snapshot /\ n.resps = <<>> /\ n.result = NoResult
      /\ n.stage = 1 /\ n.branch = 1 /\ n.idx = 1
    BY DEF Received, Idle
<1>5. n.counts = [id \in UserIds |-> 0]
    BY DEF Received, Idle
<1> HIDE DEF n
<1>6. Within(f, n)
  <2>1. Len(f) \in Nat /\ DOMAIN f = 1 .. Len(f)
      BY FunctionsAssumption
  <2>2. ASSUME 1 \in DOMAIN f
        PROVE  /\ Len(f[1].branches) \in Nat
               /\ 1 \in DOMAIN f[1].branches => Len(f[1].branches[1]) \in Nat
    <3> DEFINE StageDecl == [par : BOOLEAN, branches : Seq(Seq(StepDecl))]
    <3>1. f[1] \in StageDecl
      <4> HIDE DEF StageDecl
      <4>1. f \in Seq(StageDecl)
          BY FunctionsAssumption DEF StageDecl
      <4> QED BY <2>2, <4>1, SeqElement
    <3>2. f[1].branches \in Seq(Seq(StepDecl))
        BY <3>1
    <3>3. 1 \in DOMAIN f[1].branches => f[1].branches[1] \in Seq(StepDecl)
        BY <3>2, SeqElement
    <3> QED BY <3>2, <3>3
  <2> QED BY <1>4, <2>1, <2>2 DEF Within
<1>7. Counts(f, n)
  <2>1. ASSUME NEW t \in Positions(f) PROVE ~Behind(n, t)
    <3>1. t[1] \in Nat /\ t[2] \in Nat /\ t[3] \in Nat /\ t[1] >= 1 /\ t[2] >= 1 /\ t[3] >= 1
        BY PositionTyped
    <3>2. Pos(n)[1] = 1 /\ Pos(n)[2] = 1 /\ Pos(n)[3] = 1
        BY <1>4 DEF Pos
    <3> QED BY <1>4, <3>1, <3>2 DEF Behind, Earlier
  <2>2. ASSUME NEW p \in Positions(f) PROVE n.counts[At(f, p).id] = Cardinality(Seen(f, n, p))
    <3>1. Seen(f, n, p) = {}
        BY <2>1 DEF Seen
    <3>2. Cardinality(Seen(f, n, p)) = 0
        BY <3>1, FS_EmptySet
    <3>3. At(f, p).id \in UserIds
        BY PositionTyped DEF StepDecl
    <3> QED BY <1>5, <3>2, <3>3
  <2> QED BY <2>2 DEF Counts
<1>8. RequestFits(f, n)
    BY <1>2, <1>4, <1>6, <1>7 DEF RequestFits
<1> QED BY <1>3, <1>8 DEF n

-----------------------------------------------------------------------------
(* The Executor, and the invariant.                                         *)

\* What the Executor and the requests hold about steps is about those steps.
Fitting ==
    /\ \A r \in Requests : RequestFits(fn, req[r])
    /\ \A m \in memos : Fits(fn, m)
    /\ \A s \in asleep : Fits(fn, s) /\ (s.at \in Positions(fn) => At(fn, s.at).op = "SLEEP")
    /\ \A id \in known : InnerName(fn, id) \/ \E p \in Positions(fn) : id = Key(fn, p)

\* The Executor adds to what it holds what a response says.
LEMMA ApplyFits ==
    ASSUME Fitting, NEW q, NEW resps, ApplySteps(q, resps), fn' = fn,
           \A i \in DOMAIN resps : RespFits(fn, resps[i])
    PROVE  /\ \A m \in memos' : Fits(fn, m)
           /\ \A s \in asleep' :
                Fits(fn, s) /\ (s.at \in Positions(fn) => At(fn, s.at).op = "SLEEP")
           /\ \A id \in known' : InnerName(fn, id) \/ \E p \in Positions(fn) : id = Key(fn, p)
<1>1. ASSUME NEW i \in DOMAIN resps PROVE Fits(fn, AsMemo(resps[i]))
    BY <1>1 DEF RespFits, Fits, AsMemo
<1>2. ASSUME NEW m \in memos' PROVE Fits(fn, m)
    BY <1>1 DEF ApplySteps, Fitting
<1>3. ASSUME NEW s \in asleep'
      PROVE  Fits(fn, s) /\ (s.at \in Positions(fn) => At(fn, s.at).op = "SLEEP")
  <2>1. s \in asleep \/ \E i \in DOMAIN resps :
            resps[i].op = "SLEEP" /\ s.id = resps[i].id /\ s.at = resps[i].at
      BY DEF ApplySteps
  <2> QED BY <2>1 DEF Fitting, RespFits, Fits
<1>4. ASSUME NEW id \in known'
      PROVE  InnerName(fn, id) \/ \E p \in Positions(fn) : id = Key(fn, p)
  <2>1. id \in known \/ \E i \in DOMAIN resps : id = resps[i].id
      BY DEF ApplySteps
  <2> QED BY <2>1 DEF Fitting, RespFits
<1> QED BY <1>2, <1>3, <1>4

\* One request is replaced, and the Executor's state stays.
LEMMA ReplacedFits ==
    ASSUME Fitting, NEW r \in Requests, fn' = fn,
           \A x \in Requests \ {r} : req'[x] = req[x], RequestFits(fn, req'[r]),
           UNCHANGED <<memos, known, asleep>>
    PROVE  Fitting'
BY DEF Fitting

\* The invariant, step by step.
LEMMA NextFitting ==
    ASSUME IInv, Fitting, TellsApart(fn), [Next]_vars, IInv'
    PROVE  Fitting'
<1>1. fn \in UserFunctions /\ req \in [Requests -> RequestType] /\ req' \in [Requests -> RequestType]
    BY DEF IInv, TypeOK
<1>2. ASSUME NEW r \in Requests PROVE RequestOK(fn, req[r]) /\ RequestFits(fn, req[r])
    BY DEF IInv, Fitting
<1>3. ASSUME NEW r \in Requests, Sdk(r) PROVE Fitting'
  <2>1. /\ Moves(fn, req[r], req'[r]) /\ \A x \in Requests \ {r} : req'[x] = req[x]
        /\ UNCHANGED <<fn, executor, faults>>
      BY <1>3, SdkMoves
  <2>2. RequestFits(fn, req'[r])
      BY <1>1, <1>2, <2>1, FitsKept
  <2> QED BY <2>1, <2>2, ReplacedFits DEF executor
<1>4. ASSUME NEW r \in Requests, HookFails(r) \/ UserError(r) PROVE Fitting'
  <2>1. /\ Breaks(req[r], req'[r]) /\ \A x \in Requests \ {r} : req'[x] = req[x]
        /\ UNCHANGED <<fn, executor>>
      BY <1>4, FaultMoves
  <2>2. RequestFits(fn, req'[r])
      BY <1>2, <2>1, FitsBroken
  <2> QED BY <2>1, <2>2, ReplacedFits DEF executor
<1>5. ASSUME NEW r \in Requests, Send(r) PROVE Fitting'
  <2>1. PICK j \in queue : req' = [req EXCEPT ![r] =
                Received(j.target, j.attempt, j.cause, memos, forcePlan)]
      BY <1>5 DEF Send
  <2>2. UNCHANGED <<fn, memos, known, asleep>>
      BY <1>5 DEF Send
  <2>3. req'[r] = Received(j.target, j.attempt, j.cause, memos, forcePlan)
        /\ \A x \in Requests \ {r} : req'[x] = req[x]
      BY <1>1, <2>1
  <2>4. RequestFits(fn, req'[r])
      BY <1>1, <2>3, FitsFresh DEF Fitting
  <2> QED BY <2>2, <2>3, <2>4, ReplacedFits
<1>6. RequestFits(fn, Idle)
    BY <1>1, FitsFresh DEF Fitting
<1>7. ASSUME NEW r \in Requests, Lose(r) PROVE Fitting'
  <2>1. req'[r] = Idle /\ (\A x \in Requests \ {r} : req'[x] = req[x])
      BY <1>1, <1>7 DEF Lose
  <2>2. UNCHANGED <<fn, memos, known, asleep>>
      BY <1>7 DEF Lose, Retry, executor
  <2> QED BY <1>6, <2>1, <2>2, ReplacedFits
<1>8. ASSUME NEW r \in Requests, Apply(r) PROVE Fitting'
  <2> DEFINE q == req[r]
             res == Response(q)
  <2>1. req'[r] = Idle /\ (\A x \in Requests \ {r} : req'[x] = req[x]) /\ fn' = fn
      BY <1>1, <1>8 DEF Apply
  <2>2. CASE run = "running" /\ res.kind = "steps" /\ ApplySteps(q, res.steps)
    <3>1. res = q.result
        BY <2>2 DEF Response, ErrorResult
    <3>2. \A i \in DOMAIN res.steps : RespFits(fn, res.steps[i])
        BY <1>2, <3>1 DEF RequestFits
    <3> HIDE DEF res
    <3>3. /\ \A m \in memos' : Fits(fn, m)
          /\ \A s \in asleep' :
                Fits(fn, s) /\ (s.at \in Positions(fn) => At(fn, s.at).op = "SLEEP")
          /\ \A id \in known' : InnerName(fn, id) \/ \E p \in Positions(fn) : id = Key(fn, p)
        BY <2>1, <2>2, <3>2, ApplyFits
    <3>4. \A x \in Requests : RequestFits(fn, req'[x])
        BY <1>2, <1>6, <2>1
    <3> QED BY <2>1, <3>3, <3>4 DEF Fitting
  <2>3. CASE UNCHANGED <<memos, known, asleep>>
      BY <1>6, <2>1, <2>3, ReplacedFits
  <2> QED BY <1>8, <2>2, <2>3 DEF Apply, Retry, executor
<1>9. ASSUME Wake PROVE Fitting'
  <2>1. PICK s \in asleep :
            /\ asleep' = asleep \ {s}
            /\ memos' = memos \union {[id |-> s.id, out |-> "data", at |-> s.at]}
      BY <1>9 DEF Wake
  <2>2. UNCHANGED <<fn, req, known>>
      BY <1>9 DEF Wake
  <2>3. Fits(fn, [id |-> s.id, out |-> "data", at |-> s.at])
      BY DEF Fitting, Fits
  <2> QED BY <2>1, <2>2, <2>3 DEF Fitting
<1>10. CASE UNCHANGED vars
    BY <1>10 DEF vars, executor, Fitting
<1> QED BY <1>3, <1>4, <1>5, <1>7, <1>8, <1>9, <1>10 DEF Next

\* At first nothing is decided and nothing is running.
LEMMA InitFitting == Init => Fitting
<1> SUFFICES ASSUME Init PROVE Fitting
    OBVIOUS
<1>1. fn \in UserFunctions /\ memos = {} /\ asleep = {} /\ known = {}
      /\ \A r \in Requests : req[r] = Idle
    BY DEF Init
<1>2. RequestFits(fn, Idle)
    BY <1>1, FitsFresh
<1> QED BY <1>1, <1>2 DEF Fitting

\* Every memo, response and count is about the step it names, if the ids tell
\* the steps of the user's functions apart.
THEOREM FittingAlways ==
    ASSUME \A f \in UserFunctions : TellsApart(f)
    PROVE  Spec => []Fitting
<1>1. Init => Fitting
    BY InitFitting
<1>2. IInv /\ IInv' /\ Fitting /\ [Next]_vars => Fitting'
  <2>1. IInv => fn \in UserFunctions
      BY DEF IInv, TypeOK
  <2> QED BY <2>1, NextFitting
<1> QED BY <1>1, <1>2, Invariance, PTL DEF Spec

\* MemoFitsStep: the memo that a step method returns was made by that step
\* (StepIDCounter, StepMemos.pop), if the ids tell the steps apart.
THEOREM MemosFit ==
    ASSUME \A f \in UserFunctions : TellsApart(f)
    PROVE  Spec => []MemoFitsStep
<1>1. IInv /\ Fitting => MemoFitsStep
  <2> SUFFICES ASSUME IInv, Fitting, NEW r \in Requests,
                      AtStep(fn, req[r]), Memoized(fn, req[r])
               PROVE  Memo(fn, req[r]).at = Pos(req[r])
      BY DEF MemoFitsStep
  <2> DEFINE q == req[r]
             m == Memo(fn, q)
  <2>1. fn \in UserFunctions /\ RequestOK(fn, q) /\ RequestFits(fn, q)
      BY DEF IInv, TypeOK, Fitting
  <2>2. Counts(fn, q)
      BY <2>1 DEF RequestFits, AtStep, InBranch, InStage, Replaying
  <2>3. HashedId(fn, q) = Key(fn, Pos(q)) /\ Pos(q) \in Positions(fn)
      BY <2>1, <2>2, HashedIsKey
  <2>4. m \in q.memos /\ m.id = HashedId(fn, q)
      BY DEF Memoized, Ids, Memo
  <2> HIDE DEF m, q
  <2>5. ~InnerName(fn, m.id)
      BY <2>1, <2>3, <2>4, KeyName
  <2>6. m.at \in Positions(fn) /\ m.id = Key(fn, m.at)
      BY <2>1, <2>4, <2>5 DEF RequestFits, Fits
  <2>7. m.at = Pos(q)
      BY <2>1, <2>3, <2>4, <2>6 DEF TellsApart
  <2> QED BY <2>7 DEF m, q
<1> QED BY <1>1, Invariance, FittingAlways, PTL

-----------------------------------------------------------------------------
(* Who may run a handler: a request holds its target, and without targets   *)
(* there is one request at a time.                                          *)

Live == {r \in Requests : req[r] # Idle}

\* The Executor was told to run this step, and it is not decided.
Token(id) ==
    /\ \E p \in Positions(fn) : id = Key(fn, p) /\ At(fn, p).op = "STEP_RUN"
    /\ id \in known /\ id \notin Ids(memos)

TargetsOpen ==
    /\ \A j \in queue : j.target # None => Token(j.target)
    /\ \A r \in Live : req[r].target # None => Token(req[r].target)

OneHolder ==
    /\ \A j, k \in queue : j.target = k.target /\ j.target # None => j = k
    /\ \A r, s \in Live : req[r].target = req[s].target /\ req[r].target # None => r = s
    /\ \A j \in queue, r \in Live : j.target = req[r].target => j.target = None

\* Until steps were reported together, one thing happens at a time; from then
\* on immediate execution is disabled.
OneAtATime ==
    /\ forcePlan => \A r \in Live : req[r].dis
    /\ ~forcePlan =>
         /\ \A r, s \in Live : r = s
         /\ \A j, k \in queue : j = k
         /\ \A s, t \in asleep : s = t
         /\ \A r \in Live : queue = {} /\ asleep = {}
         /\ \A j \in queue : asleep = {}

\* A request that may run steps at once has the memo of every step that is
\* decided and that it has yet to come by.
UpToDate(f, decided, q) ==
    /\ Replaying(q) /\ ~q.dis =>
         \A p \in Positions(f) :
            ~Behind(q, p) /\ Key(f, p) \in decided => Key(f, p) \in Ids(q.memos)
    /\ q.pc = "handler" /\ q.target = None => q.hid \notin decided

Ending(resp) == resp.op \notin {"PLANNED", "SLEEP"}

\* What a request collects in a group, and what it may answer.
Collects(f, q) ==
    /\ q.resps # <<>> => InStage(f, q) /\ Stage(f, q).par
    /\ \A i \in DOMAIN q.resps : q.resps[i].at \in Positions(f) => Behind(q, q.resps[i].at)
    /\ q.target # None => Len(q.resps) <= 1
    /\ q.target = None => \A i \in DOMAIN q.resps : ~Ending(q.resps[i])
    /\ \A i \in DOMAIN q.result.steps : Ending(q.result.steps[i]) =>
          Len(q.result.steps) = 1 /\ (q.target = None => ~q.dis)
    /\ q.pc = "handler" /\ q.target = None => ~Stage(f, q).par /\ ~q.dis

KnowsAll == Ids(memos) \subseteq known /\ \A s \in asleep : s.id \in known

Tokens ==
    /\ TargetsOpen /\ OneHolder /\ OneAtATime /\ KnowsAll
    /\ \A r \in Live : UpToDate(fn, Ids(memos), req[r])
    /\ \A r \in Requests : Collects(fn, req[r])

-----------------------------------------------------------------------------
\* A request that may run the handler of step p.
Holder(q, p) == q # Idle /\ (q.target = Key(fn, p) \/ (q.target = None /\ ~q.dis))

Gives(resp, p) == resp.id = Key(fn, p) /\ resp.op = "STEP_RUN" /\ resp.out = "data"

\* What it brings back ends the step, or the run.
Done(q, p) ==
    \/ /\ q.pc = "result" /\ q.result.kind = "steps"
       /\ \E i \in DOMAIN q.result.steps : Gives(q.result.steps[i], p)
    \/ q.pc = "result" /\ q.result = ErrorResult(FALSE)
    \/ q.pc = "code" /\ \E i \in DOMAIN q.resps : Gives(q.resps[i], p)

\* No handler of step p runs any more, if nothing is lost.
Over(p) ==
    \/ Key(fn, p) \in Ids(memos)
    \/ \E r \in Requests : Holder(req[r], p) /\ Done(req[r], p)
    \/ run # "running" /\ \A r \in Requests : ~Holder(req[r], p)

Spent(p) ==
    \/ returned[p] > faults
    \/ CatchesStepErrors(fn) /\ Encodes(fn) /\ p \in condemned /\ faults = 0

ReturnsOnce == \A p \in Positions(fn) : returned[p] <= 1 + faults /\ (Spent(p) => Over(p))

-----------------------------------------------------------------------------
(* What a request collects.                                                 *)

\* A sequence without elements.
LEMMA WhenEmpty ==
    ASSUME NEW S, NEW s \in Seq(S)
    PROVE  /\ Len(s) \in Nat /\ DOMAIN s = 1 .. Len(s)
           /\ s = <<>> <=> Len(s) = 0
           /\ s = <<>> <=> DOMAIN s = {}
<1>1. Len(s) \in Nat /\ DOMAIN s = 1 .. Len(s)
    OBVIOUS
<1>2. s # <<>> => Len(s) \in Nat \ {0}
    BY EmptySeq
<1>3. Len(<<>>) = 0
    OBVIOUS
<1>4. s = <<>> <=> Len(s) = 0
    BY <1>2, <1>3
<1>5. \A n \in Nat : 1 .. n = {} <=> n = 0
    OBVIOUS
<1> QED BY <1>1, <1>4, <1>5

\* A request that comes to its target has collected nothing.
LEMMA NothingBeforeTarget ==
    ASSUME NEW f \in UserFunctions, TellsApart(f), NEW q, RequestOK(f, q), RequestFits(f, q),
           Collects(f, q), AtStep(f, q), q.target # None, q.target = HashedId(f, q)
    PROVE  q.resps = <<>>
<1>1. q \in RequestType /\ q.resps \in Seq(RespType)
    BY DEF RequestOK, RequestType
<1>2. Counts(f, q)
    BY DEF RequestFits, Replaying, AtStep, InBranch, InStage
<1>3. HashedId(f, q) = Key(f, Pos(q)) /\ Pos(q) \in Positions(f) /\ ~Behind(q, Pos(q))
    BY <1>2, HashedIsKey
<1>4. ASSUME NEW i \in DOMAIN q.resps PROVE FALSE
  <2>1. RespFits(f, q.resps[i]) /\ q.resps[i].id = Key(f, Pos(q))
      BY <1>3 DEF RequestFits, RequestOK, RespOK
  <2>2. ~InnerName(f, q.resps[i].id)
      BY <1>3, <2>1, KeyName
  <2>3. q.resps[i].at \in Positions(f) /\ Key(f, q.resps[i].at) = Key(f, Pos(q))
      BY <2>1, <2>2 DEF RespFits
  <2>4. q.resps[i].at = Pos(q)
      BY <1>3, <2>3 DEF TellsApart
  <2> QED BY <1>3, <2>3, <2>4 DEF Collects
<1> QED BY <1>1, <1>4, WhenEmpty

\* What a nested step reports is about no step of the function.
LEMMA NestedNowhere ==
    ASSUME NEW f \in UserFunctions, NEW q \in RequestType
    PROVE  Append(Pos(q), 1) \notin Positions(f)
<1> DEFINE s == Pos(q)
<1>1. s \in Seq(Nat) /\ Len(s) = 3
    BY DEF Pos, RequestType
<1> HIDE DEF s
<1>2. Len(Append(s, 1)) = Len(s) + 1
  <2>1. 1 \in Nat
      OBVIOUS
  <2> QED BY <1>1, <2>1, AppendProperties, Zenon
<1>3. Len(Append(s, 1)) = 4
    BY <1>1, <1>2
<1>4. \A t \in Positions(f) : Len(t) = 3
    BY DEF Positions
<1> DEFINE t == Append(s, 1)
<1>5. Len(t) = 4
    BY <1>3
<1> HIDE DEF t
<1>6. t \notin Positions(f)
    BY <1>4, <1>5
<1> QED BY <1>6 DEF s, t

\* What a request collects, after one more step.
LEMMA CollectsKept ==
    ASSUME NEW f \in UserFunctions, TellsApart(f), NEW q, RequestOK(f, q), RequestFits(f, q),
           Collects(f, q), NEW n \in RequestType, SameJob(q, n), Moves(f, q, n)
    PROVE  Collects(f, n)
<1>1. /\ q \in RequestType /\ q.resps \in Seq(RespType) /\ n.resps \in Seq(RespType)
      /\ q.result.steps \in Seq(RespType) /\ n.result.steps \in Seq(RespType)
      /\ n.target = q.target /\ n.dis = q.dis
    BY DEF RequestOK, RequestType, ResultType, SameJob
<1>2. q.pc = "handler" => q.resps = <<>>
    BY DEF Collects, InStage
<1>3. ASSUME IsNew(f, q), ~MustSkip(q, HashedId(f, q)), q.target # None
      PROVE  q.resps = <<>>
    BY <1>3, NothingBeforeTarget DEF IsNew, MustSkip
<1>4. ASSUME NEW resp \in RespType, Responds(f, q, resp)
      PROVE  /\ q.target # None => q.resps = <<>>
             /\ q.target = None /\ Ending(resp) => ~Stage(f, q).par /\ ~q.dis
    BY <1>2, <1>3, <1>4 DEF Responds, Ending, Collects
<1>5. CASE Begins(q, n)
  <2>1. q.resps = <<>> /\ n.resps = <<>> /\ n.result = q.result /\ n.pc = "code"
      BY <1>5 DEF Begins, SameWork, Collects, InStage
  <2> QED BY <1>1, <2>1 DEF Collects
<1>6. CASE EntersHandler(f, q, n)
  <2>1. /\ IsNew(f, q) /\ ~MustSkip(q, HashedId(f, q)) /\ ~MustPlan(f, q)
        /\ Step(f, q).op = "STEP_RUN" /\ n.resps = q.resps /\ n.result = q.result
        /\ Stage(f, n) = Stage(f, q)
      BY <1>6 DEF EntersHandler, SameWork, SameSpot, Stage
  <2>2. q.target = None => ~Stage(f, q).par /\ ~q.dis
      BY <2>1 DEF MustPlan
  <2>3. q.resps = <<>>
      BY <1>3, <2>1, <2>2 DEF Collects
  <2> QED BY <1>1, <2>1, <2>2, <2>3 DEF Collects
<1>7. ASSUME n.pc = "code", n.stage = q.stage, SameWork(q, n),
             \A t \in Positions(f) : Behind(q, t) => Behind(n, t)
      PROVE  Collects(f, n)
  <2>1. Stage(f, n) = Stage(f, q) /\ (InStage(f, q) => InStage(f, n))
        /\ n.resps = q.resps /\ n.result = q.result
      BY <1>7 DEF Stage, InStage, SameWork
  <2> QED BY <1>1, <1>7, <2>1 DEF Collects
<1>8. ASSUME n.pc # "result" PROVE \A t \in Positions(f) : Behind(q, t) => Behind(n, t)
  <2>1. Within(f, q)
      BY <1>8, MovesFrom DEF RequestFits
  <2> QED BY <1>8, <2>1, Passed
<1>9. CASE GoesOn(f, q, n) \/ Closes(f, q, n)
    BY <1>7, <1>8, <1>9 DEF GoesOn, Closes
<1>10. CASE Leaves(f, q, n)
  <2>1. /\ n.pc = "code" /\ n.stage = q.stage /\ n.result = q.result /\ Stage(f, q).par
      BY <1>10 DEF Leaves
  <2>2. CASE n.resps = q.resps
      BY <1>7, <1>8, <2>1, <2>2 DEF SameWork
  <2>3. ASSUME NEW resp \in RespType, n.resps = Append(q.resps, resp), Responds(f, q, resp)
        PROVE  Collects(f, n)
    <3>1. q.target # None => q.resps = <<>>
        BY <1>4, <2>3
    <3>2. q.target = None => ~Ending(resp)
        BY <1>4, <2>1, <2>3
    <3>3. /\ Len(n.resps) = Len(q.resps) + 1 /\ n.resps[Len(q.resps) + 1] = resp
          /\ \A k \in 1 .. Len(q.resps) : n.resps[k] = q.resps[k]
        BY <1>1, <2>3, AppendProperties
    <3>4. ASSUME NEW i \in DOMAIN n.resps
          PROVE  (i \in DOMAIN q.resps /\ n.resps[i] = q.resps[i]) \/ n.resps[i] = resp
        BY <1>1, <3>3, SMTT(30)
    <3>5. InStage(f, n) /\ Stage(f, n).par
      <4>1. AtPosition(f, q)
          BY <1>10, <2>1, MovesFrom
      <4> QED BY <2>1, <4>1 DEF InStage, Stage, AtPosition
    <3>6. q.target # None => Len(n.resps) <= 1
        BY <3>1, <3>3
    <3>7. q.target = None => \A i \in DOMAIN n.resps : ~Ending(n.resps[i])
        BY <3>2, <3>4 DEF Collects
    <3>8. Behind(n, Pos(q))
      <4>1. AtPosition(f, q) /\ Replaying(q) /\ Within(f, q)
          BY <1>10, <2>1, MovesFrom DEF RequestFits
      <4>2. Pos(q) \in Positions(f)
          BY <1>1, <4>1, Here
      <4> QED BY <1>10, <2>1, <4>1, <4>2, Passed
    <3>9. resp.at \in Positions(f) => Behind(n, resp.at)
      <4>1. resp.at = Pos(q) \/ resp.at = Append(Pos(q), 1)
          BY <2>3 DEF Responds
      <4>2. Append(Pos(q), 1) \notin Positions(f)
          BY <1>1, NestedNowhere
      <4> QED BY <3>8, <4>1, <4>2
    <3>10. \A i \in DOMAIN n.resps : n.resps[i].at \in Positions(f) => Behind(n, n.resps[i].at)
        BY <1>8, <2>1, <3>4, <3>9 DEF Collects
    <3> QED BY <1>1, <2>1, <3>5, <3>6, <3>7, <3>10 DEF Collects
  <2> QED BY <1>10, <2>2, <2>3 DEF Leaves
<1>11. CASE Resumes(f, q, n)
  <2>1. q.resps = <<>> /\ n.resps = <<>> /\ n.result = q.result /\ n.pc = "code"
      BY <1>11 DEF Resumes, SameWork
  <2> QED BY <1>1, <2>1 DEF Collects
<1>12. CASE Ends(f, q, n)
  <2>1. n.resps = <<>> /\ n.pc = "result"
      BY <1>12 DEF Ends
  <2>2. ASSUME \A i \in DOMAIN n.result.steps : Ending(n.result.steps[i]) =>
                    Len(n.result.steps) = 1 /\ (q.target = None => ~q.dis)
        PROVE  Collects(f, n)
      BY <1>1, <2>1, <2>2 DEF Collects
  <2>3. CASE n.result.steps = <<>>
      BY <2>2, <2>3
  <2>4. CASE Answers(f, q, n.result)
    <3>1. PICK resp \in RespType : n.result = StepsResult(<<resp>>) /\ Responds(f, q, resp)
        BY <2>4 DEF Answers
    <3>2. n.result.steps = <<resp>>
        BY <3>1 DEF StepsResult
    <3>3. Len(n.result.steps) = 1 /\ \A i \in DOMAIN n.result.steps : n.result.steps[i] = resp
        BY <3>2
    <3> QED BY <1>4, <2>2, <3>1, <3>3
  <2>5. CASE q.resps # <<>> /\ n.result = StepsResult(q.resps)
    <3>1. n.result.steps = q.resps
        BY <2>5 DEF StepsResult
    <3>2. q.target # None => Len(q.resps) = 1
      <4>1. Len(q.resps) \in Nat /\ Len(q.resps) # 0
          BY <1>1, <2>5, WhenEmpty
      <4>2. q.target # None => Len(q.resps) <= 1
          BY DEF Collects
      <4> DEFINE len == Len(q.resps)
      <4>3. len \in Nat /\ len # 0 /\ (q.target # None => len <= 1)
          BY <4>1, <4>2
      <4> HIDE DEF len
      <4>4. q.target # None => len = 1
          BY <4>3
      <4> QED BY <4>4 DEF len
    <3> QED BY <2>2, <3>1, <3>2 DEF Collects
  <2>6. ErrorResult(TRUE).steps = <<>> /\ ErrorResult(FALSE).steps = <<>>
        /\ ReturnResult.steps = <<>>
      BY DEF ErrorResult, ReturnResult
  <2> QED BY <1>12, <2>3, <2>4, <2>5, <2>6 DEF Ends, Raises
<1> QED BY <1>5, <1>6, <1>9, <1>10, <1>11, <1>12 DEF Moves

\* A call that a fault ended, and a request that was just received, collected
\* nothing.
LEMMA CollectsNothing ==
    ASSUME NEW f, NEW q, q.resps = <<>>, q.result.steps = <<>>, q.pc # "handler"
    PROVE  Collects(f, q)
<1>1. DOMAIN q.resps = {} /\ DOMAIN q.result.steps = {} /\ Len(q.resps) = 0
    OBVIOUS
<1> QED BY <1>1 DEF Collects

\* The memos a request gives up are those of steps it came by.
LEMMA MemosAhead ==
    ASSUME NEW f \in UserFunctions, TellsApart(f), NEW q, RequestOK(f, q), RequestFits(f, q),
           NEW n \in RequestType, Moves(f, q, n), n.pc # "result",
           NEW p \in Positions(f), ~Behind(n, p), Key(f, p) \in Ids(q.memos)
    PROVE  Key(f, p) \in Ids(n.memos)
<1>1. /\ q \in RequestType /\ Replaying(q) /\ Within(f, q) /\ Counts(f, q)
      /\ EntersHandler(f, q, n) \/ GoesOn(f, q, n) \/ Leaves(f, q, n) => AtPosition(f, q)
    BY MovesFrom DEF RequestFits
<1>2. PICK m \in q.memos : m.id = Key(f, p)
    BY DEF Ids
<1>3. ASSUME SameReplay(q, n) PROVE m \in n.memos
    BY <1>3 DEF SameReplay
<1>4. ASSUME Reports(f, q, n), EntersHandler(f, q, n) \/ GoesOn(f, q, n) \/ Leaves(f, q, n)
      PROVE  m \in n.memos
  <2>1. HashedId(f, q) = Key(f, Pos(q)) /\ Pos(q) \in Positions(f)
      BY <1>1, <1>4, HashedIsKey DEF Reports
  <2>2. Behind(n, Pos(q))
      BY <1>1, <1>4, <2>1, Passed
  <2>3. Key(f, p) # Key(f, Pos(q))
      BY <2>1, <2>2 DEF TellsApart
  <2> QED BY <1>2, <1>4, <2>1, <2>3 DEF Reports
<1>5. ASSUME NEW inner \in Step(f, q).inner, AtPosition(f, q),
             n.memos = {e \in q.memos : e.id # Hashed(q.counts, inner.id)}
      PROVE  m \in n.memos
  <2>1. Pos(q) \in Positions(f) /\ inner \in At(f, Pos(q)).inner /\ inner.id \in UserIds
    <3>1. Pos(q) \in Positions(f) /\ At(f, Pos(q)) = Step(f, q) /\ Step(f, q) \in StepDecl
        BY <1>1, <1>5, Here, StepTyped
    <3> QED BY <1>5, <3>1 DEF StepDecl
  <2>2. Hashed(q.counts, inner.id).name = inner.id.name
      BY <1>1, <2>1, HashedName DEF RequestType
  <2>3. Key(f, p).name = At(f, p).id.name
      BY KeyName
  <2>4. At(f, p).id.name # inner.id.name
      BY <2>1 DEF TellsApart
  <2> QED BY <1>2, <1>5, <2>2, <2>3, <2>4
<1>6. m \in n.memos
  <2>1. CASE Begins(q, n) \/ Closes(f, q, n) \/ Resumes(f, q, n)
      BY <1>3, <2>1 DEF Begins, Closes, Resumes
  <2>2. CASE EntersHandler(f, q, n)
      BY <1>4, <2>2 DEF EntersHandler
  <2>3. CASE GoesOn(f, q, n)
      BY <1>3, <1>4, <2>3 DEF GoesOn
  <2>4. CASE Leaves(f, q, n)
      BY <1>1, <1>3, <1>4, <1>5, <2>4 DEF Leaves, Leaving
  <2>5. ~Ends(f, q, n)
      BY DEF Ends
  <2> QED BY <2>1, <2>2, <2>3, <2>4, <2>5 DEF Moves
<1> QED BY <1>2, <1>6 DEF Ids

\* A request stays up to date as long as nothing else is decided.
LEMMA StaysUpToDate ==
    ASSUME NEW f \in UserFunctions, TellsApart(f), NEW q, RequestOK(f, q), RequestFits(f, q),
           NEW decided, UpToDate(f, decided, q),
           NEW n \in RequestType, SameJob(q, n), Moves(f, q, n)
    PROVE  UpToDate(f, decided, n)
<1>1. n.target = q.target /\ n.dis = q.dis
    BY DEF SameJob
<1>2. ASSUME Replaying(n), ~n.dis, NEW p \in Positions(f), ~Behind(n, p), Key(f, p) \in decided
      PROVE  Key(f, p) \in Ids(n.memos)
  <2>1. n.pc # "result"
      BY <1>2 DEF Replaying
  <2>2. Replaying(q) /\ Within(f, q)
      BY <2>1, MovesFrom DEF RequestFits
  <2>3. ~Behind(q, p)
      BY <1>2, <2>1, <2>2, Passed
  <2>4. Key(f, p) \in Ids(q.memos)
      BY <1>1, <1>2, <2>2, <2>3 DEF UpToDate
  <2> QED BY <1>2, <2>1, <2>4, MemosAhead
<1>3. ASSUME n.pc = "handler", n.target = None PROVE n.hid \notin decided
  <2>1. EntersHandler(f, q, n)
      BY <1>3 DEF Moves, Begins, GoesOn, Leaves, Closes, Resumes, Ends
  <2>2. /\ AtStep(f, q) /\ ~Memoized(f, q) /\ ~MustPlan(f, q) /\ n.hid = HashedId(f, q)
        /\ Step(f, q).op = "STEP_RUN"
      BY <2>1 DEF EntersHandler, IsNew
  <2>3. ~q.dis
      BY <1>1, <1>3, <2>2 DEF MustPlan
  <2>4. Replaying(q) /\ Counts(f, q)
      BY <2>2 DEF RequestFits, AtStep, InBranch, InStage, Replaying
  <2>5. HashedId(f, q) = Key(f, Pos(q)) /\ Pos(q) \in Positions(f) /\ ~Behind(q, Pos(q))
      BY <2>2, <2>4, HashedIsKey
  <2> QED BY <2>2, <2>3, <2>4, <2>5 DEF UpToDate, Memoized
<1> QED BY <1>2, <1>3 DEF UpToDate

-----------------------------------------------------------------------------
(* Tokens, action by action.                                                *)

\* A step stays open until it is decided.
LEMMA TokenKept ==
    ASSUME NEW id, Token(id), fn' = fn, id \in known', id \notin Ids(memos')
    PROVE  Token(id)'
BY DEF Token

\* A request moves on.
LEMMA MovedTokens ==
    ASSUME Tokens, NEW r \in Requests, req[r] # Idle, req'[r] # Idle, SameJob(req[r], req'[r]),
           \A x \in Requests \ {r} : req'[x] = req[x], UNCHANGED <<fn, executor>>,
           UpToDate(fn, Ids(memos), req'[r]), Collects(fn, req'[r])
    PROVE  Tokens'
<1>1. Live' = Live /\ UNCHANGED <<fn, memos, known, asleep, queue, forcePlan>>
    BY DEF Live, executor
<1>2. \A x \in Requests : req'[x].target = req[x].target /\ req'[x].dis = req[x].dis
    BY DEF SameJob
<1>3. Live \subseteq Requests
    BY DEF Live
<1>4. \A id : Token(id) => Token(id)'
    BY <1>1 DEF Token
<1>5. TargetsOpen'
    BY <1>1, <1>2, <1>3, <1>4 DEF Tokens, TargetsOpen
<1>6. OneHolder'
    BY <1>1, <1>2, <1>3 DEF Tokens, OneHolder
<1>7. OneAtATime'
    BY <1>1, <1>2, <1>3 DEF Tokens, OneAtATime
<1>8. KnowsAll'
    BY <1>1 DEF Tokens, KnowsAll
<1>9. \A x \in Live' : UpToDate(fn', Ids(memos'), req'[x])
    BY <1>1, <1>3 DEF Tokens
<1>10. \A x \in Requests : Collects(fn', req'[x])
    BY <1>1 DEF Tokens
<1> QED BY <1>5, <1>6, <1>7, <1>8, <1>9, <1>10 DEF Tokens

\* The slot of a request is free again, and its job may go back to the queue.
LEMMA FreedTokens ==
    ASSUME Tokens, NEW r \in Requests, req[r] # Idle, req'[r] = Idle,
           \A x \in Requests \ {r} : req'[x] = req[x],
           UNCHANGED <<fn, memos, known, asleep, forcePlan>>,
           \/ queue' = queue
           \/ \E attempt : queue' = queue \union {Job(req[r].target, attempt, req[r].cause)}
    PROVE  Tokens'
<1>1. Live' = Live \ {r} /\ r \in Live
    BY DEF Live
<1>2. \A x \in Live' : req'[x] = req[x] /\ x \in Live /\ x # r
    BY <1>1 DEF Live
<1>3. \A id : Token(id) => Token(id)'
    BY DEF Token
<1>4. PICK new : /\ queue' \subseteq queue \union {new}
                 /\ new.target = req[r].target
  <2>1. CASE queue' = queue
    <3>1. Job(req[r].target, 0, None).target = req[r].target
        BY DEF Job
    <3> QED BY <2>1, <3>1
  <2>2. ASSUME NEW attempt, queue' = queue \union {Job(req[r].target, attempt, req[r].cause)}
        PROVE  \E new : queue' \subseteq queue \union {new} /\ new.target = req[r].target
    <3>1. Job(req[r].target, attempt, req[r].cause).target = req[r].target
        BY DEF Job
    <3> QED BY <2>2, <3>1
  <2> QED BY <2>1, <2>2
<1>5. TargetsOpen'
  <2>1. \A j \in queue' : j.target # None => Token(j.target)
      BY <1>1, <1>4 DEF Tokens, TargetsOpen
  <2>2. \A x \in Live' : req'[x].target # None => Token(req'[x].target)
      BY <1>1, <1>2 DEF Tokens, TargetsOpen
  <2> QED BY <1>3, <2>1, <2>2 DEF TargetsOpen
<1>6. OneHolder'
  <2>1. \A j, k \in queue' : j.target = k.target /\ j.target # None => j = k
      BY <1>1, <1>4 DEF Tokens, OneHolder
  <2>2. \A x, y \in Live' : req'[x].target = req'[y].target /\ req'[x].target # None => x = y
      BY <1>2 DEF Tokens, OneHolder
  <2>3. \A j \in queue', x \in Live' : j.target = req'[x].target => j.target = None
      BY <1>1, <1>2, <1>4 DEF Tokens, OneHolder
  <2> QED BY <2>1, <2>2, <2>3 DEF OneHolder
<1>7. OneAtATime'
  <2>1. CASE forcePlan
      BY <1>2, <2>1 DEF Tokens, OneAtATime
  <2>2. CASE ~forcePlan
    <3>1. Live' = {} /\ queue = {} /\ asleep = {}
        BY <1>1, <2>2 DEF Tokens, OneAtATime
    <3>2. \A j, k \in queue' : j = k
        BY <1>4, <3>1
    <3> QED BY <2>2, <3>1, <3>2 DEF OneAtATime
  <2> QED BY <2>1, <2>2
<1>8. KnowsAll'
    BY DEF Tokens, KnowsAll
<1>9. \A x \in Live' : UpToDate(fn', Ids(memos'), req'[x])
    BY <1>2 DEF Tokens
<1>10. \A x \in Requests : Collects(fn', req'[x])
  <2>1. Collects(fn, Idle)
      BY CollectsNothing DEF Idle, NoResult
  <2> QED BY <2>1 DEF Tokens
<1> QED BY <1>5, <1>6, <1>7, <1>8, <1>9, <1>10 DEF Tokens

\* A request is sent: it takes over the target of its job.
LEMMA SentTokens ==
    ASSUME IInv, Tokens, NEW r \in Requests, Send(r)
    PROVE  Tokens'
<1>1. PICK j \in queue :
        /\ queue' = queue \ {j}
        /\ req' = [req EXCEPT ![r] = Received(j.target, j.attempt, j.cause, memos, forcePlan)]
    BY DEF Send
<1> DEFINE n == Received(j.target, j.attempt, j.cause, memos, forcePlan)
<1>2. req[r] = Idle /\ UNCHANGED <<fn, memos, known, asleep, forcePlan>>
    BY DEF Send
<1>3. req'[r] = n /\ \A x \in Requests \ {r} : req'[x] = req[x]
    BY <1>1 DEF IInv, TypeOK
<1>4. /\ n.pc = "start" /\ n.target = j.target /\ n.dis = forcePlan /\ n.memos = memos
      /\ n.resps = <<>> /\ n.result.steps = <<>>
    BY DEF Received, Idle, NoResult
<1>5. n # Idle
    BY <1>4 DEF Idle
<1> HIDE DEF n
<1>6. Live' = Live \union {r} /\ r \notin Live
    BY <1>2, <1>3, <1>5 DEF Live
<1>7. \A x \in Live : req'[x] = req[x] /\ x # r
    BY <1>3, <1>6 DEF Live
<1>8. \A id : Token(id) => Token(id)'
    BY <1>2 DEF Token
<1>9. TargetsOpen'
  <2>1. \A k \in queue' : k.target # None => Token(k.target)
      BY <1>1 DEF Tokens, TargetsOpen
  <2>2. \A x \in Live' : req'[x].target # None => Token(req'[x].target)
      BY <1>3, <1>4, <1>6, <1>7 DEF Tokens, TargetsOpen
  <2> QED BY <1>8, <2>1, <2>2 DEF TargetsOpen
<1>10. OneHolder'
  <2>1. \A k, l \in queue' : k.target = l.target /\ k.target # None => k = l
      BY <1>1 DEF Tokens, OneHolder
  <2>2. \A x, y \in Live' : req'[x].target = req'[y].target /\ req'[x].target # None => x = y
      BY <1>3, <1>4, <1>6, <1>7 DEF Tokens, OneHolder
  <2>3. \A k \in queue', x \in Live' : k.target = req'[x].target => k.target = None
      BY <1>1, <1>3, <1>4, <1>6, <1>7 DEF Tokens, OneHolder
  <2> QED BY <2>1, <2>2, <2>3 DEF OneHolder
<1>11. OneAtATime'
  <2>1. CASE forcePlan
      BY <1>2, <1>3, <1>4, <1>6, <1>7, <2>1 DEF Tokens, OneAtATime
  <2>2. CASE ~forcePlan
    <3>1. Live = {} /\ queue' = {} /\ asleep = {}
        BY <1>1, <2>2 DEF Tokens, OneAtATime
    <3> QED BY <1>2, <1>6, <2>2, <3>1 DEF OneAtATime
  <2> QED BY <2>1, <2>2
<1>12. KnowsAll'
    BY <1>2 DEF Tokens, KnowsAll
<1>13. \A x \in Live' : UpToDate(fn', Ids(memos'), req'[x])
  <2>1. UpToDate(fn, Ids(memos), n)
      BY <1>4 DEF UpToDate
  <2> QED BY <1>2, <1>3, <1>6, <1>7, <2>1 DEF Tokens
<1>14. \A x \in Requests : Collects(fn', req'[x])
  <2>1. Collects(fn, n)
      BY <1>4, CollectsNothing
  <2> QED BY <1>2, <1>3, <2>1 DEF Tokens
<1> QED BY <1>9, <1>10, <1>11, <1>12, <1>13, <1>14 DEF Tokens

\* A step that the Executor waited for is over.
LEMMA WokenTokens ==
    ASSUME IInv, Fitting, Tokens, TellsApart(fn), Wake
    PROVE  Tokens'
<1>1. PICK s \in asleep :
        /\ asleep' = asleep \ {s}
        /\ memos' = memos \union {[id |-> s.id, out |-> "data", at |-> s.at]}
        /\ queue' = queue \union {Discovery(s.id)}
    BY DEF Wake
<1>2. UNCHANGED <<fn, req, known, forcePlan>> /\ Live' = Live
    BY DEF Wake, Live
<1>3. Ids(memos') = Ids(memos) \union {s.id}
  <2> DEFINE m == [id |-> s.id, out |-> "data", at |-> s.at]
  <2>1. m.id = s.id /\ memos' = memos \union {m}
      BY <1>1
  <2> HIDE DEF m
  <2> QED BY <2>1 DEF Ids
<1>4. Discovery(s.id).target = None
    BY DEF Discovery, Job
<1>5. ASSUME NEW id, Token(id) PROVE Token(id)'
  <2>1. PICK p \in Positions(fn) : id = Key(fn, p) /\ At(fn, p).op = "STEP_RUN"
      BY <1>5 DEF Token
  <2>2. ~InnerName(fn, id)
      BY <2>1, KeyName DEF IInv, TypeOK
  <2>3. id # s.id
      BY <2>1, <2>2 DEF Fitting, Fits, TellsApart
  <2> QED BY <1>2, <1>3, <1>5, <2>3 DEF Token
<1>6. TargetsOpen'
  <2>1. \A j \in queue' : j.target # None => Token(j.target)
      BY <1>1, <1>4 DEF Tokens, TargetsOpen
  <2>2. \A x \in Live' : req'[x].target # None => Token(req'[x].target)
      BY <1>2 DEF Tokens, TargetsOpen
  <2> QED BY <1>5, <2>1, <2>2 DEF TargetsOpen
<1>7. OneHolder'
  <2>1. \A j, k \in queue' : j.target = k.target /\ j.target # None => j = k
      BY <1>1, <1>4 DEF Tokens, OneHolder
  <2>2. \A x, y \in Live' : req'[x].target = req'[y].target /\ req'[x].target # None => x = y
      BY <1>2 DEF Tokens, OneHolder
  <2>3. \A j \in queue', x \in Live' : j.target = req'[x].target => j.target = None
      BY <1>1, <1>2, <1>4 DEF Tokens, OneHolder
  <2> QED BY <2>1, <2>2, <2>3 DEF OneHolder
<1>8. OneAtATime'
  <2>1. CASE forcePlan
      BY <1>2, <2>1 DEF Tokens, OneAtATime
  <2>2. CASE ~forcePlan
    <3>1. Live = {} /\ queue = {} /\ asleep' = {}
        BY <1>1, <2>2 DEF Tokens, OneAtATime
    <3> QED BY <1>1, <1>2, <2>2, <3>1 DEF OneAtATime
  <2> QED BY <2>1, <2>2
<1>9. KnowsAll'
    BY <1>1, <1>2, <1>3 DEF Tokens, KnowsAll
<1>10. ASSUME NEW x \in Live PROVE UpToDate(fn, Ids(memos'), req[x])
  <2>1. req[x].dis
      BY DEF Tokens, OneAtATime
  <2>2. ~(req[x].pc = "handler" /\ req[x].target = None)
      BY <2>1 DEF Tokens, Collects, Live
  <2> QED BY <2>1, <2>2 DEF UpToDate
<1>11. \A x \in Live' : UpToDate(fn', Ids(memos'), req'[x])
    BY <1>2, <1>10
<1>12. \A x \in Requests : Collects(fn', req'[x])
    BY <1>2 DEF Tokens
<1> QED BY <1>6, <1>7, <1>8, <1>9, <1>11, <1>12 DEF Tokens

\* The responses that the Executor applies.
Applies(r) ==
    /\ req[r] # Idle /\ req'[r] = Idle /\ \A x \in Requests \ {r} : req'[x] = req[x]
    /\ fn' = fn /\ ApplySteps(req[r], req[r].result.steps)

\* What a response decides is nobody else's target.
LEMMA OthersUndecided ==
    ASSUME IInv, Tokens, NEW r \in Requests, Applies(r),
           NEW id, Token(id),
           \/ \E j \in queue : id = j.target
           \/ \E x \in Live \ {r} : id = req[x].target
    PROVE  Token(id)'
<1> DEFINE q == req[r]
           resps == q.result.steps
<1>1. /\ id # None /\ id \in known /\ id \notin Ids(memos) /\ r \in Live
      /\ known \subseteq known'
  <2>1. id \in StepIds
      BY KeyName DEF Token, IInv, TypeOK
  <2> QED BY <2>1, FunctionsAssumption DEF Token, Applies, ApplySteps, Live
<1>2. ASSUME NEW i \in DOMAIN resps, Decides(resps[i]), resps[i].id = id PROVE FALSE
  <2>1. Ending(resps[i])
      BY <1>2 DEF Decides, Ending
  <2>2. CASE q.target # None
    <3>1. q.target = id
        BY <1>2, <2>2 DEF IInv, RequestOK, RespOK
    <3> QED BY <1>1, <3>1 DEF Tokens, OneHolder
  <2>3. CASE q.target = None
    <3>1. ~forcePlan
        BY <1>1, <2>1, <2>3 DEF Tokens, Collects, OneAtATime
    <3> QED BY <1>1, <3>1 DEF Tokens, OneAtATime
  <2> QED BY <2>2, <2>3
<1>3. id \notin Ids(memos')
  <2>1. ASSUME NEW m \in memos', m.id = id PROVE FALSE
    <3>1. m \in memos \/ \E i \in DOMAIN resps : Decides(resps[i]) /\ m = AsMemo(resps[i])
        BY DEF Applies, ApplySteps
    <3> QED BY <1>1, <1>2, <2>1, <3>1 DEF AsMemo, Ids
  <2> QED BY <2>1 DEF Ids
<1> QED BY <1>1, <1>3, TokenKept DEF Applies

\* What the Executor queues for a response.
LEMMA FollowUps ==
    ASSUME IInv, Fitting, Tokens, NEW r \in Requests, Applies(r), NEW q, q = req[r],
           NEW i \in DOMAIN q.result.steps, NEW resp, resp = q.result.steps[i],
           NEW j \in FollowUp(q, resp)
    PROVE  \/ j.target = None
           \/ j = Job(j.target, 0, j.target) /\ j.target \notin known /\ Token(j.target)'
           \/ /\ j = Job(q.target, q.attempt + 1, q.cause)
              /\ q.target # None /\ Token(q.target)' /\ Ending(resp)
<1> DEFINE resps == q.result.steps
<1>1. /\ r \in Live /\ q \in RequestType /\ resp \in RespType /\ fn \in UserFunctions
      /\ RespFits(fn, resp)
  <2>1. q \in RequestType
      BY DEF IInv, RequestOK
  <2>2. resps \in Seq(RespType)
      BY <2>1 DEF RequestType, ResultType
  <2>3. resp \in RespType
      BY <2>2, SeqElement
  <2> QED BY <2>1, <2>3 DEF Applies, Live, Fitting, RequestFits, IInv, TypeOK
<1>2. resp.id \in known' /\ known \subseteq known'
    BY DEF Applies, ApplySteps
<1>3. \A m \in memos' : m \in memos \/ \E k \in DOMAIN resps : Decides(resps[k]) /\ m.id = resps[k].id
  <2>1. \A m \in memos' : m \in memos \/ \E k \in DOMAIN resps : Decides(resps[k]) /\ m = AsMemo(resps[k])
      BY DEF Applies, ApplySteps
  <2> QED BY <2>1 DEF AsMemo
<1>4. \A k \in DOMAIN resps : Decides(resps[k]) => Ending(resps[k])
    BY DEF Decides, Ending
<1>5. \A k \in DOMAIN resps : Ending(resps[k]) => k = i
  <2>1. resps \in Seq(RespType)
      BY <1>1 DEF RequestType, ResultType
  <2>2. DOMAIN resps = 1 .. Len(resps)
      BY <2>1
  <2>3. \A k \in DOMAIN resps : Ending(resps[k]) => Len(resps) = 1
      BY DEF Tokens, Collects
  <2>4. i \in DOMAIN resps
      OBVIOUS
  <2> HIDE DEF resps
  <2> QED BY <2>2, <2>3, <2>4
<1>6. CASE resp.op = "PLANNED" /\ resp.id \notin known
  <2>1. j = Job(resp.id, 0, resp.id)
      BY <1>6 DEF FollowUp
  <2>2. j.target = resp.id
      BY <2>1 DEF Job
  <2>3. resp.at \in Positions(fn) /\ resp.id = Key(fn, resp.at) /\ At(fn, resp.at).op # "SLEEP"
      BY <1>1, <1>6 DEF RespFits
  <2>4. At(fn, resp.at).op = "STEP_RUN"
      BY <1>1, <2>3, PositionTyped DEF StepDecl
  <2>5. resp.id \notin Ids(memos)
      BY <1>6 DEF Tokens, KnowsAll
  <2>6. ~Ending(resp)
      BY <1>6 DEF Ending
  <2>7. resp.id \notin Ids(memos')
      BY <1>3, <1>4, <1>5, <2>5, <2>6 DEF Ids
  <2>8. Token(resp.id)'
      BY <1>2, <2>3, <2>4, <2>7 DEF Token, Applies
  <2> QED BY <1>6, <2>1, <2>2, <2>8
<1>7. CASE resp.op = "STEP_ERROR" /\ resp.retry
  <2>1. j = Job(q.target, q.attempt + 1, q.cause)
      BY <1>7 DEF FollowUp
  <2>2. j.target = q.target
      BY <2>1 DEF Job
  <2>3. ~Decides(resp) /\ Ending(resp)
      BY <1>7 DEF Decides, Ending
  <2>4. ASSUME q.target # None PROVE Token(q.target)'
    <3>1. Token(q.target)
        BY <1>1, <2>4 DEF Tokens, TargetsOpen
    <3>2. q.target \in known' /\ q.target \notin Ids(memos')
        BY <1>2, <1>3, <1>4, <1>5, <2>3, <3>1 DEF Token, Ids
    <3> QED BY <3>1, <3>2, TokenKept DEF Applies
  <2> QED BY <2>1, <2>2, <2>3, <2>4
<1>8. CASE ~(resp.op = "PLANNED" /\ resp.id \notin known) /\ ~(resp.op = "STEP_ERROR" /\ resp.retry)
  <2>1. FollowUp(q, resp) = {} \/ FollowUp(q, resp) = {Discovery(resp.id)}
      BY <1>1, <1>8 DEF FollowUp, RespType, Ops
  <2>2. Discovery(resp.id).target = None
      BY DEF Discovery, Job
  <2> QED BY <2>1, <2>2
<1> QED BY <1>6, <1>7, <1>8

\* One response queues one job at most, and none while its step sleeps.
LEMMA FollowUpOne ==
    ASSUME NEW q, NEW resp
    PROVE  /\ \A j, k \in FollowUp(q, resp) : j = k
           /\ resp.op = "SLEEP" => FollowUp(q, resp) = {}
BY DEF FollowUp

\* The Executor applies the steps of a response.
LEMMA AppliedTokens ==
    ASSUME IInv, Fitting, Tokens, NEW r \in Requests, Applies(r)
    PROVE  Tokens'
<1> PICK q : q = req[r]
    OBVIOUS
<1> DEFINE resps == q.result.steps
<1>1. /\ Live' = Live \ {r} /\ r \in Live /\ q \in RequestType /\ resps \in Seq(RespType)
      /\ fn' = fn /\ req'[r] = Idle
  <2>1. q \in RequestType
      BY DEF IInv, RequestOK
  <2> QED BY <2>1 DEF Applies, Live, RequestType, ResultType
<1>2. \A x \in Live' : req'[x] = req[x] /\ x \in Live /\ x # r
    BY <1>1 DEF Live, Applies
<1>3. \A j \in queue' : j \in queue \/ \E i \in DOMAIN resps : j \in FollowUp(q, resps[i])
    BY DEF Applies, ApplySteps
<1>4. ASSUME NEW j \in queue', j.target # None
      PROVE  \/ j \in queue
             \/ j = Job(j.target, 0, j.target) /\ j.target \notin known /\ Token(j.target)'
             \/ /\ j = Job(q.target, q.attempt + 1, q.cause) /\ j.target = q.target
                /\ q.target # None /\ Token(q.target)'
  <2>1. ASSUME NEW i \in DOMAIN resps, j \in FollowUp(q, resps[i])
        PROVE  \/ j = Job(j.target, 0, j.target) /\ j.target \notin known /\ Token(j.target)'
               \/ /\ j = Job(q.target, q.attempt + 1, q.cause)
                  /\ q.target # None /\ Token(q.target)'
    <3> PICK resp : resp = resps[i]
        OBVIOUS
    <3> QED BY <1>4, <2>1, FollowUps
  <2>2. Job(q.target, q.attempt + 1, q.cause).target = q.target
      BY DEF Job
  <2> QED BY <1>3, <2>1, <2>2
<1>5. q.target # None => q.target \in known
    BY <1>1 DEF Tokens, TargetsOpen, Token
<1> HIDE DEF resps
<1>6. TargetsOpen'
  <2>1. ASSUME NEW j \in queue', j.target # None PROVE Token(j.target)'
    <3>1. CASE j \in queue
      <4>1. Token(j.target)
          BY <2>1, <3>1 DEF Tokens, TargetsOpen
      <4> QED BY <3>1, <4>1, OthersUndecided
    <3> QED BY <1>4, <2>1, <3>1
  <2>2. ASSUME NEW x \in Live', NEW id, id = req'[x].target, id # None PROVE Token(id)'
    <3>1. x \in Live \ {r} /\ id = req[x].target
        BY <1>2, <2>2
    <3>2. Token(id)
        BY <2>2, <3>1 DEF Tokens, TargetsOpen
    <3> QED BY <3>1, <3>2, OthersUndecided
  <2> QED BY <2>1, <2>2 DEF TargetsOpen
<1>7. OneHolder'
  <2>1. ASSUME NEW j \in queue', NEW k \in queue', j.target = k.target, j.target # None
        PROVE  j = k
    <3>1. ASSUME NEW l \in queue, l.target # None PROVE l.target \in known /\ l.target # q.target
        BY <1>1, <3>1 DEF Tokens, TargetsOpen, Token, OneHolder
    <3>2. j \in queue /\ k \in queue => j = k
        BY <2>1 DEF Tokens, OneHolder
    <3> QED BY <1>4, <1>5, <2>1, <3>1, <3>2
  <2>2. \A x, y \in Live' : req'[x].target = req'[y].target /\ req'[x].target # None => x = y
      BY <1>2 DEF Tokens, OneHolder
  <2>3. ASSUME NEW j \in queue', NEW x \in Live', j.target = req'[x].target, j.target # None
        PROVE  FALSE
    <3>1. x \in Live /\ x # r /\ j.target = req[x].target /\ req[x].target \in known
        BY <1>2, <2>3 DEF Tokens, TargetsOpen, Token
    <3>2. j \notin queue
        BY <2>3, <3>1 DEF Tokens, OneHolder
    <3>3. j.target # q.target
        BY <1>1, <2>3, <3>1 DEF Tokens, OneHolder
    <3> QED BY <1>4, <2>3, <3>1, <3>2, <3>3
  <2> QED BY <2>1, <2>2, <2>3 DEF OneHolder
<1>8. OneAtATime'
  <2>1. forcePlan' = (forcePlan \/ Len(resps) > 1)
      BY DEF Applies, ApplySteps, resps
  <2>2. CASE forcePlan
      BY <1>2, <2>1, <2>2 DEF Tokens, OneAtATime
  <2>3. CASE ~forcePlan
    <3>1. Live' = {} /\ queue = {} /\ asleep = {}
        BY <1>1, <2>3 DEF Tokens, OneAtATime
    <3>2. ASSUME ~forcePlan', NEW i \in DOMAIN resps, NEW k \in DOMAIN resps PROVE i = k
      <4>1. Len(resps) \in Nat /\ ~(Len(resps) > 1) /\ DOMAIN resps = 1 .. Len(resps)
        <5>1. Len(resps) \in Nat /\ DOMAIN resps = 1 .. Len(resps)
            BY <1>1
        <5>2. ~(Len(resps) > 1)
            BY <2>1, <3>2, Zenon
        <5> QED BY <5>1, <5>2
      <4> DEFINE len == Len(resps)
      <4> HIDE DEF len
      <4>2. i \in 1 .. len /\ k \in 1 .. len /\ len \in Nat /\ ~(len > 1)
          BY <3>2, <4>1 DEF len
      <4> QED BY <4>2
    <3>3. \A s \in asleep' : \E i \in DOMAIN resps :
              resps[i].op = "SLEEP" /\ s = [id |-> resps[i].id, at |-> resps[i].at]
        BY <3>1 DEF Applies, ApplySteps, resps
    <3>4. \A j \in queue' : \E i \in DOMAIN resps : j \in FollowUp(q, resps[i])
        BY <1>3, <3>1
    <3>5. ~forcePlan' => \A j, k \in queue' : j = k
        BY <3>2, <3>4, FollowUpOne
    <3>6. ~forcePlan' => \A s, t \in asleep' : s = t
        BY <3>2, <3>3, Zenon
    <3>7. ~forcePlan' => \A j \in queue' : asleep' = {}
        BY <3>2, <3>3, <3>4, FollowUpOne
    <3> QED BY <3>1, <3>5, <3>6, <3>7 DEF OneAtATime
  <2> QED BY <2>2, <2>3
<1>9. KnowsAll'
  <2>1. /\ known' = known \union {resps[i].id : i \in DOMAIN resps}
        /\ \A s \in asleep' : s \in asleep \/ \E i \in DOMAIN resps :
              s = [id |-> resps[i].id, at |-> resps[i].at]
        /\ \A m \in memos' : m \in memos \/ \E i \in DOMAIN resps : m = AsMemo(resps[i])
      BY DEF Applies, ApplySteps, resps
  <2>2. \A m \in memos' : m.id \in known'
      BY <2>1 DEF Tokens, KnowsAll, Ids, AsMemo
  <2>3. \A s \in asleep' : s.id \in known'
      BY <2>1 DEF Tokens, KnowsAll
  <2> QED BY <2>2, <2>3 DEF KnowsAll, Ids
<1>10. ASSUME NEW x \in Live' PROVE UpToDate(fn', Ids(memos'), req'[x])
  <2>1. req[x].dis
      BY <1>1, <1>2 DEF Tokens, OneAtATime
  <2>2. ~(req[x].pc = "handler" /\ req[x].target = None)
      BY <1>2, <2>1 DEF Tokens, Collects, Live
  <2> QED BY <1>2, <2>1, <2>2 DEF UpToDate
<1>11. \A x \in Requests : Collects(fn', req'[x])
  <2>1. Collects(fn, Idle)
      BY CollectsNothing DEF Idle, NoResult
  <2> QED BY <1>1, <2>1 DEF Tokens, Applies
<1> QED BY <1>6, <1>7, <1>8, <1>9, <1>10, <1>11 DEF Tokens

\* Where a step of the SDK or a fault finds a request, and where it leaves it.
LEMMA MovingIsLive ==
    ASSUME NEW f, NEW q, NEW n, Moves(f, q, n) \/ Breaks(q, n)
    PROVE  q # Idle /\ n # Idle
<1>1. Idle.pc = "idle"
    BY DEF Idle
<1>2. q.pc \in {"start", "code", "handler", "result"} /\ n.pc \in {"code", "handler", "result"}
    BY DEF Moves, Breaks, Begins, EntersHandler, GoesOn, Leaves, Closes, Resumes, Ends, Answers,
           Raises, Responds, Skips, Leaving, Reports, IsNew, AtStep, InBranch, InStage
<1> QED BY <1>1, <1>2

\* The invariant, step by step.
LEMMA NextTokens ==
    ASSUME IInv, Fitting, Tokens, TellsApart(fn), [Next]_vars, IInv'
    PROVE  Tokens'
<1>1. fn \in UserFunctions /\ req \in [Requests -> RequestType] /\ req' \in [Requests -> RequestType]
    BY DEF IInv, TypeOK
<1>2. ASSUME NEW r \in Requests
      PROVE  RequestOK(fn, req[r]) /\ RequestFits(fn, req[r]) /\ Collects(fn, req[r])
    BY DEF IInv, Fitting, Tokens
<1>3. ASSUME NEW r \in Requests, Sdk(r) PROVE Tokens'
  <2>1. /\ Moves(fn, req[r], req'[r]) /\ \A x \in Requests \ {r} : req'[x] = req[x]
        /\ UNCHANGED <<fn, executor>>
      BY <1>3, SdkMoves
  <2>2. req[r] # Idle /\ req'[r] # Idle /\ SameJob(req[r], req'[r]) /\ req'[r] \in RequestType
      BY <1>1, <2>1, MovingIsLive DEF Moves
  <2>3. UpToDate(fn, Ids(memos), req[r])
      BY <2>2 DEF Tokens, Live
  <2>4. UpToDate(fn, Ids(memos), req'[r]) /\ Collects(fn, req'[r])
      BY <1>1, <1>2, <2>1, <2>2, <2>3, StaysUpToDate, CollectsKept
  <2> QED BY <2>1, <2>2, <2>4, MovedTokens
<1>4. ASSUME NEW r \in Requests, HookFails(r) \/ UserError(r) PROVE Tokens'
  <2>1. /\ Breaks(req[r], req'[r]) /\ SameJob(req[r], req'[r])
        /\ \A x \in Requests \ {r} : req'[x] = req[x]
        /\ UNCHANGED <<fn, executor>>
      BY <1>4, FaultMoves
  <2>2. req[r] # Idle /\ req'[r] # Idle
      BY <2>1, MovingIsLive
  <2>3. /\ req'[r].pc = "result" /\ req'[r].resps = <<>> /\ req'[r].result.steps = <<>>
      BY <2>1 DEF Breaks, ErrorResult
  <2>4. UpToDate(fn, Ids(memos), req'[r]) /\ Collects(fn, req'[r])
      BY <2>3, CollectsNothing DEF UpToDate, Replaying
  <2> QED BY <2>1, <2>2, <2>4, MovedTokens
<1>5. ASSUME NEW r \in Requests, Send(r) PROVE Tokens'
    BY <1>5, SentTokens
<1>6. ASSUME NEW r \in Requests, Lose(r) PROVE Tokens'
  <2>1. req[r] # Idle /\ req'[r] = Idle /\ (\A x \in Requests \ {r} : req'[x] = req[x])
      BY <1>1, <1>6 DEF Lose
  <2>2. UNCHANGED <<fn, memos, known, asleep, forcePlan>>
      BY <1>6 DEF Lose, Retry, executor
  <2>3. queue' = queue \/ \E n : queue' = queue \union {Job(req[r].target, n, req[r].cause)}
      BY <1>6 DEF Lose, Retry, executor
  <2> QED BY <2>1, <2>2, <2>3, FreedTokens
<1>7. ASSUME NEW r \in Requests, Apply(r) PROVE Tokens'
  <2> DEFINE q == req[r]
             res == Response(q)
  <2>1. req'[r] = Idle /\ (\A x \in Requests \ {r} : req'[x] = req[x]) /\ fn' = fn
        /\ req[r] # Idle
      BY <1>1, <1>7 DEF Apply, Idle
  <2>2. CASE run = "running" /\ res.kind = "steps" /\ ApplySteps(q, res.steps)
    <3>1. res = q.result
        BY <2>2 DEF Response, ErrorResult
    <3>2. Applies(r)
        BY <2>1, <2>2, <3>1 DEF Applies
    <3> QED BY <3>2, AppliedTokens
  <2>3. CASE /\ UNCHANGED <<memos, known, asleep, forcePlan>>
             /\ \/ queue' = queue
                \/ \E n : queue' = queue \union {Job(q.target, n, q.cause)}
      BY <2>1, <2>3, FreedTokens
  <2>4. ASSUME UNCHANGED executor
        PROVE  UNCHANGED <<memos, known, asleep, forcePlan>> /\ queue' = queue
      BY <2>4 DEF executor
  <2>5. ASSUME Retry(q, res.retry)
        PROVE  /\ UNCHANGED <<memos, known, asleep, forcePlan>>
               /\ \/ queue' = queue
                  \/ \E n : queue' = queue \union {Job(q.target, n, q.cause)}
      BY <2>5 DEF Retry
  <2> HIDE DEF res, q
  <2>6. \/ run = "running" /\ res.kind = "steps" /\ ApplySteps(q, res.steps)
        \/ UNCHANGED executor
        \/ Retry(q, res.retry)
        \/ UNCHANGED <<memos, known, asleep, queue, forcePlan>>
      BY <1>7 DEF Apply, q, res
  <2> QED BY <2>2, <2>3, <2>4, <2>5, <2>6
<1>8. ASSUME Wake PROVE Tokens'
    BY <1>8, WokenTokens
<1>9. CASE UNCHANGED vars
  <2>1. UNCHANGED <<fn, req, memos, known, asleep, queue, forcePlan>>
      BY <1>9 DEF vars, executor
  <2> QED BY <2>1 DEF Tokens, TargetsOpen, OneHolder, OneAtATime, KnowsAll, Live, Token
<1> QED BY <1>3, <1>4, <1>5, <1>6, <1>7, <1>8, <1>9 DEF Next

\* At first there is nothing but the first request to send.
LEMMA InitTokens == Init => Tokens
<1> SUFFICES ASSUME Init PROVE Tokens
    OBVIOUS
<1>1. /\ \A r \in Requests : req[r] = Idle
      /\ memos = {} /\ known = {} /\ asleep = {} /\ queue = {Discovery(None)}
      /\ forcePlan = FALSE
    BY DEF Init
<1>2. Live = {} /\ Ids(memos) = {}
    BY <1>1 DEF Live, Ids
<1>3. Discovery(None).target = None
    BY DEF Discovery, Job
<1>4. Collects(fn, Idle)
    BY CollectsNothing DEF Idle, NoResult
<1> QED BY <1>1, <1>2, <1>3, <1>4
        DEF Tokens, TargetsOpen, OneHolder, OneAtATime, KnowsAll

\* Who may run a handler, if the ids tell the steps apart: one request per
\* target, and one request at all before steps were reported together.
THEOREM TokensAlways ==
    ASSUME \A f \in UserFunctions : TellsApart(f)
    PROVE  Spec => []Tokens
<1>1. IInv /\ IInv' /\ Fitting /\ Tokens /\ [Next]_vars => Tokens'
  <2>1. IInv => fn \in UserFunctions
      BY DEF IInv, TypeOK
  <2> QED BY <2>1, NextTokens
<1> QED BY <1>1, InitTokens, Invariance, FittingAlways, PTL DEF Spec

-----------------------------------------------------------------------------
(* What ends for good.                                                      *)

\* The request that ended the handler with the step's output.
Gave(q, n) ==
    \E resp \in RespType :
        /\ resp.id = q.hid /\ resp.op = "STEP_RUN" /\ resp.out = "data"
        /\ \/ n.pc = "result" /\ n.result = StepsResult(<<resp>>)
           \/ n.pc = "code" /\ n.resps = Append(q.resps, resp)

\* What the observers see of a step of the SDK.
LEMMA SdkObserves ==
    ASSUME IInv, NEW r \in Requests, Sdk(r), NEW q, q = req[r], NEW n, n = req'[r]
    PROVE  \/ UNCHANGED observer
           \/ /\ q.pc = "handler" /\ returned' = Increment(returned, Pos(q))
              /\ condemned' = condemned /\ Gave(q, n)
           \/ /\ q.pc = "handler" /\ returned' = returned
              /\ condemned' = condemned \union {Pos(q)}
              /\ \/ "unserializable" \in Step(fn, q).outs
                 \/ /\ "nonretriable" \in Step(fn, q).outs
                    /\ Step(fn, q).caught \/ (n.pc = "result" /\ n.result = ErrorResult(FALSE))
<1>1. /\ fn \in UserFunctions /\ RequestOK(fn, q) /\ q \in RequestType
      /\ req \in [Requests -> RequestType]
    BY DEF IInv, TypeOK
<1>2. ASSUME NEW m, Replace(r, m) PROVE n = m
    BY <1>1, <1>2 DEF Replace
<1>3. ASSUME NEW out \in Outcomes, HandlerReturns(r, out)
      PROVE  \/ /\ q.pc = "handler" /\ returned' = Increment(returned, Pos(q))
                /\ condemned' = condemned /\ Gave(q, n)
             \/ /\ q.pc = "handler" /\ returned' = returned
                /\ condemned' = condemned \union {Pos(q)}
                /\ "unserializable" \in Step(fn, q).outs
  <2>1. /\ q.pc = "handler" /\ out \in Step(fn, q).outs /\ out \in {"data", "unserializable"}
        /\ returned' = IF out = "data" THEN Increment(returned, Pos(q)) ELSE returned
        /\ condemned' = IF out = "data" THEN condemned ELSE condemned \union {Pos(q)}
      BY <1>3 DEF HandlerReturns, MayEnd
  <2>2. CASE out = "data"
    <3> DEFINE resp == Resp(q.hid, "STEP_RUN", out, Pos(q), TRUE)
    <3>1. n = Interrupted(fn, q, resp)
        BY <1>2, <1>3 DEF HandlerReturns, HandlerOutput
    <3>2. resp \in RespType /\ resp.id = q.hid /\ resp.op = "STEP_RUN" /\ resp.out = "data"
      <4>1. q.hid \in StepIds /\ Pos(q) \in Seq(Nat)
          BY <1>1, <2>1, InHandler
      <4> QED BY <2>2, <4>1 DEF Resp, RespType, Ops
    <3> HIDE DEF resp
    <3>3. \/ n.pc = "result" /\ n.result = StepsResult(<<resp>>)
          \/ n.pc = "code" /\ n.resps = Append(q.resps, resp)
      <4>1. CASE Stage(fn, q).par
          BY <1>1, <3>1, <4>1, InterruptedInGroup
      <4>2. CASE ~Stage(fn, q).par
          BY <1>1, <3>1, <4>2, InterruptedAlone
      <4> QED BY <4>1, <4>2
    <3>4. Gave(q, n)
        BY <3>2, <3>3 DEF Gave
    <3> QED BY <2>1, <2>2, <3>4
  <2>3. CASE out # "data"
      BY <2>1, <2>3
  <2> QED BY <2>2, <2>3
<1>4. ASSUME NEW out \in Outcomes, HandlerBubbles(r, out)
      PROVE  \/ UNCHANGED observer
             \/ /\ q.pc = "handler" /\ returned' = returned
                /\ condemned' = condemned \union {Pos(q)}
                /\ "nonretriable" \in Step(fn, q).outs
                /\ Step(fn, q).caught \/ (n.pc = "result" /\ n.result = ErrorResult(FALSE))
  <2>1. /\ q.pc = "handler" /\ out \in Step(fn, q).outs /\ returned' = returned
        /\ condemned' = IF out = "nonretriable" THEN condemned \union {Pos(q)} ELSE condemned
      BY <1>4 DEF HandlerBubbles, MayEnd
  <2>2. CASE out = "nonretriable"
    <3> DEFINE retriable == out = "retryafter"
    <3>1. n = Raised(fn, q, retriable)
        BY <1>2, <1>4 DEF HandlerBubbles
    <3>2. retriable = FALSE
        BY <2>2
    <3> HIDE DEF retriable
    <3>3. Step(fn, q).caught \/ (n.pc = "result" /\ n.result = ErrorResult(retriable))
        BY <1>1, <3>1, RaisedFields
    <3>4. ErrorResult(retriable) = ErrorResult(FALSE)
        BY <3>2, Zenon
    <3> QED BY <2>1, <2>2, <3>3, <3>4
  <2>3. CASE out # "nonretriable"
      BY <2>1, <2>3 DEF observer
  <2> QED BY <2>2, <2>3
<1>5. CASE \/ Start(r) \/ ReplayData(r) \/ ReplayError(r) \/ SkipStep(r)
           \/ PlanStep(r) \/ ReportOp(r) \/ EnterHandler(r)
           \/ HandlerRaises(r) \/ HandlerNests(r)
           \/ BranchEnds(r) \/ GroupEnds(r) \/ FunctionReturns(r)
  <2>1. \E m : SdkStep(r, m)
      BY <1>5 DEF Start, ReplayData, ReplayError, SkipStep, PlanStep, ReportOp, EnterHandler,
                  HandlerRaises, HandlerNests, BranchEnds, GroupEnds, FunctionReturns
  <2> QED BY <2>1 DEF SdkStep
<1> QED BY <1>3, <1>4, <1>5 DEF Sdk

\* Only one request may run the handler of a step.
LEMMA HoldersAgree ==
    ASSUME IInv, Tokens, NEW p \in Positions(fn), NEW r \in Requests, NEW s \in Requests,
           Holder(req[r], p), Holder(req[s], p)
    PROVE  r = s
<1>1. r \in Live /\ s \in Live
    BY DEF Holder, Live
<1>2. Key(fn, p) # None
    BY KeyName, FunctionsAssumption DEF IInv, TypeOK
<1>3. CASE req[r].target = Key(fn, p) /\ req[s].target = Key(fn, p)
    BY <1>1, <1>2, <1>3 DEF Tokens, OneHolder
<1>4. CASE ~req[r].dis \/ ~req[s].dis
    BY <1>1, <1>4 DEF Tokens, OneAtATime
<1> QED BY <1>3, <1>4 DEF Holder

\* A request in a handler may run it, and the step is not decided.
LEMMA HandlerHolds ==
    ASSUME IInv, Fitting, Tokens, NEW r \in Requests, req[r].pc = "handler"
    PROVE  /\ Pos(req[r]) \in Positions(fn) /\ At(fn, Pos(req[r])) = Step(fn, req[r])
           /\ req[r].hid = Key(fn, Pos(req[r])) /\ Holder(req[r], Pos(req[r]))
           /\ Key(fn, Pos(req[r])) \notin Ids(memos)
<1> DEFINE q == req[r]
<1>1. fn \in UserFunctions /\ RequestOK(fn, q) /\ q \in RequestType /\ AtPosition(fn, q)
    BY DEF IInv, TypeOK, RequestOK
<1>2. Pos(q) \in Positions(fn) /\ At(fn, Pos(q)) = Step(fn, q)
    BY <1>1, Here
<1>3. q.hid = Key(fn, Pos(q))
    BY DEF Fitting, RequestFits
<1>4. q # Idle /\ r \in Live
    BY DEF Idle, Live
<1>5. CASE q.target # None
  <2>1. q.target = Key(fn, Pos(q))
      BY <1>1, <1>3, <1>5 DEF RequestOK
  <2>2. Token(q.target)
      BY <1>4, <1>5 DEF Tokens, TargetsOpen
  <2> QED BY <1>2, <1>3, <1>4, <2>1, <2>2 DEF Holder, Token
<1>6. CASE q.target = None
  <2>1. ~q.dis
      BY <1>6 DEF Tokens, Collects
  <2>2. q.hid \notin Ids(memos)
      BY <1>4, <1>6 DEF Tokens, UpToDate
  <2> QED BY <1>2, <1>3, <1>4, <1>6, <2>1, <2>2 DEF Holder
<1> QED BY <1>5, <1>6

\* The handler of a step that is over is not running.
LEMMA OverIsOver ==
    ASSUME IInv, Fitting, Tokens, NEW r \in Requests, req[r].pc = "handler"
    PROVE  ~Over(Pos(req[r]))
<1> DEFINE p == Pos(req[r])
<1>1. p \in Positions(fn) /\ Holder(req[r], p) /\ Key(fn, p) \notin Ids(memos)
    BY HandlerHolds
<1>2. ~Done(req[r], p)
    BY DEF Done
<1> HIDE DEF p
<1>3. \A s \in Requests : Holder(req[s], p) => s = r
    BY <1>1, HoldersAgree
<1>4. ~Over(p)
    BY <1>1, <1>2, <1>3 DEF Over
<1> QED BY <1>4 DEF p

\* What a request brings back it keeps until it answers.
LEMMA DoneKept ==
    ASSUME NEW q, NEW n \in RequestType, RequestOK(fn, q), RequestFits(fn, q), Collects(fn, q),
           fn \in UserFunctions, TellsApart(fn), Moves(fn, q, n), NEW p, Done(q, p)
    PROVE  Done(n, p)
<1>1. q \in RequestType /\ q.resps \in Seq(RespType)
    BY DEF RequestOK, RequestType
<1>2. q.pc = "code" /\ \E i \in DOMAIN q.resps : Gives(q.resps[i], p)
  <2>1. q.pc # "result"
      BY DEF Moves, Begins, EntersHandler, GoesOn, Leaves, Closes, Resumes, Ends, Answers,
           Raises, Responds, Skips, Leaving, Reports, IsNew, AtStep, InBranch, InStage
  <2> QED BY <2>1 DEF Done
<1>3. PICK i \in DOMAIN q.resps : Gives(q.resps[i], p)
    BY <1>2
<1>4. q.resps # <<>> /\ InStage(fn, q) /\ Stage(fn, q).par
  <2>1. q.resps # <<>>
      BY <1>1, <1>3, WhenEmpty
  <2> QED BY <2>1 DEF Collects
<1>5. q.target # None
    BY <1>3 DEF Collects, Gives, Ending
<1>6. ~EntersHandler(fn, q, n)
    BY <1>4, <1>5, NothingBeforeTarget DEF EntersHandler, IsNew, MustSkip
<1>7. CASE GoesOn(fn, q, n) \/ Closes(fn, q, n)
    BY <1>3, <1>7 DEF GoesOn, Closes, SameWork, Done
<1>8. CASE Leaves(fn, q, n)
  <2>1. n.pc = "code" /\ (n.resps = q.resps \/ \E resp \in RespType : n.resps = Append(q.resps, resp))
      BY <1>8 DEF Leaves
  <2>2. ASSUME NEW resp \in RespType, n.resps = Append(q.resps, resp)
        PROVE  i \in DOMAIN n.resps /\ n.resps[i] = q.resps[i]
    <3>1. /\ Len(n.resps) = Len(q.resps) + 1
          /\ \A k \in 1 .. Len(q.resps) : n.resps[k] = q.resps[k]
        BY <1>1, <2>2, AppendProperties
    <3>2. n.resps \in Seq(RespType)
        BY DEF RequestType
    <3> QED BY <1>1, <1>3, <3>1, <3>2
  <2> QED BY <1>3, <2>1, <2>2 DEF Done
<1>9. CASE Ends(fn, q, n)
  <2>1. n.pc = "result" /\ (n.result = ErrorResult(FALSE) \/ n.result = StepsResult(q.resps))
      BY <1>2, <1>4, <1>9 DEF Ends, Answers, Raises
  <2>2. n.result = StepsResult(q.resps) => n.result.kind = "steps" /\ n.result.steps = q.resps
      BY DEF StepsResult
  <2> QED BY <1>3, <2>1, <2>2 DEF Done
<1> QED BY <1>2, <1>4, <1>6, <1>7, <1>8, <1>9 DEF Moves, Begins, Resumes

\* A step that is over stays over while the SDK works.
LEMMA SdkKeepsOver ==
    ASSUME IInv, IInv', Fitting, Tokens, TellsApart(fn), NEW r \in Requests, Sdk(r),
           NEW p \in Positions(fn), Over(p)
    PROVE  Over(p)'
<1>1. /\ Moves(fn, req[r], req'[r]) /\ \A x \in Requests \ {r} : req'[x] = req[x]
      /\ fn' = fn /\ memos' = memos /\ run' = run
    BY SdkMoves DEF executor
<1>2. /\ fn \in UserFunctions /\ RequestOK(fn, req[r]) /\ RequestFits(fn, req[r])
      /\ Collects(fn, req[r]) /\ req'[r] \in RequestType
    BY DEF IInv, TypeOK, Fitting, Tokens
<1>3. \A x \in Requests : Holder(req[x], p) <=> Holder(req'[x], p)
  <2>1. Holder(req[r], p) <=> Holder(req'[r], p)
      BY <1>1, MovingIsLive DEF Holder, Moves, SameJob
  <2> QED BY <1>1, <2>1
<1>4. \A x \in Requests : Done(req[x], p) => Done(req'[x], p)
    BY <1>1, <1>2, DoneKept
<1> QED BY <1>1, <1>3, <1>4 DEF Over, Holder, Done, Gives

\* A step that is over stays over when the Executor takes a response.
LEMMA ApplyKeepsOver ==
    ASSUME IInv, Fitting, Tokens, NEW r \in Requests, Apply(r), NEW p \in Positions(fn), Over(p)
    PROVE  Over(p)'
<1> DEFINE q == req[r]
           res == Response(q)
<1>1. /\ q.pc = "result" /\ req'[r] = Idle /\ (\A x \in Requests \ {r} : req'[x] = req[x])
      /\ fn' = fn
    BY DEF Apply, IInv, TypeOK
<1>2. memos \subseteq memos' /\ (run # "running" => run' = run)
    BY DEF Apply, ApplySteps, Retry, executor
<1>3. \A x \in Requests : Holder(req'[x], p) => Holder(req[x], p) /\ x # r
    BY <1>1 DEF Holder
<1>4. CASE Key(fn, p) \in Ids(memos)
    BY <1>1, <1>2, <1>4 DEF Over, Ids
<1>5. CASE run # "running" /\ \A x \in Requests : ~Holder(req[x], p)
    BY <1>1, <1>2, <1>3, <1>5 DEF Over, Holder
<1>6. ASSUME NEW s \in Requests, s # r, Holder(req[s], p), Done(req[s], p) PROVE Over(p)'
  <2>1. req'[s] = req[s]
      BY <1>1, <1>6
  <2>2. Holder(req[s], p)'
      BY <1>1, <1>6, <2>1 DEF Holder
  <2>3. Done(req[s], p)'
      BY <1>1, <1>6, <2>1 DEF Done, Gives
  <2> QED BY <2>2, <2>3 DEF Over
<1>7. CASE Holder(q, p) /\ Done(q, p)
  <2>1. \A x \in Requests : ~Holder(req'[x], p)
      BY <1>3, <1>7, HoldersAgree
  <2>2. CASE run' # "running"
      BY <1>1, <2>1, <2>2 DEF Over, Holder
  <2>3. CASE q.result = ErrorResult(FALSE)
    <3>1. res = q.result /\ res.kind = "error" /\ res.retry = FALSE
      <4>1. /\ ErrorResult(FALSE).steps = <<>> /\ ErrorResult(FALSE).kind = "error"
            /\ ErrorResult(FALSE).retry = FALSE
          BY DEF ErrorResult
      <4>2. ~\E i \in DOMAIN q.result.steps : q.result.steps[i].out = "unserializable"
        <5> DEFINE steps == q.result.steps
        <5>1. steps = <<>>
            BY <2>3, <4>1
        <5> HIDE DEF steps
        <5>2. DOMAIN steps = {}
            BY <5>1
        <5> QED BY <5>2 DEF steps
      <4>3. res = q.result
          BY <4>2 DEF Response
      <4> QED BY <2>3, <4>1, <4>3
    <3> HIDE DEF res, q
    <3>2. run' # "running"
        BY <3>1 DEF Apply, Retry, executor, res, q
    <3> QED BY <2>2, <3>2
  <2>4. CASE /\ q.result.kind = "steps" /\ run = "running"
             /\ \E i \in DOMAIN q.result.steps : Gives(q.result.steps[i], p)
    <3> DEFINE resps == q.result.steps
    <3>1. PICK i \in DOMAIN resps : Gives(resps[i], p)
        BY <2>4
    <3>2. \A k \in DOMAIN resps : k = i
      <4>1. Len(resps) = 1
          BY <3>1 DEF Tokens, Collects, Gives, Ending
      <4>2. DOMAIN resps = 1 .. Len(resps)
        <5>1. resps \in Seq(RespType)
            BY DEF IInv, RequestOK, RequestType, ResultType
        <5> QED BY <5>1
      <4> HIDE DEF resps
      <4>3. DOMAIN resps = {1}
          BY <4>1, <4>2
      <4> QED BY <3>1, <4>3
    <3>3. res = q.result
        BY <3>1, <3>2 DEF Response, Gives
    <3>4. ApplySteps(q, resps)
      <4>1. res.kind = "steps" /\ res.steps = resps
          BY <2>4, <3>3
      <4> HIDE DEF res, q, resps
      <4> QED BY <2>4, <4>1 DEF Apply, res, q, resps
    <3>5. resps[i].id = Key(fn, p) /\ (Decides(resps[i]) \/ Key(fn, p) \in Ids(memos))
        BY <3>1 DEF Gives, Decides
    <3> HIDE DEF resps, q
    <3>6. Decides(resps[i]) => AsMemo(resps[i]) \in memos'
        BY <3>1, <3>4 DEF ApplySteps
    <3>7. AsMemo(resps[i]).id = resps[i].id
        BY DEF AsMemo
    <3>8. Key(fn, p) \in Ids(memos')
        BY <1>2, <3>5, <3>6, <3>7 DEF Ids
    <3> QED BY <1>1, <3>8 DEF Over
  <2>5. CASE run # "running"
      BY <1>2, <2>2, <2>5
  <2> QED BY <1>1, <1>7, <2>3, <2>4, <2>5 DEF Done
<1> QED BY <1>4, <1>5, <1>6, <1>7 DEF Over

\* A step that is over stays over when a request is sent or a sleep ends.
LEMMA RestKeepsOver ==
    ASSUME IInv, NEW p, Over(p), (\E r \in Requests : Send(r)) \/ Wake
    PROVE  Over(p)'
<1>1. run = "running" /\ fn' = fn /\ memos \subseteq memos'
    BY DEF Send, Wake
<1>2. CASE Key(fn, p) \in Ids(memos)
    BY <1>1, <1>2 DEF Over, Ids
<1>3. ASSUME NEW s \in Requests, Holder(req[s], p), Done(req[s], p) PROVE Over(p)'
  <2>1. req'[s] = req[s]
    <3>1. req[s] # Idle
        BY <1>3 DEF Holder
    <3> QED BY <3>1 DEF Send, Wake, IInv, TypeOK
  <2> QED BY <1>1, <1>3, <2>1 DEF Over, Holder, Done, Gives
<1> QED BY <1>1, <1>2, <1>3 DEF Over

\* A step without a fault in which no handler ends.
LEMMA QuietReturns ==
    ASSUME ReturnsOnce, UNCHANGED <<fn, faults, returned, condemned>>,
           \A p \in Positions(fn) : Over(p) => Over(p)'
    PROVE  ReturnsOnce'
BY DEF ReturnsOnce, Spent

\* A fault allows every handler to run once more.
LEMMA FaultReturns ==
    ASSUME IInv, ReturnsOnce, UNCHANGED <<fn, returned, condemned>>, faults' = faults + 1
    PROVE  ReturnsOnce'
<1>1. faults \in Nat /\ returned \in [Positions(fn) -> Nat]
    BY ExecutionAssumption DEF IInv, TypeOK
<1>2. ASSUME NEW p \in Positions(fn)
      PROVE  returned'[p] <= 1 + faults' /\ ~Spent(p)'
  <2>1. returned[p] \in Nat /\ returned[p] <= 1 + faults
      BY <1>1 DEF ReturnsOnce
  <2>2. returned[p] <= faults' /\ faults' # 0 /\ returned[p] <= 1 + faults' /\ ~(returned[p] > faults')
      BY <1>1, <2>1
  <2> QED BY <2>2 DEF Spent
<1> QED BY <1>2 DEF ReturnsOnce

\* A handler ends.
LEMMA EndReturns ==
    ASSUME IInv, IInv', Fitting, Tokens, TellsApart(fn), ReturnsOnce, NEW r \in Requests, Sdk(r)
    PROVE  ReturnsOnce'
<1> PICK q, n : q = req[r] /\ n = req'[r]
    OBVIOUS
<1> DEFINE at == Pos(q)
<1>1. /\ Moves(fn, q, n) /\ \A x \in Requests \ {r} : req'[x] = req[x]
      /\ fn' = fn /\ memos' = memos /\ run' = run /\ faults' = faults
    BY SdkMoves DEF executor
<1>2. /\ faults \in Nat /\ returned \in [Positions(fn) -> Nat] /\ q \in RequestType
      /\ n \in RequestType /\ fn \in UserFunctions
    BY ExecutionAssumption DEF IInv, TypeOK
<1>3. \A p \in Positions(fn) : Over(p) => Over(p)'
    BY SdkKeepsOver
<1>4. CASE UNCHANGED observer
    BY <1>1, <1>3, <1>4, QuietReturns DEF observer
<1>5. ASSUME q.pc = "handler"
      PROVE  /\ at \in Positions(fn) /\ At(fn, at) = Step(fn, q) /\ q.hid = Key(fn, at)
             /\ ~Spent(at) /\ Holder(n, at)
  <2>1. /\ at \in Positions(fn) /\ At(fn, at) = Step(fn, q) /\ q.hid = Key(fn, at)
        /\ Holder(q, at)
      BY <1>5, HandlerHolds
  <2>2. ~Over(at)
      BY <1>5, OverIsOver
  <2>3. Holder(n, at)
      BY <1>1, <2>1, MovingIsLive DEF Holder, Moves, SameJob
  <2> QED BY <2>1, <2>2, <2>3 DEF ReturnsOnce
<1> HIDE DEF at
<1>6. ASSUME Done(n, at), Holder(n, at) PROVE Over(at)'
  <2>1. Holder(req'[r], at) /\ Done(req'[r], at)
      BY <1>6
  <2> QED BY <1>1, <2>1 DEF Over, Holder, Done, Gives
<1>7. CASE /\ q.pc = "handler" /\ returned' = Increment(returned, at)
           /\ condemned' = condemned /\ Gave(q, n)
  <2>1. Done(n, at)
    <3>1. PICK resp \in RespType :
            /\ resp.id = q.hid /\ resp.op = "STEP_RUN" /\ resp.out = "data"
            /\ \/ n.pc = "result" /\ n.result = StepsResult(<<resp>>)
               \/ n.pc = "code" /\ n.resps = Append(q.resps, resp)
        BY <1>7 DEF Gave
    <3>2. Gives(resp, at)
        BY <1>5, <1>7, <3>1 DEF Gives
    <3>3. CASE n.pc = "result" /\ n.result = StepsResult(<<resp>>)
      <4>1. n.result.kind = "steps" /\ n.result.steps = <<resp>>
          BY <3>3 DEF StepsResult
      <4>2. 1 \in DOMAIN n.result.steps /\ n.result.steps[1] = resp
          BY <4>1
      <4> QED BY <3>2, <3>3, <4>1, <4>2 DEF Done
    <3>4. CASE n.pc = "code" /\ n.resps = Append(q.resps, resp)
      <4>1. q.resps \in Seq(RespType) /\ n.resps \in Seq(RespType)
          BY <1>2 DEF RequestType
      <4>2. Len(n.resps) = Len(q.resps) + 1 /\ n.resps[Len(q.resps) + 1] = resp
          BY <3>4, <4>1, AppendProperties
      <4>3. Len(q.resps) + 1 \in DOMAIN n.resps
          BY <4>1, <4>2
      <4> QED BY <3>2, <3>4, <4>2, <4>3 DEF Done
    <3> QED BY <3>1, <3>3, <3>4
  <2>2. Over(at)'
      BY <1>5, <1>6, <1>7, <2>1
  <2>3. returned[at] <= faults /\ returned[at] \in Nat
      BY <1>2, <1>5, <1>7 DEF Spent
  <2>4. ASSUME NEW p \in Positions(fn) PROVE returned'[p] <= 1 + faults' /\ (Spent(p)' => Over(p)')
    <3>1. CASE p = at
      <4>1. returned'[p] = returned[p] + 1
          BY <1>2, <1>7, <3>1 DEF Increment
      <4>2. returned'[p] <= 1 + faults'
          BY <1>1, <1>2, <2>3, <3>1, <4>1
      <4> QED BY <2>2, <3>1, <4>2
    <3>2. CASE p # at
      <4>1. returned'[p] = returned[p]
          BY <1>2, <1>7, <3>2 DEF Increment
      <4>2. Spent(p)' => Spent(p)
          BY <1>1, <1>7, <4>1 DEF Spent
      <4> QED BY <1>1, <1>3, <4>1, <4>2 DEF ReturnsOnce
    <3> QED BY <3>1, <3>2
  <2> QED BY <1>1, <2>4 DEF ReturnsOnce
<1>8. CASE /\ q.pc = "handler" /\ returned' = returned
           /\ condemned' = condemned \union {at}
           /\ \/ "unserializable" \in Step(fn, q).outs
              \/ /\ "nonretriable" \in Step(fn, q).outs
                 /\ Step(fn, q).caught \/ (n.pc = "result" /\ n.result = ErrorResult(FALSE))
  <2>1. CatchesStepErrors(fn) /\ Encodes(fn) => Done(n, at)
      BY <1>5, <1>8 DEF CatchesStepErrors, Encodes, Done
  <2>2. ASSUME NEW p \in Positions(fn) PROVE returned'[p] <= 1 + faults' /\ (Spent(p)' => Over(p)')
    <3>1. returned'[p] <= 1 + faults'
        BY <1>1, <1>8 DEF ReturnsOnce
    <3>2. CASE p = at
      <4>1. Spent(at)' => CatchesStepErrors(fn) /\ Encodes(fn)
          BY <1>1, <1>5, <1>8 DEF Spent
      <4> QED BY <1>5, <1>6, <1>8, <2>1, <3>1, <3>2, <4>1
    <3>3. CASE p # at
      <4>1. Spent(p)' => Spent(p)
          BY <1>1, <1>8, <3>3 DEF Spent
      <4> QED BY <1>3, <3>1, <4>1 DEF ReturnsOnce
    <3> QED BY <3>2, <3>3
  <2> QED BY <1>1, <2>2 DEF ReturnsOnce
<1> QED BY <1>4, <1>7, <1>8, SdkObserves DEF at

\* The invariant, step by step.
LEMMA NextReturns ==
    ASSUME IInv, IInv', Fitting, Tokens, TellsApart(fn), ReturnsOnce, [Next]_vars
    PROVE  ReturnsOnce'
<1>1. ASSUME NEW r \in Requests, HookFails(r) \/ UserError(r) PROVE ReturnsOnce'
    BY <1>1, FaultMoves, FaultReturns
<1>2. ASSUME NEW r \in Requests, Lose(r) PROVE ReturnsOnce'
    BY <1>2, FaultReturns DEF Lose, observer
<1>3. ASSUME NEW r \in Requests, Apply(r) PROVE ReturnsOnce'
  <2>1. UNCHANGED <<fn, faults, returned, condemned>>
      BY <1>3 DEF Apply, observer
  <2> QED BY <1>3, <2>1, ApplyKeepsOver, QuietReturns
<1>4. ASSUME (\E r \in Requests : Send(r)) \/ Wake PROVE ReturnsOnce'
  <2>1. UNCHANGED <<fn, faults, returned, condemned>>
      BY <1>4 DEF Send, Wake, observer
  <2>2. \A p \in Positions(fn) : Over(p) => Over(p)'
      BY <1>4, RestKeepsOver
  <2> QED BY <2>1, <2>2, QuietReturns
<1>5. CASE UNCHANGED vars
  <2>1. UNCHANGED <<fn, req, memos, run, faults, returned, condemned>>
      BY <1>5 DEF vars, executor, observer
  <2>2. \A p : Over(p) => Over(p)'
      BY <2>1 DEF Over, Holder, Done, Gives
  <2> QED BY <2>1, <2>2, QuietReturns
<1> QED BY <1>1, <1>2, <1>3, <1>4, <1>5, EndReturns DEF Next

\* At first nothing has run.
LEMMA InitReturns == Init => ReturnsOnce
<1> SUFFICES ASSUME Init PROVE ReturnsOnce
    OBVIOUS
<1>1. faults = 0 /\ condemned = {} /\ \A p \in Positions(fn) : returned[p] = 0
    BY DEF Init
<1>2. ASSUME NEW p \in Positions(fn) PROVE returned[p] <= 1 + faults /\ ~Spent(p)
  <2>1. returned[p] = 0 /\ faults = 0
      BY <1>1
  <2>2. returned[p] <= 1 + faults /\ ~(returned[p] > faults)
      BY <2>1
  <2> QED BY <1>1, <2>2 DEF Spent
<1> QED BY <1>2 DEF ReturnsOnce

\* A step whose handler returned more often than faults allow, or ended for
\* good, is over: decided, on its way to the Executor, or past a run that ended.
THEOREM ReturnsAlways ==
    ASSUME \A f \in UserFunctions : TellsApart(f)
    PROVE  Spec => []ReturnsOnce
<1>1. IInv /\ IInv' /\ Fitting /\ Tokens /\ ReturnsOnce /\ [Next]_vars => ReturnsOnce'
  <2>1. IInv => fn \in UserFunctions
      BY DEF IInv, TypeOK
  <2> QED BY <2>1, NextReturns
<1> QED BY <1>1, InitReturns, Invariance, FittingAlways, TokensAlways, PTL DEF Spec

\* AtMostOnce: the handler of a step returns once, and once more per fault, in
\* every interleaving of the requests (disable_immediate_execution, targets).
THEOREM ReturnsAtMostOnce ==
    ASSUME \A f \in UserFunctions : TellsApart(f)
    PROVE  Spec => []AtMostOnce
<1>1. ReturnsOnce => AtMostOnce
    BY DEF ReturnsOnce, AtMostOnce
<1> QED BY <1>1, ReturnsAlways, PTL

\* The handlers that run are of steps that are not over.
HandlersAlive ==
    \A r \in Requests : req[r].pc = "handler" =>
        Pos(req[r]) \in Positions(fn) /\ ~Spent(Pos(req[r]))

\* Only a step of the SDK makes a request enter a handler.
LEMMA EnteringIsSdk ==
    ASSUME IInv, Next, NEW r \in Requests, Enters(r)
    PROVE  Sdk(r)
<1>1. req \in [Requests -> RequestType] /\ req[r].pc # "handler" /\ req'[r].pc = "handler"
    BY DEF IInv, TypeOK, Enters
<1>2. \A x \in Requests : Sdk(x) \/ HookFails(x) \/ UserError(x) => x = r
    BY <1>1, SdkMoves, FaultMoves
<1>3. Idle.pc = "idle"
    BY DEF Idle
<1>4. \A x \in Requests : ~Apply(x) /\ ~Lose(x)
    BY <1>1, <1>3 DEF Apply, Lose
<1>5. ASSUME NEW x \in Requests, Send(x) PROVE FALSE
  <2>1. PICK j \in queue :
            req' = [req EXCEPT ![x] = Received(j.target, j.attempt, j.cause, memos, forcePlan)]
      BY <1>5 DEF Send
  <2> DEFINE n == Received(j.target, j.attempt, j.cause, memos, forcePlan)
  <2>2. n.pc = "start"
      BY DEF Received, Idle
  <2> HIDE DEF n
  <2>3. req' = [req EXCEPT ![x] = n]
      BY <2>1 DEF n
  <2> QED BY <1>1, <2>2, <2>3
<1>6. ~HookFails(r) /\ ~UserError(r)
    BY <1>1, FaultMoves DEF Breaks
<1>7. ~Wake
    BY <1>1 DEF Wake
<1> QED BY <1>2, <1>4, <1>5, <1>6, <1>7 DEF Next

\* NonRetriableStaysDead: while nothing fails, no handler is entered again that
\* ended with an error that forbids the retry, if the user's except clauses
\* catch step errors only and the outputs can be encoded.
THEOREM NoRetryOfTheDead ==
    ASSUME \A f \in UserFunctions : TellsApart(f) /\ CatchesStepErrors(f) /\ Encodes(f)
    PROVE  Spec => NonRetriableStaysDead
<1>0. \A f \in UserFunctions : TellsApart(f)
    OBVIOUS
<1>1. IInv /\ Fitting /\ Tokens /\ ReturnsOnce => HandlersAlive
    BY HandlerHolds, OverIsOver DEF HandlersAlive, ReturnsOnce
<1>2. ASSUME IInv, HandlersAlive', Next, NEW r \in Requests, Enters(r), faults = 0
      PROVE  Pos(req'[r]) \notin condemned
  <2>1. Sdk(r)
      BY <1>2, EnteringIsSdk
  <2>2. faults' = faults /\ fn' = fn
      BY <1>2, <2>1, SdkMoves
  <2>3. condemned \subseteq condemned'
      BY <1>2, <2>1, SdkObserves DEF observer
  <2>4. CatchesStepErrors(fn) /\ Encodes(fn)
      BY <1>2 DEF IInv, TypeOK
  <2>5. req'[r].pc = "handler"
      BY <1>2 DEF Enters
  <2>6. ~Spent(Pos(req[r]))'
      BY <1>2, <2>5 DEF HandlersAlive
  <2> QED BY <1>2, <2>2, <2>3, <2>4, <2>6 DEF Spent
<1>3. IInv /\ HandlersAlive' /\ [Next]_vars =>
        [\A r \in Requests : Enters(r) /\ faults = 0 => Pos(req'[r]) \notin condemned]_vars
    BY <1>2
<1>4. Spec => []IInv
    BY Invariance
<1>5. Spec => []Fitting
    BY <1>0, FittingAlways
<1>6. Spec => []Tokens
    BY <1>0, TokensAlways
<1>7. Spec => []ReturnsOnce
    BY <1>0, ReturnsAlways
<1> QED BY <1>1, <1>3, <1>4, <1>5, <1>6, <1>7, PTL DEF Spec, NonRetriableStaysDead

-----------------------------------------------------------------------------
(* How far the run has come: a request comes by a step once the steps before *)
(* it are decided.                                                          *)

\* The steps that the function goes on after, given what is decided.
Past(f, decided) ==
    {t \in Positions(f) :
        \E m \in decided : m.id = Key(f, t) /\ (m.out = "data" \/ At(f, t).caught)}

Ready(f, decided, p) == Before(f, p) \subseteq Past(f, decided)

\* Without a target, or with one in a later stage, a request replays its stage
\* to the end.
ReplaysStage(f, q) ==
    q.target # None => \E p \in Positions(f) : q.target = Key(f, p) /\ p[1] > q.stage

\* Where a request that replays the function has come.
Advanced(f, decided, q) ==
    /\ Ready(f, decided, Pos(q))
    /\ q.resps = <<>> /\ ReplaysStage(f, q) =>
          /\ \A t \in Positions(f) :
                t[1] = q.stage /\ t[2] < q.branch => t \in Past(f, decided)
          /\ q.outs + 1 = q.branch
    /\ \A p \in Positions(f) : q.target = Key(f, p) =>
          /\ Earlier(p, Pos(q)) => q.resps # <<>>
          /\ \A t \in Before(f, p) : ~Behind(q, t) => Key(f, t) \in Ids(q.memos)

\* What a request reports, and its target, is ready.
InOrder(f, decided, q) ==
    /\ q.memos \subseteq decided
    /\ \A i \in DOMAIN q.resps :
          q.resps[i].at \in Positions(f) => Ready(f, decided, q.resps[i].at)
    /\ \A i \in DOMAIN q.result.steps :
          q.result.steps[i].at \in Positions(f) => Ready(f, decided, q.result.steps[i].at)
    /\ q.result.kind = "return" => Positions(f) \subseteq Past(f, decided)
    /\ \A p \in Positions(f) : q.target = Key(f, p) => Ready(f, decided, p)
    /\ Replaying(q) => Advanced(f, decided, q)

Progressing ==
    /\ \A r \in Requests : InOrder(fn, memos, req[r])
    /\ \A s \in asleep : s.at \in Positions(fn) => Ready(fn, memos, s.at)
    /\ \A j \in queue, p \in Positions(fn) : j.target = Key(fn, p) => Ready(fn, memos, p)
    /\ run = "completed" => Positions(fn) \subseteq Past(fn, memos)

\* The target of a request is a step that is not decided.
Aims(f, decided, q) ==
    q.target # None =>
        q.target \notin Ids(decided) /\ \E p \in Positions(f) : q.target = Key(f, p)

-----------------------------------------------------------------------------
\* The more is decided, the more is past.
LEMMA PastGrows ==
    ASSUME NEW f, NEW decided, NEW more, decided \subseteq more
    PROVE  /\ Past(f, decided) \subseteq Past(f, more)
           /\ \A p : Ready(f, decided, p) => Ready(f, more, p)
           /\ \A q : InOrder(f, decided, q) => InOrder(f, more, q)
<1>1. Past(f, decided) \subseteq Past(f, more)
    BY DEF Past
<1>2. \A p : Ready(f, decided, p) => Ready(f, more, p)
    BY <1>1 DEF Ready
<1>3. ASSUME NEW q, Advanced(f, decided, q) PROVE Advanced(f, more, q)
    BY <1>1, <1>2, <1>3 DEF Advanced
<1> QED BY <1>1, <1>2, <1>3 DEF InOrder

\* A group that a request comes to the end of without a response is past.
LEMMA StagePast ==
    ASSUME NEW f \in UserFunctions, NEW decided, NEW q, RequestOK(f, q), RequestFits(f, q),
           InOrder(f, decided, q), Aims(f, decided, q),
           InStage(f, q), ~InBranch(f, q), q.resps = <<>>
    PROVE  /\ q.outs = Len(Stage(f, q).branches)
           /\ ReplaysStage(f, q)
           /\ \A t \in Positions(f) : t[1] <= q.stage => t \in Past(f, decided)
<1>1. /\ q.pc = "code" /\ q.stage \in DOMAIN f /\ q.branch \notin DOMAIN f[q.stage].branches
      /\ q \in RequestType
    BY DEF InStage, InBranch, Stage, RequestOK
<1>2. Within(f, q) /\ Advanced(f, decided, q)
    BY <1>1 DEF RequestFits, InOrder, Replaying
<1>3. /\ f[q.stage].branches \in Seq(Seq(StepDecl))
  <2> DEFINE StageDecl == [par : BOOLEAN, branches : Seq(Seq(StepDecl))]
  <2>1. f \in Seq(StageDecl)
      BY FunctionsAssumption
  <2>2. f[q.stage] \in StageDecl
    <3> HIDE DEF StageDecl
    <3> QED BY <1>1, <2>1, SeqElement
  <2> QED BY <2>2
<1>4. q.branch = Len(f[q.stage].branches) + 1
  <2> DEFINE len == Len(f[q.stage].branches)
  <2>1. len \in Nat /\ DOMAIN f[q.stage].branches = 1 .. len
      BY <1>3
  <2>2. q.branch \in Nat \ {0} /\ q.branch <= len + 1 /\ q.branch \notin 1 .. len
      BY <1>1, <1>2, <2>1 DEF Within
  <2> HIDE DEF len
  <2>3. q.branch = len + 1
      BY <2>1, <2>2
  <2> QED BY <2>3 DEF len
<1>5. ASSUME NEW p \in Positions(f), p[1] <= q.stage, ~(p[1] = q.stage /\ p[2] < q.branch)
      PROVE  p[1] < q.stage
  <2>1. /\ p[1] \in Nat /\ p[2] \in 1 .. Len(f[p[1]].branches)
      BY PositionTyped
  <2>2. CASE p[1] = q.stage
    <3> DEFINE len == Len(f[q.stage].branches)
    <3>1. p[2] \in 1 .. len /\ len \in Nat
        BY <1>3, <2>1, <2>2
    <3> HIDE DEF len
    <3>2. p[2] < len + 1
        BY <3>1
    <3> QED BY <1>4, <1>5, <2>2, <3>2 DEF len
  <2> QED BY <1>1, <1>5, <2>1, <2>2 DEF RequestType
<1>6. ReplaysStage(f, q)
  <2> SUFFICES ASSUME q.target # None
               PROVE  \E p \in Positions(f) : q.target = Key(f, p) /\ p[1] > q.stage
      BY DEF ReplaysStage
  <2>1. PICK p \in Positions(f) : q.target = Key(f, p)
      BY DEF Aims
  <2>2. ~Earlier(p, Pos(q))
      BY <1>2, <2>1 DEF Advanced
  <2>3. ~(p[1] < q.stage) /\ ~(p[1] = q.stage /\ p[2] < q.branch)
      BY <2>2 DEF Earlier, Pos
  <2>4. p[1] \in Nat /\ q.stage \in Nat
      BY <1>1, PositionTyped DEF RequestType
  <2> QED BY <1>5, <2>1, <2>3, <2>4
<1>7. /\ \A t \in Positions(f) : t[1] = q.stage /\ t[2] < q.branch => t \in Past(f, decided)
      /\ q.outs + 1 = q.branch
    BY <1>2, <1>6 DEF Advanced
<1>8. ASSUME NEW t \in Positions(f), t[1] < q.stage PROVE t \in Past(f, decided)
  <2>1. t \in Before(f, Pos(q))
      BY <1>8 DEF Before, Pos
  <2> QED BY <1>2, <2>1 DEF Advanced, Ready
<1>9. q.outs = Len(Stage(f, q).branches)
  <2> DEFINE len == Len(f[q.stage].branches)
  <2>1. len \in Nat /\ q.outs \in Nat
      BY <1>1, <1>3 DEF RequestType
  <2>2. q.outs + 1 = len + 1
      BY <1>4, <1>7
  <2> HIDE DEF len
  <2>3. q.outs = len
      BY <2>1, <2>2
  <2> QED BY <2>3 DEF len, Stage
<1> QED BY <1>5, <1>6, <1>7, <1>8, <1>9

\* The order of steps, in numbers.
LEMMA EarlierThan ==
    ASSUME NEW f \in UserFunctions, NEW t \in Positions(f),
           NEW s \in Nat, NEW b \in Nat, NEW i \in Nat
    PROVE  /\ Earlier(t, <<s, b, i>>) <=>
                 t[1] < s \/ (t[1] = s /\ t[2] < b) \/ (t[1] = s /\ t[2] = b /\ t[3] < i)
           /\ t \in Before(f, <<s, b, i>>) <=> t[1] < s \/ (t[1] = s /\ t[2] = b /\ t[3] < i)
           /\ t = <<s, b, i>> <=> t[1] = s /\ t[2] = b /\ t[3] = i
           /\ t[1] \in Nat \ {0} /\ t[2] \in Nat \ {0} /\ t[3] \in Nat \ {0}
<1> DEFINE len == Len(f)
           lens == Len(f[t[1]].branches)
           leni == Len(f[t[1]].branches[t[2]])
<1>1. /\ t = <<t[1], t[2], t[3]>>
      /\ t[1] \in 1 .. len /\ len \in Nat
      /\ t[2] \in 1 .. lens /\ lens \in Nat
      /\ t[3] \in 1 .. leni /\ leni \in Nat
    BY PositionTyped
<1> HIDE DEF len, lens, leni
<1>2. t[1] \in Nat \ {0} /\ t[2] \in Nat \ {0} /\ t[3] \in Nat \ {0}
    BY <1>1
<1>3. t = <<s, b, i>> <=> t[1] = s /\ t[2] = b /\ t[3] = i
    BY <1>1
<1>4. Earlier(t, <<s, b, i>>) <=>
         t[1] < s \/ (t[1] = s /\ t[2] < b) \/ (t[1] = s /\ t[2] = b /\ t[3] < i)
    BY DEF Earlier
<1>5. t \in Before(f, <<s, b, i>>) <=> t[1] < s \/ (t[1] = s /\ t[2] = b /\ t[3] < i)
    BY DEF Before
<1> QED BY <1>2, <1>3, <1>4, <1>5

\* A step that a request goes on after is past, if the function lets through
\* what no step method is memoized for.
LEMMA WentOn ==
    ASSUME NEW f \in UserFunctions, CatchesStepErrors(f), NEW decided,
           NEW q, RequestOK(f, q), RequestFits(f, q), q.memos \subseteq decided,
           NEW n, GoesOn(f, q, n)
    PROVE  /\ Pos(q) \in Past(f, decided)
           /\ Key(f, Pos(q)) \in Ids(decided)
<1>1. ASSUME q.pc = "handler", Step(f, q).caught,
             Step(f, q).outs \intersect {"nonretriable", "retryafter"} # {}
      PROVE  FALSE
  <2>1. Pos(q) \in Positions(f) /\ At(f, Pos(q)) = Step(f, q)
      BY <1>1, Here DEF RequestOK
  <2> QED BY <1>1, <2>1 DEF CatchesStepErrors
<1>2. PICK m \in q.memos : m.id = HashedId(f, q) /\ (m.out = "data" \/ Step(f, q).caught)
    BY <1>1 DEF GoesOn
<1>3. AtStep(f, q) /\ q.pc = "code"
    BY <1>1 DEF GoesOn, Reports, AtStep, InBranch, InStage
<1>4. Counts(f, q)
    BY <1>3 DEF RequestFits, Replaying
<1>5. HashedId(f, q) = Key(f, Pos(q)) /\ Pos(q) \in Positions(f) /\ At(f, Pos(q)) = Step(f, q)
    BY <1>3, <1>4, HashedIsKey
<1> QED BY <1>2, <1>5 DEF Past, Ids

\* In a group, a request skips no step that is before its target.
LEMMA NoSkipBefore ==
    ASSUME NEW f \in UserFunctions, GroupsDoNotNest(f), NEW decided,
           NEW q, RequestOK(f, q), RequestFits(f, q), InOrder(f, decided, q),
           Stage(f, q).par, Skips(f, q),
           NEW p \in Positions(f), q.target = Key(f, p)
    PROVE  Pos(q) \in Positions(f) /\ p # Pos(q) /\ Pos(q) \notin Before(f, p)
<1>1. ASSUME q.pc = "handler" PROVE Step(f, q).inner = {}
  <2>1. Pos(q) \in Positions(f) /\ At(f, Pos(q)) = Step(f, q)
      BY <1>1, Here DEF RequestOK
  <2>2. f[Pos(q)[1]].par
      BY DEF Stage, Pos
  <2> QED BY <2>1, <2>2 DEF GroupsDoNotNest
<1>2. AtStep(f, q) /\ ~Memoized(f, q) /\ q.target # HashedId(f, q)
    BY <1>1 DEF Skips, IsNew, MustSkip
<1>3. q.pc = "code"
    BY <1>2 DEF AtStep, InBranch, InStage
<1>4. Counts(f, q) /\ Advanced(f, decided, q)
    BY <1>3 DEF RequestFits, Replaying, InOrder
<1>5. HashedId(f, q) = Key(f, Pos(q)) /\ Pos(q) \in Positions(f) /\ ~Behind(q, Pos(q))
    BY <1>2, <1>4, HashedIsKey
<1>6. Pos(q) \notin Before(f, p)
    BY <1>2, <1>4, <1>5 DEF Advanced, Memoized
<1> QED BY <1>2, <1>5, <1>6

\* A request at the end of a callable is behind its last step.
LEMMA PastTheEnd ==
    ASSUME NEW f \in UserFunctions, NEW q, q \in RequestType, Within(f, q),
           InBranch(f, q), ~AtStep(f, q),
           NEW t \in Positions(f), t[1] = q.stage, t[2] = q.branch
    PROVE  t[3] < q.idx
<1> DEFINE len == Len(f[t[1]].branches[t[2]])
<1>1. t[3] \in 1 .. len /\ len \in Nat
    BY PositionTyped
<1>2. Branch(f, q) = f[t[1]].branches[t[2]]
    BY DEF Branch, Stage
<1>3. Branch(f, q) \in Seq(StepDecl)
  <2> DEFINE StageDecl == [par : BOOLEAN, branches : Seq(Seq(StepDecl))]
  <2>1. f \in Seq(StageDecl)
      BY FunctionsAssumption
  <2>2. q.stage \in DOMAIN f /\ q.branch \in DOMAIN f[q.stage].branches
      BY DEF InBranch, InStage, Stage
  <2>3. f[q.stage] \in StageDecl
    <3> HIDE DEF StageDecl
    <3> QED BY <2>1, <2>2, SeqElement
  <2>4. f[q.stage].branches \in Seq(Seq(StepDecl))
      BY <2>3
  <2> QED BY <2>2, <2>4, SeqElement DEF Branch, Stage
<1>4. q.idx \notin DOMAIN Branch(f, q)
    BY DEF AtStep
<1>5. q.idx \notin 1 .. len
    BY <1>2, <1>3, <1>4
<1>6. q.idx \in Nat \ {0}
    BY DEF Within
<1> HIDE DEF len
<1> QED BY <1>1, <1>5, <1>6

\* The steps before the one that a request comes to are past.
LEMMA ReadyKept ==
    ASSUME NEW f \in UserFunctions, CatchesStepErrors(f), NEW decided,
           NEW q, RequestOK(f, q), RequestFits(f, q), InOrder(f, decided, q),
           Aims(f, decided, q), NEW n \in RequestType, Moves(f, q, n), n.pc # "result"
    PROVE  Ready(f, decided, Pos(n))
<1>1. q \in RequestType /\ Replaying(q)
    BY MovesFrom
<1>2. Advanced(f, decided, q) /\ Ready(f, decided, Pos(q)) /\ q.memos \subseteq decided
    BY <1>1 DEF InOrder, Advanced
<1>3. q.stage \in Nat /\ q.branch \in Nat /\ q.idx \in Nat
    BY <1>1 DEF RequestType
<1>4. CASE Begins(q, n) \/ EntersHandler(f, q, n)
  <2>1. Pos(n) = Pos(q)
      BY <1>4 DEF Begins, EntersHandler, SameSpot, Pos
  <2> QED BY <1>2, <2>1
<1>5. CASE GoesOn(f, q, n)
  <2>1. Pos(q) \in Past(f, decided)
      BY <1>2, <1>5, WentOn
  <2>2. Pos(n) = <<q.stage, q.branch, q.idx + 1>> /\ Pos(q) = <<q.stage, q.branch, q.idx>>
      BY <1>5 DEF GoesOn, Pos
  <2>3. ASSUME NEW t \in Before(f, Pos(n)) PROVE t \in Before(f, Pos(q)) \/ t = Pos(q)
    <3>1. t \in Positions(f) /\ q.idx + 1 \in Nat
        BY <1>3 DEF Before
    <3>2. t[1] < q.stage \/ (t[1] = q.stage /\ t[2] = q.branch /\ t[3] < q.idx + 1)
        BY <1>3, <2>2, <2>3, <3>1, EarlierThan
    <3>3. t[1] < q.stage \/ (t[1] = q.stage /\ t[2] = q.branch /\ (t[3] < q.idx \/ t[3] = q.idx))
      <4>1. t[3] \in Nat
          BY <1>3, <3>1, EarlierThan
      <4> QED BY <1>3, <3>2, <4>1
    <3> QED BY <1>3, <2>2, <3>1, <3>3, EarlierThan
  <2> QED BY <1>2, <2>1, <2>3 DEF Ready
<1>6. CASE Leaves(f, q, n) \/ Closes(f, q, n)
  <2>1. Pos(n) = <<q.stage, q.branch + 1, 1>> /\ Pos(q) = <<q.stage, q.branch, q.idx>>
      BY <1>6 DEF Leaves, Closes, Pos
  <2>2. ASSUME NEW t \in Before(f, Pos(n)) PROVE t \in Before(f, Pos(q))
    <3>1. t \in Positions(f) /\ q.branch + 1 \in Nat /\ 1 \in Nat
        BY <1>3 DEF Before
    <3>2. t[1] < q.stage \/ t[3] < 1
        BY <1>3, <2>1, <2>2, <3>1, EarlierThan
    <3>3. t[3] \in Nat \ {0}
        BY <1>3, <3>1, EarlierThan
    <3>4. t[1] < q.stage
        BY <3>2, <3>3
    <3> QED BY <1>3, <2>1, <3>1, <3>4, EarlierThan
  <2> QED BY <1>2, <2>2 DEF Ready
<1>7. CASE Resumes(f, q, n)
  <2>1. \A t \in Positions(f) : t[1] <= q.stage => t \in Past(f, decided)
      BY <1>7, StagePast DEF Resumes
  <2>2. Pos(n) = <<q.stage + 1, 1, 1>>
      BY <1>7 DEF Resumes, Pos
  <2>3. ASSUME NEW t \in Before(f, Pos(n)) PROVE t \in Past(f, decided)
    <3>1. t \in Positions(f) /\ q.stage + 1 \in Nat /\ 1 \in Nat
        BY <1>3 DEF Before
    <3>2. t[1] < q.stage + 1 \/ t[3] < 1
        BY <2>2, <2>3, <3>1, EarlierThan
    <3>3. t[1] \in Nat /\ t[3] \in Nat \ {0}
        BY <1>3, <3>1, EarlierThan
    <3>4. t[1] <= q.stage
        BY <1>3, <3>2, <3>3
    <3> QED BY <2>1, <3>1, <3>4
  <2> QED BY <2>3 DEF Ready
<1> QED BY <1>4, <1>5, <1>6, <1>7 DEF Moves, Ends

\* A request that met no response has passed the callables of its group.
LEMMA OutputsKept ==
    ASSUME NEW f \in UserFunctions, GroupsDoNotNest(f), NEW decided,
           NEW q, RequestOK(f, q), RequestFits(f, q), InOrder(f, decided, q),
           NEW n \in RequestType, SameJob(q, n), Moves(f, q, n), n.pc # "result",
           n.resps = <<>>, ReplaysStage(f, n)
    PROVE  /\ \A t \in Positions(f) :
                 t[1] = n.stage /\ t[2] < n.branch => t \in Past(f, decided)
           /\ n.outs + 1 = n.branch
<1>1. q \in RequestType /\ Replaying(q)
    BY MovesFrom
<1>2. Advanced(f, decided, q) /\ Ready(f, decided, Pos(q))
    BY <1>1 DEF InOrder, Advanced
<1>3. q.stage \in Nat /\ q.branch \in Nat /\ q.idx \in Nat /\ q.outs \in Nat
    BY <1>1 DEF RequestType
<1>4. ASSUME n.stage = q.stage, q.resps = <<>>
      PROVE  /\ \A t \in Positions(f) :
                   t[1] = q.stage /\ t[2] < q.branch => t \in Past(f, decided)
             /\ q.outs + 1 = q.branch
  <2>1. ReplaysStage(f, q)
      BY <1>4 DEF ReplaysStage, SameJob
  <2> QED BY <1>2, <1>4, <2>1 DEF Advanced
<1>5. CASE Begins(q, n) \/ EntersHandler(f, q, n) \/ GoesOn(f, q, n)
  <2>1. n.stage = q.stage /\ n.branch = q.branch /\ n.outs = q.outs /\ q.resps = <<>>
      BY <1>5 DEF Begins, EntersHandler, GoesOn, SameSpot, SameWork
  <2> QED BY <1>4, <2>1
<1>6. CASE Leaves(f, q, n)
  <2>1. n.stage = q.stage /\ Stage(f, q).par
      BY <1>6 DEF Leaves
  <2>2. Skips(f, q)
    <3>1. \A resp \in RespType : Append(q.resps, resp) # <<>>
      <4>1. q.resps \in Seq(RespType)
          BY <1>1 DEF RequestType
      <4> QED BY <4>1, AppendProperties, Zenon
    <3> QED BY <1>6, <3>1 DEF Leaves
  <2>3. q.target # None
      BY <2>2 DEF Skips, MustSkip
  <2>4. PICK p \in Positions(f) : q.target = Key(f, p) /\ p[1] > q.stage
      BY <2>1, <2>3 DEF ReplaysStage, SameJob
  <2>5. Pos(q) \in Positions(f) /\ Pos(q) \notin Before(f, p)
      BY <2>1, <2>2, <2>4, NoSkipBefore
  <2>6. Pos(q)[1] < p[1]
    <3>1. p[1] \in Nat
        BY <1>3, EarlierThan
    <3>2. Pos(q)[1] = q.stage
        BY DEF Pos
    <3> QED BY <1>3, <2>4, <3>1, <3>2
  <2> QED BY <2>5, <2>6 DEF Before
<1>7. CASE Closes(f, q, n)
  <2>1. /\ n.stage = q.stage /\ n.branch = q.branch + 1 /\ n.outs = q.outs + 1
        /\ q.resps = <<>> /\ InBranch(f, q) /\ ~AtStep(f, q)
      BY <1>7 DEF Closes, SameWork
  <2>2. /\ \A t \in Positions(f) : t[1] = q.stage /\ t[2] < q.branch => t \in Past(f, decided)
        /\ q.outs + 1 = q.branch
      BY <1>4, <2>1
  <2>3. ASSUME NEW t \in Positions(f), t[1] = q.stage, t[2] = q.branch
        PROVE  t \in Past(f, decided)
    <3>4. t[3] < q.idx
        BY <1>1, <2>1, <2>3, PastTheEnd DEF RequestFits
    <3>5. t \in Before(f, Pos(q))
        BY <1>3, <2>3, <3>4, EarlierThan DEF Pos
    <3> QED BY <1>2, <3>5 DEF Ready
  <2>4. ASSUME NEW t \in Positions(f), t[1] = n.stage, t[2] < n.branch
        PROVE  t \in Past(f, decided)
    <3>1. t[2] \in Nat
        BY <1>3, EarlierThan
    <3>2. t[2] < q.branch \/ t[2] = q.branch
        BY <1>3, <2>1, <2>4, <3>1
    <3> QED BY <2>1, <2>2, <2>3, <2>4, <3>2
  <2>5. n.outs + 1 = n.branch
      BY <1>3, <2>1, <2>2
  <2> QED BY <2>4, <2>5
<1>8. CASE Resumes(f, q, n)
  <2>1. n.branch = 1 /\ n.outs = 0
      BY <1>8 DEF Resumes
  <2>2. ASSUME NEW t \in Positions(f), t[2] < 1 PROVE FALSE
    <3>1. t[2] \in Nat \ {0}
        BY <1>3, EarlierThan
    <3> QED BY <2>2, <3>1
  <2> QED BY <2>1, <2>2
<1> QED BY <1>5, <1>6, <1>7, <1>8 DEF Moves, Ends

\* A request does not come by its target without a response.
LEMMA TargetKept ==
    ASSUME NEW f \in UserFunctions, TellsApart(f), CatchesStepErrors(f), GroupsDoNotNest(f),
           NEW decided, NEW q, RequestOK(f, q), RequestFits(f, q), InOrder(f, decided, q),
           Aims(f, decided, q), NEW n \in RequestType, SameJob(q, n), Moves(f, q, n),
           n.pc # "result", NEW p \in Positions(f), q.target = Key(f, p), Earlier(p, Pos(n))
    PROVE  n.resps # <<>>
<1>1. q \in RequestType /\ Replaying(q)
    BY MovesFrom
<1>2. Advanced(f, decided, q) /\ q.memos \subseteq decided
    BY <1>1 DEF InOrder
<1>3. q.stage \in Nat /\ q.branch \in Nat /\ q.idx \in Nat
    BY <1>1 DEF RequestType
<1>4. ASSUME Earlier(p, Pos(q)) PROVE q.resps # <<>>
    BY <1>2, <1>4 DEF Advanced
<1>5. q.target # None
    BY KeyName, FunctionsAssumption
<1>6. Pos(q) = <<q.stage, q.branch, q.idx>>
    BY DEF Pos
<1>7. p[1] \in Nat \ {0} /\ p[2] \in Nat \ {0} /\ p[3] \in Nat \ {0}
    BY <1>3, EarlierThan
<1>8. CASE Begins(q, n) \/ EntersHandler(f, q, n)
  <2>1. Pos(n) = Pos(q) /\ n.resps = q.resps
      BY <1>8 DEF Begins, EntersHandler, SameSpot, SameWork, Pos
  <2> QED BY <1>4, <2>1
<1>9. CASE GoesOn(f, q, n)
  <2>1. Pos(n) = <<q.stage, q.branch, q.idx + 1>> /\ n.resps = q.resps
      BY <1>9 DEF GoesOn, SameWork, Pos
  <2>2. p # Pos(q)
      BY <1>2, <1>5, <1>9, WentOn DEF Aims
  <2>3. Earlier(p, Pos(q))
    <3>1. \/ p[1] < q.stage \/ (p[1] = q.stage /\ p[2] < q.branch)
          \/ (p[1] = q.stage /\ p[2] = q.branch /\ p[3] < q.idx + 1)
      <4>1. q.idx + 1 \in Nat
          BY <1>3
      <4> QED BY <1>3, <2>1, <4>1, EarlierThan
    <3>2. ~(p[1] = q.stage /\ p[2] = q.branch /\ p[3] = q.idx)
        BY <1>3, <1>6, <2>2, EarlierThan
    <3>3. \/ p[1] < q.stage \/ (p[1] = q.stage /\ p[2] < q.branch)
          \/ (p[1] = q.stage /\ p[2] = q.branch /\ p[3] < q.idx)
        BY <1>3, <1>7, <3>1, <3>2
    <3> QED BY <1>3, <1>6, <3>3, EarlierThan
  <2> QED BY <1>4, <2>1, <2>3
<1>10. CASE Leaves(f, q, n)
  <2>1. q.resps \in Seq(RespType)
      BY <1>1 DEF RequestType
  <2>2. \A resp \in RespType : Append(q.resps, resp) # <<>>
      BY <2>1, AppendProperties, Zenon
  <2> SUFFICES ASSUME Skips(f, q), n.resps = q.resps PROVE n.resps # <<>>
      BY <1>10, <2>2 DEF Leaves
  <2>3. Pos(n) = <<q.stage, q.branch + 1, 1>> /\ Stage(f, q).par
      BY <1>10 DEF Leaves, Pos
  <2>4. Pos(q) \in Positions(f) /\ p # Pos(q) /\ Pos(q) \notin Before(f, p)
      BY <2>3, NoSkipBefore
  <2>5. Earlier(p, Pos(q))
    <3>1. \/ p[1] < q.stage \/ (p[1] = q.stage /\ p[2] < q.branch + 1)
          \/ (p[1] = q.stage /\ p[2] = q.branch + 1 /\ p[3] < 1)
      <4>1. q.branch + 1 \in Nat /\ 1 \in Nat
          BY <1>3
      <4> QED BY <1>3, <2>3, <4>1, EarlierThan
    <3>2. ~(p[1] = q.stage /\ p[2] = q.branch /\ p[3] = q.idx)
        BY <1>3, <1>6, <2>4, EarlierThan
    <3>3. ~(p[1] = q.stage /\ p[2] = q.branch /\ q.idx < p[3])
      <4>1. Pos(q)[1] = q.stage /\ Pos(q)[2] = q.branch /\ Pos(q)[3] = q.idx
          BY DEF Pos
      <4> QED BY <2>4, <4>1 DEF Before
    <3>4. \/ p[1] < q.stage \/ (p[1] = q.stage /\ p[2] < q.branch)
          \/ (p[1] = q.stage /\ p[2] = q.branch /\ p[3] < q.idx)
        BY <1>3, <1>7, <3>1, <3>2, <3>3
    <3> QED BY <1>3, <1>6, <3>4, EarlierThan
  <2> QED BY <1>4, <2>5
<1>11. CASE Closes(f, q, n)
  <2>1. /\ Pos(n) = <<q.stage, q.branch + 1, 1>> /\ n.resps = q.resps
        /\ InBranch(f, q) /\ ~AtStep(f, q)
      BY <1>11 DEF Closes, SameWork, Pos
  <2>2. Earlier(p, Pos(q))
    <3>1. \/ p[1] < q.stage \/ (p[1] = q.stage /\ p[2] < q.branch + 1)
          \/ (p[1] = q.stage /\ p[2] = q.branch + 1 /\ p[3] < 1)
      <4>1. q.branch + 1 \in Nat /\ 1 \in Nat
          BY <1>3
      <4> QED BY <1>3, <2>1, <4>1, EarlierThan
    <3>2. ASSUME p[1] = q.stage, p[2] = q.branch PROVE p[3] < q.idx
        BY <1>1, <2>1, <3>2, PastTheEnd DEF RequestFits
    <3>3. \/ p[1] < q.stage \/ (p[1] = q.stage /\ p[2] < q.branch)
          \/ (p[1] = q.stage /\ p[2] = q.branch /\ p[3] < q.idx)
        BY <1>3, <1>7, <3>1, <3>2
    <3> QED BY <1>3, <1>6, <3>3, EarlierThan
  <2> QED BY <1>4, <2>1, <2>2
<1>12. CASE Resumes(f, q, n)
  <2>1. Pos(n) = <<q.stage + 1, 1, 1>> /\ InStage(f, q) /\ ~InBranch(f, q) /\ q.resps = <<>>
      BY <1>12 DEF Resumes, Pos
  <2>2. ReplaysStage(f, q)
      BY <2>1, StagePast
  <2>3. PICK t \in Positions(f) : q.target = Key(f, t) /\ t[1] > q.stage
      BY <1>5, <2>2 DEF ReplaysStage
  <2>4. t = p
      BY <2>3 DEF TellsApart
  <2>5. p[1] < q.stage + 1 \/ (p[1] = q.stage + 1 /\ p[2] < 1)
        \/ (p[1] = q.stage + 1 /\ p[2] = 1 /\ p[3] < 1)
    <3>1. q.stage + 1 \in Nat /\ 1 \in Nat
        BY <1>3
    <3> QED BY <2>1, <3>1, EarlierThan
  <2> QED BY <1>3, <1>7, <2>3, <2>4, <2>5
<1> QED BY <1>8, <1>9, <1>10, <1>11, <1>12 DEF Moves, Ends

\* A step of the SDK keeps a request in order.
LEMMA AdvancedKept ==
    ASSUME NEW f \in UserFunctions, TellsApart(f), CatchesStepErrors(f), GroupsDoNotNest(f),
           NEW decided, NEW q, RequestOK(f, q), RequestFits(f, q), InOrder(f, decided, q),
           Aims(f, decided, q), NEW n \in RequestType, SameJob(q, n), Moves(f, q, n),
           n.pc # "result"
    PROVE  Advanced(f, decided, n)
<1>1. q \in RequestType /\ Replaying(q) /\ Within(f, q) /\ Advanced(f, decided, q)
    BY MovesFrom DEF InOrder, RequestFits
<1>2. Ready(f, decided, Pos(n))
    BY ReadyKept
<1>3. n.target = q.target
    BY DEF SameJob
<1>4. ASSUME NEW p \in Positions(f), n.target = Key(f, p), NEW t \in Before(f, p), ~Behind(n, t)
      PROVE  Key(f, t) \in Ids(n.memos)
  <2>1. t \in Positions(f)
      BY DEF Before
  <2>2. ~Behind(q, t)
      BY <1>1, <1>4, <2>1, Passed
  <2>3. Key(f, t) \in Ids(q.memos)
      BY <1>1, <1>3, <1>4, <2>2 DEF Advanced
  <2> QED BY <1>4, <2>1, <2>3, MemosAhead
<1>5. ASSUME NEW p \in Positions(f), n.target = Key(f, p), Earlier(p, Pos(n))
      PROVE  n.resps # <<>>
    BY <1>3, <1>5, TargetKept
<1> QED BY <1>2, <1>4, <1>5, OutputsKept DEF Advanced

\* What says something of a step, by its key, says where the step is.
LEMMA NamesItsStep ==
    ASSUME NEW f \in UserFunctions, TellsApart(f), NEW p \in Positions(f), NEW e,
           e.id = Key(f, p), Fits(f, e) \/ RespFits(f, e)
    PROVE  e.at = p
<1>1. ~InnerName(f, e.id)
    BY KeyName
<1>2. e.at \in Positions(f) /\ e.id = Key(f, e.at)
    BY <1>1 DEF Fits, RespFits
<1> QED BY <1>2 DEF TellsApart

\* A response to a request is about where the request is, or nowhere.
LEMMA RespondsHere ==
    ASSUME NEW f \in UserFunctions, NEW decided, NEW q, RequestOK(f, q),
           InOrder(f, decided, q), NEW resp, Responds(f, q, resp), resp.at \in Positions(f)
    PROVE  Ready(f, decided, resp.at)
<1>1. q \in RequestType
    BY DEF RequestOK
<1>2. resp.at = Pos(q)
    BY <1>1, NestedNowhere DEF Responds
<1>3. q.pc \in {"code", "handler"}
    BY DEF Responds, IsNew, AtStep, InBranch, InStage
<1> QED BY <1>2, <1>3 DEF InOrder, Advanced, Replaying

\* A function that returns has come by all of its steps.
LEMMA ReturnsPast ==
    ASSUME NEW f \in UserFunctions, NEW decided, NEW q, RequestOK(f, q), RequestFits(f, q),
           InOrder(f, decided, q), q.pc = "code", ~InStage(f, q)
    PROVE  Positions(f) \subseteq Past(f, decided)
<1> DEFINE StageDecl == [par : BOOLEAN, branches : Seq(Seq(StepDecl))]
<1>1. q \in RequestType /\ Within(f, q) /\ Ready(f, decided, Pos(q))
    BY DEF RequestOK, RequestFits, InOrder, Advanced, Replaying
<1>2. f \in Seq(StageDecl)
    BY FunctionsAssumption
<1> HIDE DEF StageDecl
<1> DEFINE len == Len(f)
<1>3. len \in Nat /\ DOMAIN f = 1 .. len
    BY <1>2
<1>4. q.stage \in 1 .. len + 1 /\ q.stage \notin 1 .. len
    BY <1>1, <1>3 DEF Within, InStage
<1>5. ASSUME NEW t \in Positions(f) PROVE t[1] \in 1 .. len
    BY PositionTyped
<1> HIDE DEF len
<1>6. ASSUME NEW t \in Positions(f) PROVE t[1] < q.stage
    BY <1>3, <1>4, <1>5
<1>7. \A t \in Positions(f) : t \in Before(f, Pos(q))
    BY <1>6 DEF Before, Pos
<1> QED BY <1>1, <1>7 DEF Ready

\* A step of the SDK keeps a request in order.
LEMMA InOrderKept ==
    ASSUME NEW f \in UserFunctions, TellsApart(f), CatchesStepErrors(f), GroupsDoNotNest(f),
           NEW decided, NEW q, RequestOK(f, q), RequestFits(f, q), InOrder(f, decided, q),
           Aims(f, decided, q), NEW n \in RequestType, SameJob(q, n), Moves(f, q, n)
    PROVE  InOrder(f, decided, n)
<1>1. q \in RequestType
    BY DEF RequestOK
<1>2. n.memos \subseteq decided
    BY MemosShrink DEF InOrder
<1>3. \A i \in DOMAIN n.resps :
          (i \in DOMAIN q.resps /\ n.resps[i] = q.resps[i]) \/ Responds(f, q, n.resps[i])
    BY <1>1, NewResponses
<1>4. \A i \in DOMAIN n.result.steps :
          \/ i \in DOMAIN q.result.steps /\ n.result.steps[i] = q.result.steps[i]
          \/ i \in DOMAIN q.resps /\ n.result.steps[i] = q.resps[i]
          \/ Responds(f, q, n.result.steps[i])
    BY <1>1, NewResponses
<1>5. ASSUME NEW i \in DOMAIN n.resps, n.resps[i].at \in Positions(f)
      PROVE  Ready(f, decided, n.resps[i].at)
    BY <1>3, <1>5, RespondsHere DEF InOrder
<1>6. ASSUME NEW i \in DOMAIN n.result.steps, n.result.steps[i].at \in Positions(f)
      PROVE  Ready(f, decided, n.result.steps[i].at)
    BY <1>4, <1>6, RespondsHere DEF InOrder
<1>7. ASSUME n.result.kind = "return" PROVE Positions(f) \subseteq Past(f, decided)
  <2>1. CASE n.result = q.result
      BY <1>7, <2>1 DEF InOrder
  <2>2. CASE Ends(f, q, n)
    <3>1. \A resps : StepsResult(resps).kind # "return"
        BY DEF StepsResult
    <3>2. \A retriable : ErrorResult(retriable).kind # "return"
        BY DEF ErrorResult
    <3>3. q.pc = "code" /\ ~InStage(f, q)
        BY <1>7, <2>2, <3>1, <3>2 DEF Ends, Answers, Raises
    <3> QED BY <3>3, ReturnsPast
  <2> QED BY <2>1, <2>2
        DEF Moves, Begins, EntersHandler, GoesOn, Leaves, Closes, Resumes, SameWork
<1>8. \A p \in Positions(f) : n.target = Key(f, p) => Ready(f, decided, p)
    BY DEF InOrder, SameJob
<1>9. Replaying(n) => Advanced(f, decided, n)
    BY AdvancedKept DEF Replaying
<1> QED BY <1>2, <1>5, <1>6, <1>7, <1>8, <1>9 DEF InOrder

\* A call that broke brings nothing back.
LEMMA InOrderBroken ==
    ASSUME NEW f, NEW decided, NEW q, InOrder(f, decided, q), NEW n, Breaks(q, n), SameJob(q, n)
    PROVE  InOrder(f, decided, n)
<1>1. /\ n.pc = "result" /\ n.resps = <<>> /\ n.memos = q.memos /\ n.target = q.target
      /\ n.result.kind = "error" /\ n.result.steps = <<>>
    BY DEF Breaks, SameJob, ErrorResult
<1> QED BY <1>1 DEF InOrder, Replaying

\* A request that was just received stands before the first step.
LEMMA InOrderFresh ==
    ASSUME NEW f \in UserFunctions, NEW decided, NEW target, NEW attempt, NEW cause, NEW dis,
           \A p \in Positions(f) : target = Key(f, p) => Ready(f, decided, p)
    PROVE  /\ InOrder(f, decided, Idle)
           /\ InOrder(f, decided, Received(target, attempt, cause, decided, dis))
<1>1. \A p \in Positions(f) : Key(f, p) # None
    BY KeyName, FunctionsAssumption
<1>2. InOrder(f, decided, Idle)
  <2> DEFINE q == Idle
  <2>1. /\ q.pc = "idle" /\ q.target = None /\ q.memos = {} /\ q.resps = <<>>
        /\ q.result.kind = "none" /\ q.result.steps = <<>>
      BY DEF Idle, NoResult
  <2> HIDE DEF q
  <2>2. InOrder(f, decided, q)
    <3>1. ~Replaying(q)
        BY <2>1 DEF Replaying
    <3>2. \A p \in Positions(f) : q.target # Key(f, p)
        BY <1>1, <2>1
    <3>3. DOMAIN q.resps = {} /\ DOMAIN q.result.steps = {}
        BY <2>1
    <3> QED BY <2>1, <3>1, <3>2, <3>3 DEF InOrder
  <2> QED BY <2>2 DEF q
<1> DEFINE n == Received(target, attempt, cause, decided, dis)
<1>3. /\ n.pc = "start" /\ n.target = target /\ n.memos = decided /\ n.resps = <<>>
      /\ n.result.kind = "none" /\ n.result.steps = <<>> /\ n.outs = 0
      /\ n.stage = 1 /\ n.branch = 1 /\ n.idx = 1
    BY DEF Received, Idle, NoResult
<1> HIDE DEF n
<1>4. Pos(n) = <<1, 1, 1>>
    BY <1>3 DEF Pos
<1>5. ASSUME NEW t \in Positions(f) PROVE ~Earlier(t, Pos(n)) /\ t \notin Before(f, Pos(n)) /\ ~(t[2] < 1)
  <2>1. /\ t[1] \in Nat \ {0} /\ t[2] \in Nat \ {0} /\ t[3] \in Nat \ {0}
        /\ Earlier(t, <<1, 1, 1>>) => t[1] < 1 \/ t[2] < 1 \/ t[3] < 1
        /\ t \in Before(f, <<1, 1, 1>>) => t[1] < 1 \/ t[3] < 1
      BY EarlierThan
  <2> QED BY <1>4, <2>1
<1>6. ASSUME NEW p \in Positions(f), target = Key(f, p), NEW t \in Before(f, p)
      PROVE  Key(f, t) \in Ids(decided)
  <2>1. t \in Past(f, decided)
      BY <1>6 DEF Ready
  <2> QED BY <2>1 DEF Past, Ids
<1>7. Ready(f, decided, Pos(n))
  <2>1. Before(f, Pos(n)) \subseteq Positions(f)
      BY DEF Before
  <2> QED BY <1>5, <2>1 DEF Ready
<1>8. Advanced(f, decided, n)
    BY <1>3, <1>5, <1>6, <1>7 DEF Advanced
<1> QED BY <1>2, <1>3, <1>8 DEF InOrder, n

\* What the Executor queues is discovery, the step reported, or a retry.
LEMMA FollowUpTargets ==
    ASSUME NEW q, NEW resp, NEW j \in FollowUp(q, resp)
    PROVE  j.target \in {None, resp.id, q.target}
BY DEF FollowUp, Job, Discovery

\* The targets of requests, from the invariant of tokens.
LEMMA RequestsAim ==
    ASSUME Tokens, NEW r \in Requests
    PROVE  Aims(fn, memos, req[r])
<1>1. CASE req[r] = Idle
  <2>1. Idle.target = None
      BY DEF Idle
  <2> QED BY <1>1, <2>1 DEF Aims
<1>2. CASE req[r] # Idle
    BY <1>2 DEF Tokens, TargetsOpen, Live, Token, Aims
<1> QED BY <1>1, <1>2

\* One request changes and stays in order; what the Executor holds is as it was.
LEMMA ReplacedProgress ==
    ASSUME Progressing, NEW r \in Requests, fn' = fn,
           \A x \in Requests \ {r} : req'[x] = req[x], InOrder(fn, memos, req'[r]),
           UNCHANGED <<memos, asleep>>, queue' \subseteq queue,
           run' = "completed" => Positions(fn) \subseteq Past(fn, memos)
    PROVE  Progressing'
BY DEF Progressing

\* A request ends, and is repeated at most.
LEMMA RepeatedProgress ==
    ASSUME Progressing, NEW r \in Requests, fn \in UserFunctions, fn' = fn,
           \A x \in Requests \ {r} : req'[x] = req[x], req'[r] = Idle,
           UNCHANGED <<memos, asleep>>,
           \/ queue' = queue
           \/ \E n : queue' = queue \union {Job(req[r].target, n, req[r].cause)},
           run' = "completed" => Positions(fn) \subseteq Past(fn, memos)
    PROVE  Progressing'
<1>1. InOrder(fn, memos, Idle)
  <2>1. \A p \in Positions(fn) : None # Key(fn, p)
      BY KeyName, FunctionsAssumption
  <2> QED BY <2>1, InOrderFresh
<1>2. \A x \in Requests : InOrder(fn, memos, req'[x])
    BY <1>1 DEF Progressing
<1>3. \A j \in queue' : j \in queue \/ j.target = req[r].target
    BY DEF Job
<1>4. \A j \in queue', p \in Positions(fn) : j.target = Key(fn, p) => Ready(fn, memos, p)
    BY <1>3 DEF Progressing, InOrder
<1> QED BY <1>2, <1>4 DEF Progressing

\* What is put to sleep is a sleep that the response reports for the first time.
LEMMA FallsAsleep ==
    ASSUME NEW q, NEW resps, ApplySteps(q, resps), NEW s \in asleep', s \notin asleep
    PROVE  \E k \in DOMAIN resps :
              /\ resps[k].op = "SLEEP" /\ resps[k].id \notin known
              /\ s.id = resps[k].id /\ s.at = resps[k].at
<1>1. asleep' = asleep \union
         {[id |-> resps[i].id, at |-> resps[i].at] :
             i \in {k \in DOMAIN resps : resps[k].op = "SLEEP" /\ resps[k].id \notin known}}
    BY DEF ApplySteps
<1>2. PICK k \in DOMAIN resps :
          /\ resps[k].op = "SLEEP" /\ resps[k].id \notin known
          /\ s = [id |-> resps[k].id, at |-> resps[k].at]
    BY <1>1
<1> QED BY <1>2

\* The Executor applies the steps of a response.
LEMMA AppliedProgress ==
    ASSUME IInv, Fitting, TellsApart(fn), Progressing, NEW r \in Requests, Applies(r),
           run = "running"
    PROVE  Progressing'
<1> DEFINE q == req[r]
           resps == q.result.steps
<1>1. /\ fn \in UserFunctions /\ fn' = fn /\ run = "running"
      /\ (\A x \in Requests \ {r} : req'[x] = req[x]) /\ req'[r] = Idle
      /\ ApplySteps(q, resps)
    BY DEF Applies, IInv, TypeOK
<1>2. InOrder(fn, memos, q) /\ RequestFits(fn, q)
    BY DEF Progressing, Fitting
<1>3. ASSUME NEW i \in DOMAIN resps, NEW p \in Positions(fn), resps[i].id = Key(fn, p)
      PROVE  Ready(fn, memos, p)
  <2>1. RespFits(fn, resps[i])
      BY <1>2 DEF RequestFits
  <2>2. resps[i].at = p
      BY <1>1, <1>3, <2>1, NamesItsStep
  <2> QED BY <1>2, <2>2 DEF InOrder
<1>4. memos \subseteq memos'
    BY <1>1 DEF ApplySteps
<1>5. \A p : Ready(fn, memos, p) => Ready(fn, memos', p)
    BY <1>4, PastGrows
<1>6. InOrder(fn, memos, Idle)
  <2>1. \A p \in Positions(fn) : None # Key(fn, p)
      BY <1>1, KeyName, FunctionsAssumption
  <2> QED BY <1>1, <2>1, InOrderFresh
<1>7. \A x \in Requests : InOrder(fn, memos, req'[x])
    BY <1>1, <1>6 DEF Progressing
<1>8. \A x \in Requests : InOrder(fn, memos', req'[x])
    BY <1>4, <1>7, PastGrows
<1>9. ASSUME NEW s \in asleep', s.at \in Positions(fn) PROVE Ready(fn, memos, s.at)
  <2>1. s \in asleep \/ \E i \in DOMAIN resps : s.at = resps[i].at
      BY <1>1, <1>9, FallsAsleep
  <2> QED BY <1>2, <1>9, <2>1 DEF Progressing, InOrder
<1>10. ASSUME NEW j \in queue', NEW p \in Positions(fn), j.target = Key(fn, p)
       PROVE  Ready(fn, memos, p)
  <2>1. CASE j \in queue
      BY <1>10, <2>1 DEF Progressing
  <2>2. CASE j \notin queue
    <3>1. PICK i \in DOMAIN resps : j \in FollowUp(q, resps[i])
        BY <1>1, <2>2 DEF ApplySteps
    <3>2. j.target \in {None, resps[i].id, q.target}
        BY <3>1, FollowUpTargets
    <3>3. Key(fn, p) # None
        BY <1>1, KeyName, FunctionsAssumption
    <3> QED BY <1>2, <1>3, <1>10, <3>2, <3>3 DEF InOrder
  <2> QED BY <2>1, <2>2
<1>11. run' = "running"
    BY <1>1 DEF ApplySteps
<1> QED BY <1>1, <1>5, <1>8, <1>9, <1>10, <1>11 DEF Progressing

\* The invariant, step by step.
LEMMA NextProgress ==
    ASSUME IInv, Fitting, Tokens, TellsApart(fn), CatchesStepErrors(fn), GroupsDoNotNest(fn),
           Progressing, [Next]_vars, IInv'
    PROVE  Progressing'
<1>1. fn \in UserFunctions /\ req \in [Requests -> RequestType] /\ req' \in [Requests -> RequestType]
    BY DEF IInv, TypeOK
<1>2. ASSUME NEW r \in Requests
      PROVE  /\ RequestOK(fn, req[r]) /\ RequestFits(fn, req[r]) /\ InOrder(fn, memos, req[r])
             /\ Aims(fn, memos, req[r])
    BY RequestsAim DEF IInv, Fitting, Progressing
<1>3. run = "completed" => Positions(fn) \subseteq Past(fn, memos)
    BY DEF Progressing
<1>4. ASSUME NEW r \in Requests, Sdk(r) PROVE Progressing'
  <2>1. /\ Moves(fn, req[r], req'[r]) /\ \A x \in Requests \ {r} : req'[x] = req[x]
        /\ UNCHANGED <<fn, executor>>
      BY <1>4, SdkMoves
  <2>2. SameJob(req[r], req'[r]) /\ req'[r] \in RequestType
      BY <1>1, <2>1 DEF Moves
  <2>3. InOrder(fn, memos, req'[r])
      BY <1>1, <1>2, <2>1, <2>2, InOrderKept
  <2> QED BY <1>3, <2>1, <2>3, ReplacedProgress DEF executor
<1>5. ASSUME NEW r \in Requests, HookFails(r) \/ UserError(r) PROVE Progressing'
  <2>1. /\ Breaks(req[r], req'[r]) /\ SameJob(req[r], req'[r])
        /\ \A x \in Requests \ {r} : req'[x] = req[x]
        /\ UNCHANGED <<fn, executor>>
      BY <1>5, FaultMoves
  <2>2. InOrder(fn, memos, req'[r])
      BY <1>2, <2>1, InOrderBroken
  <2> QED BY <1>3, <2>1, <2>2, ReplacedProgress DEF executor
<1>6. ASSUME NEW r \in Requests, Send(r) PROVE Progressing'
  <2>1. PICK j \in queue :
            /\ queue' = queue \ {j}
            /\ req' = [req EXCEPT ![r] =
                          Received(j.target, j.attempt, j.cause, memos, forcePlan)]
      BY <1>6 DEF Send
  <2>2. UNCHANGED <<fn, memos, asleep, run>>
      BY <1>6 DEF Send
  <2>3. req'[r] = Received(j.target, j.attempt, j.cause, memos, forcePlan)
        /\ \A x \in Requests \ {r} : req'[x] = req[x]
      BY <1>1, <2>1
  <2>4. \A p \in Positions(fn) : j.target = Key(fn, p) => Ready(fn, memos, p)
      BY DEF Progressing
  <2>5. InOrder(fn, memos, req'[r])
      BY <1>1, <2>3, <2>4, InOrderFresh
  <2> QED BY <1>3, <2>1, <2>2, <2>3, <2>5, ReplacedProgress
<1>7. ASSUME NEW r \in Requests, Lose(r) PROVE Progressing'
  <2>1. req'[r] = Idle /\ (\A x \in Requests \ {r} : req'[x] = req[x])
      BY <1>1, <1>7 DEF Lose
  <2>2. UNCHANGED <<fn, memos, asleep>>
      BY <1>7 DEF Lose, Retry, executor
  <2>3. queue' = queue \/ \E n : queue' = queue \union {Job(req[r].target, n, req[r].cause)}
      BY <1>7 DEF Lose, Retry, executor
  <2>4. run' = "completed" => run = "completed"
      BY <1>7 DEF Lose, Retry, executor
  <2> QED BY <1>1, <1>3, <2>1, <2>2, <2>3, <2>4, RepeatedProgress
<1>8. ASSUME NEW r \in Requests, Apply(r) PROVE Progressing'
  <2> DEFINE q == req[r]
             res == Response(q)
  <2>1. req'[r] = Idle /\ (\A x \in Requests \ {r} : req'[x] = req[x]) /\ fn' = fn
        /\ req[r] # Idle
      BY <1>1, <1>8 DEF Apply, Idle
  <2>2. CASE run = "running" /\ res.kind = "steps" /\ ApplySteps(q, res.steps)
    <3>1. res = q.result
        BY <2>2 DEF Response, ErrorResult
    <3>2. Applies(r)
        BY <2>1, <2>2, <3>1 DEF Applies
    <3> QED BY <2>2, <3>2, AppliedProgress
  <2>3. ASSUME UNCHANGED <<memos, asleep>>,
               \/ queue' = queue
               \/ \E n : queue' = queue \union {Job(q.target, n, q.cause)},
               run' = "completed" => Positions(fn) \subseteq Past(fn, memos)
        PROVE  Progressing'
      BY <1>1, <2>1, <2>3, RepeatedProgress
  <2>4. CASE UNCHANGED executor
      BY <1>3, <2>3, <2>4 DEF executor
  <2>5. CASE Retry(q, res.retry)
    <3>1. /\ UNCHANGED <<memos, asleep>>
          /\ \/ queue' = queue
             \/ \E n : queue' = queue \union {Job(q.target, n, q.cause)}
          /\ run' = "completed" => run = "completed"
        BY <2>5 DEF Retry
    <3> QED BY <1>3, <2>3, <3>1
  <2>6. CASE res.kind = "return" /\ UNCHANGED <<memos, known, asleep, queue, forcePlan>>
    <3>1. res = q.result
        BY <2>6 DEF Response, ErrorResult
    <3>2. Positions(fn) \subseteq Past(fn, memos)
        BY <1>2, <2>6, <3>1 DEF InOrder
    <3> QED BY <2>3, <2>6, <3>2
  <2> HIDE DEF res, q
  <2>7. \/ run = "running" /\ res.kind = "steps" /\ ApplySteps(q, res.steps)
        \/ UNCHANGED executor
        \/ Retry(q, res.retry)
        \/ res.kind = "return" /\ UNCHANGED <<memos, known, asleep, queue, forcePlan>>
      BY <1>8 DEF Apply, q, res
  <2> QED BY <2>2, <2>4, <2>5, <2>6, <2>7
<1>9. ASSUME Wake PROVE Progressing'
  <2>1. PICK s \in asleep :
            /\ asleep' = asleep \ {s}
            /\ memos' = memos \union {[id |-> s.id, out |-> "data", at |-> s.at]}
            /\ queue' = queue \union {Discovery(s.id)}
      BY <1>9 DEF Wake
  <2>2. UNCHANGED <<fn, req, run>> /\ run = "running"
      BY <1>9 DEF Wake
  <2>3. memos \subseteq memos'
      BY <2>1
  <2>4. /\ \A p : Ready(fn, memos, p) => Ready(fn, memos', p)
        /\ \A q : InOrder(fn, memos, q) => InOrder(fn, memos', q)
      BY <2>3, PastGrows
  <2>5. \A j \in queue' : j \in queue \/ j.target = None
      BY <2>1 DEF Discovery, Job
  <2>6. \A p \in Positions(fn) : Key(fn, p) # None
      BY <1>1, KeyName, FunctionsAssumption
  <2> QED BY <2>1, <2>2, <2>4, <2>5, <2>6 DEF Progressing
<1>10. CASE UNCHANGED vars
    BY <1>10 DEF vars, executor, Progressing
<1> QED BY <1>4, <1>5, <1>6, <1>7, <1>8, <1>9, <1>10 DEF Next

\* At first no step is decided and no request has come by one.
LEMMA InitProgress == Init => Progressing
<1> SUFFICES ASSUME Init PROVE Progressing
    OBVIOUS
<1>1. fn \in UserFunctions /\ memos = {} /\ asleep = {} /\ run = "running"
      /\ (\A j \in queue : j.target = None) /\ (\A r \in Requests : req[r] = Idle)
    BY DEF Init, Discovery, Job
<1>2. \A p \in Positions(fn) : Key(fn, p) # None
    BY <1>1, KeyName, FunctionsAssumption
<1>3. InOrder(fn, memos, Idle)
    BY <1>1, <1>2, InOrderFresh
<1> QED BY <1>1, <1>2, <1>3 DEF Progressing

\* A request comes by a step once the steps before it are decided, and what it
\* reports is ready: the user's function runs in its order, whatever the order
\* of the requests.
THEOREM ProgressAlways ==
    ASSUME \A f \in UserFunctions :
              TellsApart(f) /\ CatchesStepErrors(f) /\ GroupsDoNotNest(f)
    PROVE  Spec => []Progressing
<1>1. \A f \in UserFunctions : TellsApart(f)
    OBVIOUS
<1>2. IInv /\ IInv' /\ Fitting /\ Tokens /\ Progressing /\ [Next]_vars => Progressing'
  <2>1. IInv => fn \in UserFunctions
      BY DEF IInv, TypeOK
  <2> QED BY <2>1, NextProgress
<1>3. Spec => []Fitting
    BY <1>1, FittingAlways
<1>4. Spec => []Tokens
    BY <1>1, TokensAlways
<1>5. Spec => []IInv
    BY Invariance
<1> QED BY <1>2, <1>3, <1>4, <1>5, InitProgress, PTL DEF Spec

\* GroupsReturnEverything: Group.parallel returns one output per callable, if
\* the ids tell the steps apart, except clauses catch step errors only and no
\* handler calls a step in a group.
THEOREM GroupsAreComplete ==
    ASSUME \A f \in UserFunctions :
              TellsApart(f) /\ CatchesStepErrors(f) /\ GroupsDoNotNest(f)
    PROVE  Spec => []GroupsReturnEverything
<1>1. \A f \in UserFunctions : TellsApart(f)
    OBVIOUS
<1>2. IInv /\ Fitting /\ Tokens /\ Progressing => GroupsReturnEverything
  <2> SUFFICES ASSUME IInv, Fitting, Tokens, Progressing, NEW r \in Requests,
                      InStage(fn, req[r]), ~InBranch(fn, req[r]), req[r].resps = <<>>
               PROVE  req[r].outs = Len(Stage(fn, req[r]).branches)
      BY DEF GroupsReturnEverything
  <2>1. /\ fn \in UserFunctions /\ RequestOK(fn, req[r]) /\ RequestFits(fn, req[r])
        /\ InOrder(fn, memos, req[r]) /\ Aims(fn, memos, req[r])
      BY RequestsAim DEF IInv, TypeOK, Fitting, Progressing
  <2> QED BY <2>1, StagePast
<1>3. Spec => []Fitting
    BY <1>1, FittingAlways
<1>4. Spec => []Tokens
    BY <1>1, TokensAlways
<1>5. Spec => []IInv
    BY Invariance
<1>6. Spec => []Progressing
    BY ProgressAlways
<1> QED BY <1>2, <1>3, <1>4, <1>5, <1>6, PTL

-----------------------------------------------------------------------------
(* A step is decided once.                                                  *)

\* What a step.run reports, its handler may end with.
Genuine(f, resp) == resp.op = "STEP_RUN" => resp.out \in At(f, resp.at).outs

\* What is decided stays as it is.
DecidedOnce ==
    /\ \A m, n \in memos : m.id = n.id => m = n
    /\ \A s \in asleep : s.id \notin Ids(memos)
    /\ \A m \in memos : m.out = "data" /\ m.at \in Positions(fn) =>
          At(fn, m.at).op = "SLEEP" \/ "data" \in At(fn, m.at).outs
    /\ \A r \in Requests :
          /\ \A i \in DOMAIN req[r].resps : Genuine(fn, req[r].resps[i])
          /\ \A i \in DOMAIN req[r].result.steps : Genuine(fn, req[r].result.steps[i])

\* A response decides one step at most.
LEMMA OneDecision ==
    ASSUME Tokens, NEW r \in Requests, NEW q, q = req[r], q \in RequestType,
           ApplySteps(q, q.result.steps)
    PROVE  \/ memos' = memos
           \/ \E i \in DOMAIN q.result.steps : LET resp == q.result.steps[i] IN
                 Decides(resp) /\ Ending(resp) /\ memos' = memos \union {AsMemo(resp)}
<1> DEFINE resps == q.result.steps
           deciding == {k \in DOMAIN resps : Decides(resps[k])}
<1>1. memos' = memos \union {AsMemo(resps[i]) : i \in deciding}
    BY DEF ApplySteps
<1>2. ASSUME NEW i \in deciding PROVE Ending(resps[i]) /\ deciding = {i}
  <2>1. Ending(resps[i])
      BY DEF Decides, Ending
  <2>2. Len(resps) = 1
      BY <2>1 DEF Tokens, Collects
  <2>3. resps \in Seq(RespType)
      BY DEF RequestType, ResultType
  <2>4. DOMAIN resps = {1}
    <3>1. DOMAIN resps = 1 .. Len(resps)
        BY <2>3
    <3>2. DOMAIN resps = 1 .. 1
        BY <2>2, <3>1
    <3> QED BY <3>2
  <2> QED BY <2>1, <2>4
<1>3. CASE deciding = {}
    BY <1>1, <1>3
<1>4. ASSUME NEW i \in deciding PROVE memos' = memos \union {AsMemo(resps[i])}
    BY <1>1, <1>2
<1> QED BY <1>2, <1>3, <1>4

\* What a move of a request reports is genuine.
LEMMA GenuineKept ==
    ASSUME NEW f \in UserFunctions, NEW q, RequestOK(f, q),
           \A i \in DOMAIN q.resps : Genuine(f, q.resps[i]),
           \A i \in DOMAIN q.result.steps : Genuine(f, q.result.steps[i]),
           NEW n \in RequestType, Moves(f, q, n)
    PROVE  /\ \A i \in DOMAIN n.resps : Genuine(f, n.resps[i])
           /\ \A i \in DOMAIN n.result.steps : Genuine(f, n.result.steps[i])
<1>1. q \in RequestType
    BY DEF RequestOK
<1>2. ASSUME NEW resp, Responds(f, q, resp) PROVE Genuine(f, resp)
  <2> SUFFICES ASSUME resp.op = "STEP_RUN" PROVE resp.out \in At(f, resp.at).outs
      BY DEF Genuine
  <2>1. q.pc = "handler" /\ resp.at = Pos(q) /\ resp.out \in Step(f, q).outs
      BY <1>2 DEF Responds
  <2>2. At(f, Pos(q)) = Step(f, q)
      BY <1>1, <2>1, Here DEF RequestOK
  <2> QED BY <2>1, <2>2
<1>3. \A i \in DOMAIN n.resps :
          (i \in DOMAIN q.resps /\ n.resps[i] = q.resps[i]) \/ Responds(f, q, n.resps[i])
    BY <1>1, NewResponses
<1>4. \A i \in DOMAIN n.result.steps :
          \/ i \in DOMAIN q.result.steps /\ n.result.steps[i] = q.result.steps[i]
          \/ i \in DOMAIN q.resps /\ n.result.steps[i] = q.resps[i]
          \/ Responds(f, q, n.result.steps[i])
    BY <1>1, NewResponses
<1> QED BY <1>2, <1>3, <1>4

\* If handlers only call step.run, no nested name reaches the Executor.
LEMMA NoInnerName ==
    ASSUME NEW f, NestsRunsOnly(f), NEW id
    PROVE  ~InnerName(f, id)
BY DEF NestsRunsOnly, InnerName

\* One request changes, and nothing is decided or put to sleep.
LEMMA ReplacedOnce ==
    ASSUME DecidedOnce, NEW r \in Requests, fn' = fn,
           \A x \in Requests \ {r} : req'[x] = req[x],
           \A i \in DOMAIN req'[r].resps : Genuine(fn, req'[r].resps[i]),
           \A i \in DOMAIN req'[r].result.steps : Genuine(fn, req'[r].result.steps[i]),
           UNCHANGED <<memos, asleep>>
    PROVE  DecidedOnce'
BY DEF DecidedOnce

\* The Executor applies the steps of a response.
LEMMA AppliedOnce ==
    ASSUME IInv, Fitting, Tokens, TellsApart(fn), DecidedOnce, NEW r \in Requests, Applies(r)
    PROVE  DecidedOnce'
<1> PICK q : q = req[r]
    OBVIOUS
<1> DEFINE resps == q.result.steps
<1>1. /\ fn \in UserFunctions /\ q \in RequestType /\ RequestOK(fn, q) /\ RequestFits(fn, q)
      /\ fn' = fn /\ ApplySteps(q, resps)
      /\ req'[r] = Idle /\ \A x \in Requests \ {r} : req'[x] = req[x]
    BY DEF Applies, IInv, TypeOK, RequestOK, Fitting
<1>2. ASSUME NEW i \in DOMAIN resps, Decides(resps[i])
      PROVE  /\ resps[i].at \in Positions(fn) /\ resps[i].id = Key(fn, resps[i].at)
             /\ At(fn, resps[i].at).op # "SLEEP" /\ resps[i].id \notin Ids(memos)
             /\ resps[i].out = "data" => "data" \in At(fn, resps[i].at).outs
  <2>1. /\ resps[i].op \in {"STEP_RUN", "STEP_FAILED", "STEP_ERROR"}
        /\ resps[i].id \notin Ids(memos)
      BY <1>2 DEF Decides
  <2>2. /\ resps[i].at \in Positions(fn) /\ resps[i].id = Key(fn, resps[i].at)
        /\ At(fn, resps[i].at).op # "SLEEP"
      BY <1>1, <2>1 DEF RequestFits, RespFits
  <2>3. resps[i].op # "STEP_RUN" => resps[i].out = "error"
      BY <1>1, <2>1 DEF RequestOK, RespOK
  <2>4. resps[i].op = "STEP_RUN" => resps[i].out \in At(fn, resps[i].at).outs
      BY DEF DecidedOnce, Genuine
  <2> QED BY <2>1, <2>2, <2>3, <2>4
<1>3. ASSUME NEW s \in asleep'
      PROVE  /\ s.id \notin Ids(memos)
             /\ \A p \in Positions(fn) : s.id = Key(fn, p) => At(fn, p).op = "SLEEP"
  <2>1. CASE s \in asleep
    <3>1. Fits(fn, s) /\ (s.at \in Positions(fn) => At(fn, s.at).op = "SLEEP")
        BY <2>1 DEF Fitting
    <3>2. s.id \notin Ids(memos)
        BY <2>1 DEF DecidedOnce
    <3> QED BY <1>1, <3>1, <3>2, NamesItsStep
  <2>2. CASE s \notin asleep
    <3>1. PICK k \in DOMAIN resps :
              resps[k].op = "SLEEP" /\ resps[k].id \notin known /\ s.id = resps[k].id
        BY <1>1, <2>2, FallsAsleep
    <3>2. s.id \notin Ids(memos)
        BY <3>1 DEF Tokens, KnowsAll
    <3>3. RespFits(fn, resps[k])
        BY <1>1 DEF RequestFits
    <3>4. ASSUME NEW p \in Positions(fn), s.id = Key(fn, p) PROVE At(fn, p).op = "SLEEP"
      <4>1. resps[k].at = p
          BY <1>1, <3>1, <3>3, <3>4, NamesItsStep
      <4> QED BY <3>1, <3>3, <4>1 DEF RespFits
    <3> QED BY <3>2, <3>4
  <2> QED BY <2>1, <2>2
<1>4. memos' = memos \/ \E i \in DOMAIN resps :
          Decides(resps[i]) /\ memos' = memos \union {AsMemo(resps[i])}
    BY <1>1, OneDecision
<1>5. \A m, n \in memos' : m.id = n.id => m = n
  <2>1. \A m, n \in memos : m.id = n.id => m = n
      BY DEF DecidedOnce
  <2>2. ASSUME NEW i \in DOMAIN resps, NEW m \in memos, Decides(resps[i])
        PROVE  m.id # AsMemo(resps[i]).id
      BY <1>2, <2>2 DEF Ids, AsMemo
  <2> QED BY <1>4, <2>1, <2>2
<1>6. \A s \in asleep' : s.id \notin Ids(memos')
  <2>1. ASSUME NEW i \in DOMAIN resps, Decides(resps[i]), NEW s \in asleep'
        PROVE  s.id # AsMemo(resps[i]).id
      BY <1>2, <1>3, <2>1 DEF AsMemo
  <2> QED BY <1>3, <1>4, <2>1 DEF Ids
<1>7. \A m \in memos' : m.out = "data" /\ m.at \in Positions(fn) =>
          At(fn, m.at).op = "SLEEP" \/ "data" \in At(fn, m.at).outs
    BY <1>2, <1>4 DEF DecidedOnce, AsMemo
<1>8. ASSUME NEW x \in Requests
      PROVE  /\ \A i \in DOMAIN req'[x].resps : Genuine(fn, req'[x].resps[i])
             /\ \A i \in DOMAIN req'[x].result.steps : Genuine(fn, req'[x].result.steps[i])
  <2>1. DOMAIN Idle.resps = {} /\ DOMAIN Idle.result.steps = {}
      BY DEF Idle, NoResult
  <2> QED BY <1>1, <2>1 DEF DecidedOnce
<1> QED BY <1>1, <1>5, <1>6, <1>7, <1>8 DEF DecidedOnce

\* A sleep ends once.
LEMMA WokenOnce ==
    ASSUME IInv, Fitting, TellsApart(fn), NestsRunsOnly(fn), DecidedOnce, Wake
    PROVE  DecidedOnce'
<1>1. PICK s \in asleep :
          /\ asleep' = asleep \ {s}
          /\ memos' = memos \union {[id |-> s.id, out |-> "data", at |-> s.at]}
    BY DEF Wake
<1>2. UNCHANGED <<fn, req>>
    BY DEF Wake
<1>3. ASSUME NEW t \in asleep, t.id = s.id PROVE t = s
  <2>1. /\ t.at \in Positions(fn) /\ t.id = Key(fn, t.at)
        /\ s.at \in Positions(fn) /\ s.id = Key(fn, s.at)
      BY NoInnerName DEF Fitting, Fits
  <2>2. t.at = s.at
      BY <1>3, <2>1 DEF TellsApart
  <2>3. t \in [id : StepIds, at : Seq(Nat)] /\ s \in [id : StepIds, at : Seq(Nat)]
      BY DEF IInv, TypeOK
  <2> QED BY <1>3, <2>2, <2>3
<1>4. s.id \notin Ids(memos) /\ (s.at \in Positions(fn) => At(fn, s.at).op = "SLEEP")
    BY DEF DecidedOnce, Fitting
<1>5. \A m, n \in memos' : m.id = n.id => m = n
    BY <1>1, <1>4 DEF DecidedOnce, Ids
<1>6. \A t \in asleep' : t.id \notin Ids(memos')
    BY <1>1, <1>3 DEF DecidedOnce, Ids
<1>7. \A m \in memos' : m.out = "data" /\ m.at \in Positions(fn) =>
          At(fn, m.at).op = "SLEEP" \/ "data" \in At(fn, m.at).outs
    BY <1>1, <1>4 DEF DecidedOnce
<1> QED BY <1>2, <1>5, <1>6, <1>7 DEF DecidedOnce

\* The invariant, step by step.
LEMMA NextOnce ==
    ASSUME IInv, Fitting, Tokens, TellsApart(fn), NestsRunsOnly(fn), DecidedOnce,
           [Next]_vars, IInv'
    PROVE  DecidedOnce'
<1>1. fn \in UserFunctions /\ req \in [Requests -> RequestType] /\ req' \in [Requests -> RequestType]
    BY DEF IInv, TypeOK
<1>2. ASSUME NEW r \in Requests
      PROVE  /\ RequestOK(fn, req[r])
             /\ \A i \in DOMAIN req[r].resps : Genuine(fn, req[r].resps[i])
             /\ \A i \in DOMAIN req[r].result.steps : Genuine(fn, req[r].result.steps[i])
    BY DEF IInv, DecidedOnce
<1>3. ASSUME NEW r \in Requests, req'[r].resps = <<>>, req'[r].result.steps = <<>>,
             \A x \in Requests \ {r} : req'[x] = req[x], UNCHANGED <<fn, memos, asleep>>
      PROVE  DecidedOnce'
  <2>1. DOMAIN req'[r].resps = {} /\ DOMAIN req'[r].result.steps = {}
      BY <1>3
  <2> QED BY <1>3, <2>1, ReplacedOnce
<1>4. ASSUME NEW r \in Requests, Sdk(r) PROVE DecidedOnce'
  <2>1. /\ Moves(fn, req[r], req'[r]) /\ \A x \in Requests \ {r} : req'[x] = req[x]
        /\ UNCHANGED <<fn, memos, asleep>>
      BY <1>4, SdkMoves DEF executor
  <2>2. /\ \A i \in DOMAIN req'[r].resps : Genuine(fn, req'[r].resps[i])
        /\ \A i \in DOMAIN req'[r].result.steps : Genuine(fn, req'[r].result.steps[i])
      BY <1>1, <1>2, <2>1, GenuineKept
  <2> QED BY <2>1, <2>2, ReplacedOnce
<1>5. ASSUME NEW r \in Requests, HookFails(r) \/ UserError(r) PROVE DecidedOnce'
  <2>1. /\ Breaks(req[r], req'[r])
        /\ \A x \in Requests \ {r} : req'[x] = req[x]
        /\ UNCHANGED <<fn, memos, asleep>>
      BY <1>5, FaultMoves DEF executor
  <2>2. req'[r].resps = <<>> /\ req'[r].result.steps = <<>>
      BY <2>1 DEF Breaks, ErrorResult
  <2> QED BY <1>3, <2>1, <2>2
<1>6. Idle.resps = <<>> /\ Idle.result.steps = <<>>
    BY DEF Idle, NoResult
<1>7. ASSUME NEW r \in Requests, Send(r) PROVE DecidedOnce'
  <2>1. PICK j \in queue : req' = [req EXCEPT ![r] =
                Received(j.target, j.attempt, j.cause, memos, forcePlan)]
      BY <1>7 DEF Send
  <2>2. UNCHANGED <<fn, memos, asleep>>
      BY <1>7 DEF Send
  <2> DEFINE n == Received(j.target, j.attempt, j.cause, memos, forcePlan)
  <2>3. n.resps = <<>> /\ n.result.steps = <<>>
      BY DEF Received, Idle, NoResult
  <2> HIDE DEF n
  <2>4. req'[r] = n /\ \A x \in Requests \ {r} : req'[x] = req[x]
      BY <1>1, <2>1 DEF n
  <2> QED BY <1>3, <2>2, <2>3, <2>4
<1>8. ASSUME NEW r \in Requests, Lose(r) PROVE DecidedOnce'
  <2>1. req'[r] = Idle /\ (\A x \in Requests \ {r} : req'[x] = req[x])
      BY <1>1, <1>8 DEF Lose
  <2>2. UNCHANGED <<fn, memos, asleep>>
      BY <1>8 DEF Lose, Retry, executor
  <2> QED BY <1>3, <1>6, <2>1, <2>2
<1>9. ASSUME NEW r \in Requests, Apply(r) PROVE DecidedOnce'
  <2> DEFINE q == req[r]
             res == Response(q)
  <2>1. req'[r] = Idle /\ (\A x \in Requests \ {r} : req'[x] = req[x]) /\ fn' = fn
        /\ req[r] # Idle
      BY <1>1, <1>9 DEF Apply, Idle
  <2>2. CASE run = "running" /\ res.kind = "steps" /\ ApplySteps(q, res.steps)
    <3>1. res = q.result
        BY <2>2 DEF Response, ErrorResult
    <3>2. Applies(r)
        BY <2>1, <2>2, <3>1 DEF Applies
    <3> QED BY <3>2, AppliedOnce
  <2>3. CASE UNCHANGED <<memos, asleep>>
      BY <1>3, <1>6, <2>1, <2>3
  <2> HIDE DEF res, q
  <2>4. \/ run = "running" /\ res.kind = "steps" /\ ApplySteps(q, res.steps)
        \/ UNCHANGED <<memos, asleep>>
      BY <1>9 DEF Apply, Retry, executor, q, res
  <2> QED BY <2>2, <2>3, <2>4
<1>10. ASSUME Wake PROVE DecidedOnce'
    BY <1>10, WokenOnce
<1>11. CASE UNCHANGED vars
    BY <1>11 DEF vars, executor, DecidedOnce
<1> QED BY <1>4, <1>5, <1>7, <1>8, <1>9, <1>10, <1>11 DEF Next

\* At first nothing is decided.
LEMMA InitOnce == Init => DecidedOnce
<1> SUFFICES ASSUME Init PROVE DecidedOnce
    OBVIOUS
<1>1. memos = {} /\ asleep = {} /\ \A r \in Requests : req[r] = Idle
    BY DEF Init
<1>2. DOMAIN Idle.resps = {} /\ DOMAIN Idle.result.steps = {}
    BY DEF Idle, NoResult
<1> QED BY <1>1, <1>2 DEF DecidedOnce

\* A step is decided once and for good, and a sleep ends once, if moreover
\* handlers call no step but a step.run.
THEOREM DecidedOnceAlways ==
    ASSUME \A f \in UserFunctions : TellsApart(f) /\ NestsRunsOnly(f)
    PROVE  Spec => []DecidedOnce
<1>1. \A f \in UserFunctions : TellsApart(f)
    OBVIOUS
<1>2. IInv /\ IInv' /\ Fitting /\ Tokens /\ DecidedOnce /\ [Next]_vars => DecidedOnce'
  <2>1. IInv => fn \in UserFunctions
      BY DEF IInv, TypeOK
  <2> QED BY <2>1, NextOnce
<1>3. Spec => []Fitting
    BY <1>1, FittingAlways
<1>4. Spec => []Tokens
    BY <1>1, TokensAlways
<1>5. Spec => []IInv
    BY Invariance
<1> QED BY <1>2, <1>3, <1>4, <1>5, InitOnce, PTL DEF Spec

\* NestedStepsRejected: a step called by a handler is never run, planned or
\* waited for, and the run does not complete. Not for all functions that nest
\* steps: the nested one is a step.run (a sleep is reported before the nesting is
\* seen, v0.py:112), its caller is in no group (a targeted one is skipped first,
\* v0.py:83) and always calls it, ids tell the steps apart, and the function lets
\* a NonRetriableError through.
THEOREM NestingIsRejected ==
    ASSUME \A f \in UserFunctions :
              /\ TellsApart(f) /\ CatchesStepErrors(f) /\ GroupsDoNotNest(f)
              /\ NestsRunsOnly(f) /\ NestsAlways(f)
    PROVE  Spec => []NestedStepsRejected
<1>1. \A f \in UserFunctions :
          TellsApart(f) /\ CatchesStepErrors(f) /\ GroupsDoNotNest(f) /\ NestsRunsOnly(f)
    OBVIOUS
<1>2. IInv /\ Fitting => InnerIds \intersect known = {}
  <2> SUFFICES ASSUME IInv, Fitting, NEW id \in known, id \in InnerIds PROVE FALSE
      OBVIOUS
  <2>1. fn \in UserFunctions
      BY DEF IInv, TypeOK
  <2>2. PICK p \in Positions(fn) : id = Key(fn, p)
      BY <1>1, <2>1, NoInnerName DEF Fitting
  <2>3. PICK t \in Positions(fn) : \E i \in At(fn, t).inner : id = i.id
      BY DEF InnerIds, At
  <2>4. At(fn, p).id.name = id.name
      BY <2>1, <2>2, KeyName
  <2> QED BY <1>1, <2>1, <2>2, <2>3, <2>4 DEF TellsApart
<1>3. IInv /\ Fitting /\ Progressing /\ DecidedOnce => (run = "completed" => InnerIds = {})
  <2> SUFFICES ASSUME IInv, Fitting, Progressing, DecidedOnce, run = "completed",
                      NEW t \in Positions(fn), At(fn, t).inner # {}
               PROVE  FALSE
      BY DEF InnerIds, At
  <2>1. fn \in UserFunctions
      BY DEF IInv, TypeOK
  <2>2. At(fn, t).op = "STEP_RUN" /\ ~At(fn, t).caught /\ "data" \notin At(fn, t).outs
      BY <2>1 DEF NestsAlways
  <2>3. PICK m \in memos : m.id = Key(fn, t) /\ (m.out = "data" \/ At(fn, t).caught)
      BY DEF Progressing, Past
  <2>4. m.at = t
      BY <1>1, <2>1, <2>3, NamesItsStep DEF Fitting
  <2> QED BY <2>2, <2>3, <2>4 DEF DecidedOnce
<1>4. Spec => []Fitting
    BY <1>1, FittingAlways
<1>5. Spec => []IInv
    BY Invariance
<1>6. Spec => []Progressing
    BY <1>1, ProgressAlways
<1>7. Spec => []DecidedOnce
    BY <1>1, DecidedOnceAlways
<1> QED BY <1>2, <1>3, <1>4, <1>5, <1>6, <1>7, PTL DEF NestedStepsRejected

-----------------------------------------------------------------------------
(* The run implements a durable run.                                        *)

\* What a set of memos says of each step.
OutcomeOf(decided) ==
    [p \in {m.at : m \in decided} |-> (CHOOSE m \in decided : m.at = p).out]

\* No two memos are about the same step.
OneMemoEach(decided) == \A m, n \in decided : m.at = n.at => m = n

\* The outcome of a step is what its memo says.
LEMMA OutcomeAt ==
    ASSUME NEW decided, OneMemoEach(decided), NEW m \in decided
    PROVE  m.at \in DOMAIN OutcomeOf(decided) /\ OutcomeOf(decided)[m.at] = m.out
<1>1. (CHOOSE n \in decided : n.at = m.at) = m
    BY DEF OneMemoEach
<1> QED BY <1>1 DEF OutcomeOf

\* Another memo adds its outcome and leaves the others.
LEMMA OutcomeAdded ==
    ASSUME NEW decided, NEW m, OneMemoEach(decided), \A n \in decided : n.at # m.at
    PROVE  /\ DOMAIN OutcomeOf(decided \union {m}) = DOMAIN OutcomeOf(decided) \union {m.at}
           /\ \A t \in DOMAIN OutcomeOf(decided \union {m}) :
                OutcomeOf(decided \union {m})[t] =
                  IF t = m.at THEN m.out ELSE OutcomeOf(decided)[t]
<1> DEFINE more == decided \union {m}
<1>1. OneMemoEach(more)
    BY DEF OneMemoEach
<1>2. DOMAIN OutcomeOf(more) = DOMAIN OutcomeOf(decided) \union {m.at}
    BY DEF OutcomeOf
<1>3. ASSUME NEW t \in DOMAIN OutcomeOf(more)
      PROVE  OutcomeOf(more)[t] = IF t = m.at THEN m.out ELSE OutcomeOf(decided)[t]
  <2>1. PICK n \in more : n.at = t
      BY DEF OutcomeOf
  <2>2. OutcomeOf(more)[t] = n.out
      BY <1>1, <2>1, OutcomeAt
  <2>3. n # m => OutcomeOf(decided)[t] = n.out /\ t # m.at
      BY <2>1, OutcomeAt
  <2>4. t = m.at => n = m
      BY <2>1, <2>3
  <2> QED BY <2>1, <2>2, <2>3, <2>4
<1> QED BY <1>2, <1>3

\* The memos are about steps of the function, each about its own.
LEMMA MemosAt ==
    ASSUME IInv, Fitting, TellsApart(fn), NestsRunsOnly(fn), DecidedOnce
    PROVE  /\ OneMemoEach(memos)
           /\ \A m \in memos : m.at \in Positions(fn) /\ m.id = Key(fn, m.at)
           /\ \A t \in Past(fn, memos) : Durable!Passed(t)
<1>1. \A m \in memos : m.at \in Positions(fn) /\ m.id = Key(fn, m.at)
    BY NoInnerName DEF Fitting, Fits
<1>2. OneMemoEach(memos)
    BY <1>1 DEF OneMemoEach, DecidedOnce
<1>3. ASSUME NEW t \in Past(fn, memos) PROVE Durable!Passed(t)
  <2>1. PICK m \in memos : m.id = Key(fn, t) /\ (m.out = "data" \/ At(fn, t).caught)
      BY <1>3 DEF Past
  <2>2. t \in Positions(fn)
      BY DEF Past
  <2>3. m.at = t
      BY <1>1, <2>1, <2>2 DEF TellsApart
  <2>4. t \in DOMAIN OutcomeOf(memos) /\ OutcomeOf(memos)[t] = m.out
      BY <1>2, <2>3, OutcomeAt
  <2>5. At(fn, t).caught => t \in PlanOf(fn).tolerated
      BY <2>2 DEF PlanOf, At
  <2> QED BY <2>1, <2>4, <2>5 DEF Durable!Passed, Decided, OutcomeOf
<1> QED BY <1>1, <1>2, <1>3

\* A memo of a step that is ready and was not decided is a step of the durable run.
LEMMA DecisionMaps ==
    ASSUME IInv, Fitting, TellsApart(fn), NestsRunsOnly(fn), DecidedOnce, fn' = fn,
           run = "running", run' = run,
           NEW m, memos' = memos \union {m}, m.id \notin Ids(memos),
           m.at \in Positions(fn), m.id = Key(fn, m.at), m.out \in {"data", "error"},
           Ready(fn, memos, m.at)
    PROVE  Durable!Next
<1>1. /\ OneMemoEach(memos)
      /\ \A n \in memos : n.at \in Positions(fn) /\ n.id = Key(fn, n.at)
      /\ \A t \in Past(fn, memos) : Durable!Passed(t)
    BY MemosAt
<1>2. \A n \in memos : n.at # m.at
    BY <1>1 DEF Ids
<1>3. Decided' = [t \in DOMAIN Decided \union {m.at} |->
                    IF t = m.at THEN m.out ELSE Decided[t]]
  <2> PICK before, after : before = OutcomeOf(memos) /\ after = OutcomeOf(memos \union {m})
      OBVIOUS
  <2>1. Decided = before /\ Decided' = after
      BY DEF Decided, OutcomeOf
  <2>2. /\ DOMAIN after = DOMAIN before \union {m.at}
        /\ \A t \in DOMAIN after :
             after[t] = IF t = m.at THEN m.out ELSE before[t]
    <3>1. OneMemoEach(memos) /\ \A n \in memos : n.at # m.at
        BY <1>1, <1>2
    <3>2. /\ DOMAIN OutcomeOf(memos \union {m}) = DOMAIN OutcomeOf(memos) \union {m.at}
          /\ \A t \in DOMAIN OutcomeOf(memos \union {m}) :
                OutcomeOf(memos \union {m})[t] =
                  IF t = m.at THEN m.out ELSE OutcomeOf(memos)[t]
        BY <3>1, OutcomeAdded
    <3> QED BY <3>2
  <2>3. after = [t \in DOMAIN after |-> after[t]]
      BY DEF OutcomeOf
  <2>4. after = [t \in DOMAIN before \union {m.at} |->
                    IF t = m.at THEN m.out ELSE before[t]]
      BY <2>2, <2>3
  <2> QED BY <2>1, <2>4
<1>4. m.at \notin DOMAIN Decided
    BY <1>2 DEF Decided
<1>5. Durable!Steps = Positions(fn) /\ PlanOf(fn).before[m.at] = Before(fn, m.at)
    BY DEF Durable!Steps, PlanOf
<1>6. \A t \in PlanOf(fn).before[m.at] : Durable!Passed(t)
    BY <1>1, <1>5 DEF Ready
<1>7. PlanOf(fn)' = PlanOf(fn)
    OBVIOUS
<1>8. Durable!Decide(m.at, m.out)
    BY <1>3, <1>4, <1>5, <1>6, <1>7 DEF Durable!Decide
<1> QED BY <1>5, <1>8 DEF Durable!Next

\* The steps that a response decides.
LEMMA AppliedMaps ==
    ASSUME IInv, Fitting, Tokens, Progressing, DecidedOnce,
           TellsApart(fn), NestsRunsOnly(fn),
           NEW r \in Requests, fn' = fn, run = "running",
           Response(req[r]).kind = "steps", ApplySteps(req[r], Response(req[r]).steps)
    PROVE  Durable!Next \/ UNCHANGED <<memos, run>>
<1> PICK q : q = req[r]
    OBVIOUS
<1>1. /\ q \in RequestType /\ RequestOK(fn, q) /\ RequestFits(fn, q) /\ InOrder(fn, memos, q)
    BY DEF IInv, TypeOK, RequestOK, Fitting, Progressing
<1>2. /\ Response(q) = q.result
      /\ \A i \in DOMAIN q.result.steps : q.result.steps[i].out # "unserializable"
    BY DEF Response, ErrorResult
<1>3. ApplySteps(q, q.result.steps)
    BY <1>2
<1>4. run' = run
    BY <1>3 DEF ApplySteps
<1>5. ASSUME NEW i \in DOMAIN q.result.steps,
             Decides(q.result.steps[i]), Ending(q.result.steps[i]),
             memos' = memos \union {AsMemo(q.result.steps[i])}
      PROVE  Durable!Next
  <2> PICK resp : resp = q.result.steps[i]
      OBVIOUS
  <2>1. resp.op \in {"STEP_RUN", "STEP_FAILED", "STEP_ERROR"} /\ resp.id \notin Ids(memos)
      BY <1>5 DEF Decides
  <2>2. resp.at \in Positions(fn) /\ resp.id = Key(fn, resp.at)
      BY <1>1, <2>1 DEF RequestFits, RespFits
  <2>3. resp.out \in {"data", "error"}
      BY <1>1, <1>2, <2>1 DEF RequestOK, RespOK
  <2>4. Ready(fn, memos, resp.at)
      BY <1>1, <2>2 DEF InOrder
  <2> DEFINE m == AsMemo(resp)
  <2>5. m.id = resp.id /\ m.at = resp.at /\ m.out = resp.out
      BY DEF AsMemo
  <2>6. memos' = memos \union {m}
      BY <1>5
  <2> HIDE DEF m
  <2> QED BY <1>4, <2>1, <2>2, <2>3, <2>4, <2>5, <2>6, DecisionMaps
<1> QED BY <1>1, <1>3, <1>4, <1>5, OneDecision

\* A run that fails is a durable run that fails.
LEMMA FailureMaps ==
    ASSUME UNCHANGED <<fn, memos>>, run = "running", run' \in {"running", "failed"}
    PROVE  Durable!Next \/ UNCHANGED <<memos, run>>
<1>1. PlanOf(fn)' = PlanOf(fn) /\ Decided' = Decided
    BY DEF Decided
<1>2. CASE run' = "failed"
    BY <1>1, <1>2 DEF Durable!Next, Durable!Fail
<1> QED BY <1>2

\* Every step of the run is a step of the durable run, or leaves it as it is.
LEMMA StepMaps ==
    ASSUME IInv, Fitting, Tokens, Progressing, DecidedOnce,
           TellsApart(fn), NestsRunsOnly(fn), [Next]_vars
    PROVE  [Durable!Next]_(Durable!vars)
<1>1. fn \in UserFunctions
    BY DEF IInv, TypeOK
<1>2. UNCHANGED <<fn, memos, run>> => UNCHANGED Durable!vars
    BY DEF Durable!vars, Decided
<1>3. ASSUME NEW r \in Requests, Sdk(r) \/ HookFails(r) \/ UserError(r) \/ Send(r)
      PROVE  UNCHANGED <<fn, memos, run>>
    BY <1>3, SdkMoves, FaultMoves DEF executor, Send
<1>4. ASSUME NEW r \in Requests, Apply(r)
      PROVE  fn' = fn /\ (Durable!Next \/ UNCHANGED <<memos, run>>)
  <2> DEFINE q == req[r]
             res == Response(q)
  <2>1. fn' = fn
      BY <1>4 DEF Apply
  <2>2. CASE run = "running" /\ res.kind = "steps" /\ ApplySteps(q, res.steps)
      BY <2>1, <2>2, AppliedMaps
  <2>3. CASE UNCHANGED executor
      BY <2>1, <2>3 DEF executor
  <2>4. CASE run = "running" /\ Retry(q, res.retry)
    <3>1. memos' = memos /\ run' \in {"running", "failed"}
        BY <2>4 DEF Retry
    <3> QED BY <2>1, <2>4, <3>1, FailureMaps
  <2>5. CASE run = "running" /\ res.kind = "return" /\ run' = "completed" /\ memos' = memos
    <3>1. res = q.result
        BY <2>5 DEF Response, ErrorResult
    <3>2. Positions(fn) \subseteq Past(fn, memos)
        BY <2>5, <3>1 DEF Progressing, InOrder
    <3>3. \A s \in Durable!Steps : Durable!Passed(s)
        BY <3>2, MemosAt DEF Durable!Steps, PlanOf
    <3>4. PlanOf(fn)' = PlanOf(fn) /\ Decided' = Decided
        BY <2>1, <2>5 DEF Decided
    <3> QED BY <2>1, <2>5, <3>3, <3>4 DEF Durable!Next, Durable!Complete
  <2> HIDE DEF res, q
  <2>6. \/ run = "running" /\ res.kind = "steps" /\ ApplySteps(q, res.steps)
        \/ UNCHANGED executor
        \/ run = "running" /\ Retry(q, res.retry)
        \/ run = "running" /\ res.kind = "return" /\ run' = "completed" /\ memos' = memos
      BY <1>4 DEF Apply, q, res
  <2> QED BY <2>1, <2>2, <2>3, <2>4, <2>5, <2>6
<1>5. ASSUME NEW r \in Requests, Lose(r)
      PROVE  fn' = fn /\ (Durable!Next \/ UNCHANGED <<memos, run>>)
  <2>1. UNCHANGED <<fn, memos>>
      BY <1>5 DEF Lose, Retry, executor
  <2>2. run' = run \/ (run = "running" /\ run' \in {"running", "failed"})
      BY <1>5 DEF Lose, Retry, executor
  <2> QED BY <2>1, <2>2, FailureMaps
<1>6. ASSUME Wake PROVE Durable!Next
  <2>1. PICK s \in asleep : memos' = memos \union {[id |-> s.id, out |-> "data", at |-> s.at]}
      BY <1>6 DEF Wake
  <2>2. UNCHANGED <<fn, run>> /\ run = "running"
      BY <1>6 DEF Wake
  <2>3. s.at \in Positions(fn) /\ s.id = Key(fn, s.at)
      BY NoInnerName DEF Fitting, Fits
  <2>4. s.id \notin Ids(memos) /\ Ready(fn, memos, s.at)
      BY <2>3 DEF DecidedOnce, Progressing
  <2> DEFINE m == [id |-> s.id, out |-> "data", at |-> s.at]
  <2>5. m.id = s.id /\ m.at = s.at /\ m.out = "data" /\ memos' = memos \union {m}
      BY <2>1
  <2> HIDE DEF m
  <2> QED BY <2>2, <2>3, <2>4, <2>5, DecisionMaps
<1>7. CASE UNCHANGED vars
    BY <1>2, <1>7 DEF vars, executor
<1> QED BY <1>2, <1>3, <1>4, <1>5, <1>6, <1>7 DEF Next

\* At first nothing is decided.
LEMMA InitMaps == Init => Durable!Init
<1> SUFFICES ASSUME Init PROVE Durable!Init
    OBVIOUS
<1>1. memos = {} /\ run = "running"
    BY DEF Init
<1>2. Decided = <<>>
    BY <1>1 DEF Decided
<1> QED BY <1>1, <1>2 DEF Durable!Init

\* ImplementsDurableRun: requests, replays and interrupts together are a
\* durable run, which decides each step once, after the steps before it.
THEOREM RefinesDurableRun ==
    ASSUME \A f \in UserFunctions :
              TellsApart(f) /\ CatchesStepErrors(f) /\ GroupsDoNotNest(f) /\ NestsRunsOnly(f)
    PROVE  Spec => ImplementsDurableRun
<1>1. /\ \A f \in UserFunctions : TellsApart(f)
      /\ \A f \in UserFunctions : TellsApart(f) /\ CatchesStepErrors(f) /\ GroupsDoNotNest(f)
      /\ \A f \in UserFunctions : TellsApart(f) /\ NestsRunsOnly(f)
    OBVIOUS
<1>2. IInv /\ Fitting /\ Tokens /\ Progressing /\ DecidedOnce /\ [Next]_vars
          => [Durable!Next]_(Durable!vars)
  <2>1. IInv => fn \in UserFunctions
      BY DEF IInv, TypeOK
  <2> QED BY <1>1, <2>1, StepMaps
<1>3. Spec => []Fitting
    BY <1>1, FittingAlways
<1>4. Spec => []Tokens
    BY <1>1, TokensAlways
<1>5. Spec => []IInv
    BY Invariance
<1>6. Spec => []Progressing
    BY <1>1, ProgressAlways
<1>7. Spec => []DecidedOnce
    BY <1>1, DecidedOnceAlways
<1> QED
    BY <1>2, <1>3, <1>4, <1>5, <1>6, <1>7, InitMaps, PTL DEF Spec, ImplementsDurableRun, Durable!Spec
=============================================================================
