----------------------------- MODULE ServeProofs -----------------------------
(***************************************************************************)
(* What the requests of Serve keep, for every configuration, signature,    *)
(* middleware, pool and number of requests.                                *)
(***************************************************************************)
EXTENDS Serve, NumberLemmas

-----------------------------------------------------------------------------
(* The inductive invariant.                                                 *)

AnyShape == UNION {Shapes[r] : r \in Requests}
Middlewares == Range(OfClient) \cup UNION {Range(shape.own) : shape \in AnyShape}
Bodies == Endings \cup {"none", "nothing", "functions", "server",
                        "authenticated", "unauthenticated"}

AnswerStates ==
    [status : Nat, key : Keys \cup {None}, body : Bodies,
     noRetry : BOOLEAN, retryAfter : BOOLEAN]

RequestStates ==
    [pc : {"idle", "arrived", "fetching", "registering", "queued", "called",
           "reporting", "executing", "ended", "answered", "escaped"},
     shape : AnyShape \cup {Nobody},
     key : Keys \cup SignatureErrors \cup {None},
     thread : Threads \cup {Nobody},
     begun : BOOLEAN,
     result : Endings \cup {"none"},
     stream : {"no", "open", "gone", "done"},
     answer : AnswerStates]

SendStates ==
    [pc : {"unsent", "trying", "tried", "returned", "raised"},
     attempts : 0 .. MaxAttempts, seed : {0, 1}, resp : Responses \cup {Nobody}]

\* What the variables hold.
Types ==
    /\ conf \in Configs
    /\ req \in [Requests -> RequestStates]
    /\ fetch \in [Requests -> [Fetches -> FetchStates \cup {"none"}]]
    /\ send \in [Requests -> SendStates]
    /\ log \in [Requests -> Seq(Hooks \X Middlewares)]
    /\ logging \in [Requests \cup Threads -> BOOLEAN]
    /\ synced \subseteq Requests

\* The progress of a request: nothing is left of what it has not reached.
Progress(r) ==
    /\ req[r].pc = "idle" => req[r].shape = Nobody /\ req[r].key = None
    /\ req[r].pc # "idle" => req[r].shape \in Shapes[r]
    /\ req[r].pc \in {"idle", "arrived"} => \A f \in Fetches : fetch[r][f] = "none"
    /\ req[r].pc \in {"idle", "arrived", "fetching", "registering", "queued", "called"}
        => log[r] = << >> /\ send[r] = Unsent /\ ~req[r].begun /\ req[r].result = "none"
    /\ send[r].pc \in {"trying", "tried"} => req[r].pc = "executing"
    /\ send[r].pc # "unsent" => req[r].shape.sends # "no"
    /\ send[r].pc = "unsent" => send[r].attempts = 0
    /\ send[r].pc = "trying" => send[r].attempts < MaxAttempts
    /\ req[r].pc # "answered" => req[r].answer = NoAnswer /\ req[r].stream # "done"
    /\ req[r].pc \in {"idle", "arrived", "fetching", "registering", "escaped"} =>
            req[r].stream = "no"
    /\ req[r].pc = "ended" => req[r].result # "none"

\* A request has a thread while it is handled on one.
OnThread(r) ==
    /\ req[r].pc \in {"idle", "queued", "answered", "escaped"} => req[r].thread = Nobody
    /\ req[r].pc \in {"arrived", "fetching", "registering"} /\ ~Sync =>
            req[r].thread = Nobody

\* A thread handles one request at a time.
OneAtATime ==
    \A r, q \in Requests :
        r # q /\ req[q].thread = req[r].thread => req[r].thread = Nobody

Handled ==
    /\ Types
    /\ \A r \in Requests : Progress(r) /\ OnThread(r)
    /\ OneAtATime

\* What the fetches show.
Fetched(r) ==
    /\ Running(r) /\ Shape(r).useApi =>
            fetch[r]["batch"] = "ok" /\ fetch[r]["steps"] = "ok"
    /\ \A f \in Fetches :
        /\ fetch[r][f] = "second" =>
            conf.mode = "cloud" /\ conf.key \notin conf.accepts
        /\ fetch[r][f] = "unauthorized" =>
            conf.mode = "cloud" /\ {conf.key, conf.fallback} \cap conf.accepts = {}
    /\ fetch[r]["register"] # "none" =>
            Shape(r).kind \in {None, conf.mode} /\ conf.functions # {}
    /\ r \in synced => fetch[r]["register"] # "none"

\* What the signature shows.
Verified(r) ==
    /\ req[r].pc # "idle" =>
        req[r].key = IF Shape(r).connect THEN None
                     ELSE ValidateRequestSig(Shape(r).body, Shape(r).sig, conf)
    /\ req[r].pc = "fetching" \/ Running(r) \/ req[r].answer.body = "output" =>
            Shape(r).method = "POST" /\ ~IsError(req[r].key)
    /\ req[r].answer.key # None => req[r].answer.key = Signed(req[r].key)
    /\ req[r].answer.body \in {"functions", "authenticated"} => req[r].key \in Keys

\* What a call of send has behind it.
Sending(r) ==
    /\ send[r].pc \in {"trying", "tried"} => send[r].seed = 1
    /\ send[r].pc \in {"tried", "returned"} /\ send[r].resp \in WithIds => <<r, 1>> \in stored

Seeded == \A seed \in stored : \E r \in Requests : seed = <<r, 1>>

\* What a replay has behind it: before_execution is called once, when the input
\* has gone through every middleware and, if there are memos, none is left.
Matched(r) == \A m \in Range(OfRequest(r)) : ~Mismatched(m, SyncHooks(r))

Begun(r) ==
    /\ req[r].pc = "executing" => req[r].begun \/ Shape(r).left
    /\ req[r].pc = "reporting" => (req[r].begun <=> ~Shape(r).memos)
    /\ req[r].pc \in {"reporting", "executing"} \/ req[r].begun => Matched(r)

\* The logger of a request's context.
Speaks(r) ==
    /\ req[r].pc \in {"reporting", "executing"} /\ req[r].begun
            /\ ~(Shape(r).sends = "client" /\ send[r].pc # "unsent")
        => logging[Context(r)]
    /\ req[r].pc \in {"fetching", "called"}
            \/ (req[r].pc = "reporting" /\ Shape(r).memos)
        => (Sync \/ req[r].thread = Nobody => ~logging[Context(r)])
    /\ req[r].pc = "queued" => ~logging[r]

\* The hooks that a request may have called so far.
Reached(r, hook) ==
    \/ /\ hook = "transform_input"
       /\ req[r].pc \in {"reporting", "executing", "ended", "answered"}
    \/ hook = "before_execution" /\ req[r].begun
    \/ hook = "before_send_events" /\ send[r].pc # "unsent"
    \/ hook = "after_send_events" /\ SendEnded(r)
    \/ hook = "after_execution" /\ req[r].pc \in {"ended", "answered"}
    \/ hook \in {"transform_output", "before_response"} /\ Answered(r)

Once(calls) == \A i, j \in DOMAIN calls : calls[i] = calls[j] => i = j

History(r) ==
    /\ Once(log[r])
    /\ \A i \in DOMAIN log[r] : Reached(r, log[r][i][1])

\* transform_input was called first to last, and transform_output last to first.
InputCalled(r) ==
    /\ Len(log[r]) >= Len(OfRequest(r))
    /\ \A i \in 1 .. Len(OfRequest(r)) :
            log[r][i] = <<"transform_input", OfRequest(r)[i]>>

OutputCalled(r) ==
    \E k \in Nat :
        /\ k + Len(OfRequest(r)) <= Len(log[r])
        /\ \A i \in 1 .. Len(OfRequest(r)) :
                log[r][k + i] = <<"transform_output",
                                  OfRequest(r)[Len(OfRequest(r)) - i + 1]>>

Transforms(r) ==
    /\ \/ req[r].pc \in {"reporting", "executing"}
       \/ req[r].pc = "ended" /\ ~HookFailed(r)
       \/ Answered(r) /\ ~HookFailed(r) /\ req[r].result # "none"
       => InputCalled(r)
    /\ Answered(r) /\ ~HookFailed(r) /\ req[r].result \notin {"none", "plan"} =>
            OutputCalled(r)

\* A hook that failed decides the result, and the result the answer.
Tells(r) ==
    IF HookFailed(r)
    THEN /\ req[r].answer.status = 500 /\ req[r].answer.body = "error"
         /\ ~req[r].answer.noRetry /\ ~req[r].answer.retryAfter
    ELSE Outcome(r) # "unserializable" =>
         /\ req[r].answer.noRetry = (Outcome(r) \in {"non-retriable", "failed step"})
         /\ req[r].answer.retryAfter = (Outcome(r) = "retry after")

Decided(r) ==
    /\ req[r].pc \in {"reporting", "executing"} => ~HookFailed(r)
    /\ req[r].pc = "ended" =>
            req[r].result = IF HookFailed(r) THEN "error" ELSE Outcome(r)
    /\ Answered(r) /\ req[r].result # "none" /\ req[r].stream # "gone" => Tells(r)

-----------------------------------------------------------------------------
(* What the operators return.                                               *)

LEMMA PairIsNotEmpty == \A a, b : <<a, b>> # << >>
    OBVIOUS

LEMMA EarlyAnswers ==
    ASSUME NEW r \in Requests
    PROVE  /\ EarlyAnswer(r) # << >> =>
                EarlyAnswer(r)[1] \in Nat /\ EarlyAnswer(r)[2] \in {"nothing", "error"}
           /\ EarlyAnswer(r) = << >> =>
                ~Shape(r).probe /\ Shape(r).body = "ok" /\ Found(r)
<1> USE DEF EarlyAnswer
<1>1. CASE Shape(r).probe
    BY <1>1, PairIsNotEmpty
<1>2. CASE ~Shape(r).probe /\ ~(Shape(r).body = "ok" /\ Found(r))
    BY <1>2, PairIsNotEmpty
<1>3. CASE ~Shape(r).probe /\ Shape(r).body = "ok" /\ Found(r)
    BY <1>3, PairIsNotEmpty
<1> QED BY <1>1, <1>2, <1>3

\* What validate_request_sig makes of a signature: an error, or the key whose
\* holder signed; in dev mode nothing.
LEMMA Validated ==
    ASSUME NEW c \in Configs, NEW body, NEW sig \in Keys \cup {None, "malformed", Unreadable}
    PROVE  LET key == ValidateRequestSig(body, sig, c)
           IN  /\ key \in Keys \cup SignatureErrors \cup {None}
               /\ c.mode = "cloud" /\ ~IsError(key) =>
                    key \in Keys /\ key = sig /\ key \in {c.key, c.fallback}
               /\ c.mode = "dev" => key \notin Keys
<1> DEFINE Result(key, mode, k) ==
        /\ key \in Keys \cup SignatureErrors \cup {None}
        /\ mode = "dev" => key = None
        /\ mode = "cloud" => IsError(key) \/ (key \in Keys /\ key = sig /\ key = k)
<1>1. c.mode \in {"dev", "cloud"} /\ c.key \in Keys \cup {None}
      /\ c.fallback \in Keys \cup {None}
    BY ConfigsAssumption
<1>2. ASSUME NEW k \in Keys \cup {None}, NEW mode \in {"dev", "cloud"}
      PROVE  Result(ValidateSig(sig, mode, k), mode, k)
  <2>1. CASE mode = "dev"
      BY <2>1, NetAssumption DEF ValidateSig
  <2>2. CASE mode = "cloud" /\ sig = None
      BY <2>2, NetAssumption DEF ValidateSig, SignatureErrors, IsError
  <2>3. CASE mode = "cloud" /\ sig \notin {None, Unreadable} /\ k = None
      BY <2>3, NetAssumption DEF ValidateSig, SignatureErrors, IsError, Unreadable
  <2>4. CASE mode = "cloud" /\ sig = "malformed" /\ sig # None /\ k # None
      BY <2>4, NetAssumption DEF ValidateSig, SignatureErrors, IsError, Unreadable
  <2>5. CASE mode = "cloud" /\ sig \in Keys /\ k # None
      BY <2>5, NetAssumption DEF ValidateSig, SignatureErrors, IsError, Unreadable
  <2>6. CASE mode = "cloud" /\ sig = Unreadable /\ sig # None
      BY <2>6, NetAssumption DEF ValidateSig, SignatureErrors, IsError, Unreadable
  <2> QED BY <2>1, <2>2, <2>3, <2>4, <2>5, <2>6
<1> DEFINE first == ValidateSig(sig, c.mode, c.key)
<1>3. Result(first, c.mode, c.key)
    BY <1>1, <1>2
<1>4. Result(FallbackSig(sig, c.mode, c.fallback), c.mode, c.fallback)
    BY <1>1, <1>2 DEF FallbackSig
<1>5. \/ body = "not JSON" /\ ValidateRequestSig(body, sig, c) = "not JSON"
      \/ ~IsError(first) /\ ValidateRequestSig(body, sig, c) = first
      \/ IsError(first) /\ ValidateRequestSig(body, sig, c) = first
      \/ IsError(first) /\ ValidateRequestSig(body, sig, c)
                                = FallbackSig(sig, c.mode, c.fallback)
    BY DEF ValidateRequestSig
<1>6. "not JSON" \notin Keys /\ IsError("not JSON") /\ "not JSON" \in SignatureErrors
      /\ None \notin Keys
    BY NetAssumption DEF SignatureErrors, IsError
<1> HIDE DEF first
<1> QED BY <1>3, <1>4, <1>5, <1>6

LEMMA OrderIsSeq ==
    ASSUME NEW S, NEW installed \in Seq(S), NEW hook \in Hooks
    PROVE  /\ Order(installed, hook) \in Seq(S)
           /\ Len(Order(installed, hook)) = Len(installed)
           /\ Range(Order(installed, hook)) = Range(installed)
           /\ hook \in BeforeHooks => Order(installed, hook) = installed
           /\ hook \in AfterHooks =>
                \A i \in 1 .. Len(installed) :
                    Order(installed, hook)[i] = installed[Len(installed) - i + 1]
<1> DEFINE n == Len(installed)
           back == [i \in 1 .. n |-> installed[(n - i) + 1]]
<1>1. n \in Nat /\ DOMAIN installed = 1 .. n /\ \A i \in 1 .. n : installed[i] \in S
    OBVIOUS
<1>2. \A i \in 1 .. n : (n - i) + 1 \in 1 .. n
    BY <1>1
<1>3. back \in Seq(S) /\ Len(back) = n
    BY <1>1, <1>2
<1>4. Range(back) = Range(installed)
  <2>1. ASSUME NEW i \in 1 .. n PROVE \E j \in 1 .. n : back[j] = installed[i]
    <3>1. (n - i) + 1 \in 1 .. n /\ (n - ((n - i) + 1)) + 1 = i
        BY <1>1
    <3> QED BY <3>1
  <2> QED BY <1>1, <1>2, <2>1 DEF Range
<1>5. hook \in BeforeHooks => hook \notin AfterHooks
    BY DEF BeforeHooks, AfterHooks
<1>6. hook \in AfterHooks => Order(installed, hook) = back
    BY DEF Order, Reverse
<1>7. hook \notin AfterHooks => Order(installed, hook) = installed
    BY DEF Order
<1> HIDE DEF back
<1>8. \A i \in 1 .. n : back[i] = installed[n - i + 1]
    BY DEF back
<1> QED BY <1>1, <1>3, <1>4, <1>5, <1>6, <1>7, <1>8

\* A call of a hook reaches every middleware in order, or stops with an error:
\* of the one that raises, unless one cannot be called at all.
LEMMA CallsOfHook ==
    ASSUME NEW S, NEW installed \in Seq(S), NEW hook \in Hooks, NEW raises, NEW sync
    PROVE  LET called == Called(installed, hook, raises, sync)
               order  == Order(installed, hook)
           IN  /\ called.calls \in Seq(Hooks \X S)
               /\ called.error \in BOOLEAN
               /\ Len(called.calls) <= Len(order)
               /\ \A i \in 1 .. Len(called.calls) : called.calls[i] = <<hook, order[i]>>
               /\ ~called.error => /\ Len(called.calls) = Len(order)
                                   /\ \A i \in 1 .. Len(order) : <<hook, order[i]>> # raises
                                   /\ \A m \in Range(installed) : ~Mismatched(m, sync)
               /\ called.error /\ (\A m \in Range(installed) : ~Mismatched(m, sync)) =>
                    /\ Len(called.calls) > 0
                    /\ called.calls[Len(called.calls)] = raises
<1> DEFINE called == Called(installed, hook, raises, sync)
           order  == Order(installed, hook)
<1>0. called = Called(installed, hook, raises, sync) /\ order = Order(installed, hook)
    OBVIOUS
<1> HIDE DEF called, order
<1> DEFINE stops == {i \in DOMAIN order : \/ <<hook, order[i]>> = raises
                                          \/ Mismatched(order[i], sync)}
           first == CHOOSE i \in stops : \A j \in stops : i <= j
           last  == IF stops = {} THEN Len(order)
                    ELSE IF Mismatched(order[first], sync) THEN first - 1 ELSE first
           calls == [i \in 1 .. last |-> <<hook, order[i]>>]
<1>1. called.calls = calls /\ called.error = (stops # {})
    BY <1>0 DEF Called
<1>2. /\ order \in Seq(S) /\ Len(order) \in Nat /\ DOMAIN order = 1 .. Len(order)
      /\ Range(order) = Range(installed)
      /\ \A i \in 1 .. Len(order) : order[i] \in S /\ order[i] \in Range(installed)
  <2>1. order \in Seq(S) /\ Range(order) = Range(installed)
      BY <1>0, OrderIsSeq
  <2>2. Len(order) \in Nat /\ DOMAIN order = 1 .. Len(order)
      BY <2>1
  <2>3. \A i \in 1 .. Len(order) : order[i] \in S
      BY <2>1
  <2>4. \A i \in DOMAIN order : order[i] \in Range(order)
      BY DEF Range
  <2> QED BY <2>1, <2>2, <2>3, <2>4
<1>3. stops # {} => first \in stops
  <2> SUFFICES ASSUME NEW i \in stops PROVE \E k \in stops : \A j \in stops : k <= j
      OBVIOUS
  <2>1. i \in Nat /\ \A j \in stops : j \in Nat
      BY <1>2
  <2> HIDE DEF stops
  <2>2. PICK k \in 0 .. i : k \in stops /\ \A j \in 0 .. k - 1 : j \notin stops
      BY <2>1, LeastMember
  <2>3. \A j \in stops : k <= j
      BY <2>1, <2>2
  <2> QED BY <2>2, <2>3
<1>4. last \in 0 .. Len(order)
    BY <1>2, <1>3
<1>5. calls \in Seq(Hooks \X S) /\ Len(calls) = last
  <2> HIDE DEF last
  <2>1. \A i \in 1 .. last : <<hook, order[i]>> \in Hooks \X S
      BY <1>2, <1>4
  <2> QED BY <1>4, <2>1
<1>6. stops = {} => /\ last = Len(order)
                    /\ \A i \in 1 .. Len(order) : <<hook, order[i]>> # raises
                                                  /\ ~Mismatched(order[i], sync)
    BY <1>2
<1>7. ASSUME stops # {}, \A m \in Range(installed) : ~Mismatched(m, sync)
      PROVE  last > 0 /\ <<hook, order[last]>> = raises
  <2>1. first \in 1 .. Len(order) /\ ~Mismatched(order[first], sync) /\ last = first
      BY <1>2, <1>3, <1>7
  <2>2. <<hook, order[first]>> = raises
      BY <1>3, <1>7, <2>1
  <2> QED BY <1>2, <2>1, <2>2
<1>8. \A m \in Range(installed) : \E i \in 1 .. Len(order) : order[i] = m
    BY <1>2 DEF Range
<1>9. \A i \in 1 .. last : calls[i] = <<hook, order[i]>>
    OBVIOUS
<1> HIDE DEF calls, last, stops
<1>10. called.calls \in Seq(Hooks \X S) /\ Len(called.calls) <= Len(order)
       /\ Len(called.calls) = last
       /\ \A i \in 1 .. Len(called.calls) : called.calls[i] = <<hook, order[i]>>
    BY <1>1, <1>2, <1>4, <1>5, <1>9
<1>11. CASE stops = {}
  <2>1. called.error = FALSE
      BY <1>1, <1>11
  <2>2. \A m \in Range(installed) : ~Mismatched(m, sync)
      BY <1>6, <1>8, <1>11
  <2> QED BY <1>6, <1>10, <1>11, <2>1, <2>2 DEF called, order
<1>12. CASE stops # {}
  <2>1. called.error = TRUE
      BY <1>1, <1>12
  <2>2. last \in 0 .. Len(order) /\ Len(order) \in Nat
      BY <1>2, <1>4
  <2>3. (\A m \in Range(installed) : ~Mismatched(m, sync)) =>
            last > 0 /\ called.calls[last] = raises
      BY <1>7, <1>10, <1>12, <2>2
  <2> QED BY <1>10, <2>1, <2>3 DEF called, order
<1> QED BY <1>11, <1>12 DEF called, order

-----------------------------------------------------------------------------
(* Types.                                                                   *)

\* What the middleware of a request are.
LEMMA ManagersTyped ==
    ASSUME NEW r \in Requests, Shape(r) \in Shapes[r]
    PROVE  /\ OfClient \in Seq(Middlewares) /\ Len(OfClient) > 0
           /\ OfRequest(r) \in Seq(Middlewares)
           /\ IsInjective(OfRequest(r))
           /\ Len(OfRequest(r)) >= Len(OfClient)
           /\ \A i \in 1 .. Len(OfClient) : OfRequest(r)[i] = OfClient[i]
<1> DEFINE own == Shape(r).own
<1>1. own \in Seq(Range(own)) /\ IsInjective(Installed(own))
    BY ShapesAssumption
<1>2. Range(own) \subseteq Middlewares /\ Range(OfClient) \subseteq Middlewares
    BY DEF Middlewares, AnyShape
<1>3. OfClient \in Seq(Range(OfClient)) /\ OfClient # << >>
    BY MiddlewareAssumption
<1> HIDE DEF own
<1>4. own \in Seq(Middlewares) /\ OfClient \in Seq(Middlewares)
    BY <1>1, <1>2, <1>3, SeqMonotonic
<1> HIDE DEF Middlewares
<1>5. Len(OfClient) \in Nat \ {0}
    BY <1>3, <1>4, EmptySeq
<1>6. OfRequest(r) = OfClient \o own
    BY DEF OfRequest, Installed, own
<1>7. /\ OfClient \o own \in Seq(Middlewares)
      /\ Len(OfClient \o own) >= Len(OfClient)
      /\ \A i \in 1 .. Len(OfClient) : (OfClient \o own)[i] = OfClient[i]
  <2>1. Len(own) \in Nat
      BY <1>4
  <2> QED BY <1>4, <1>5, <2>1, ConcatProperties
<1> QED BY <1>1, <1>4, <1>5, <1>6, <1>7 DEF own, Installed

Others(r) ==
    \A q \in Requests \ {r} :
        /\ req'[q] = req[q] /\ fetch'[q] = fetch[q]
        /\ send'[q] = send[q] /\ log'[q] = log[q]

LEMMA AnswerTyped ==
    ASSUME Types, NEW r \in Requests, NEW status \in Nat, NEW body \in Bodies
    PROVE  /\ Answer(r, status, body) \in AnswerStates
           /\ Answer(r, status, body).status = status
           /\ Answer(r, status, body).body = body
           /\ Answer(r, status, body).key = Signed(req[r].key)
           /\ Answer(r, status, body).noRetry = FALSE
           /\ Answer(r, status, body).retryAfter = FALSE
<1>1. req[r].key \in Keys \cup SignatureErrors \cup {None}
    BY DEF Types, RequestStates
<1>2. Signed(req[r].key) \in Keys \cup {None}
    BY <1>1 DEF Signed, IsError
<1>3. NoAnswer \in AnswerStates
    BY DEF NoAnswer, AnswerStates, Bodies
<1> QED BY <1>2, <1>3 DEF Answer, AnswerStates, NoAnswer

LEMMA AnswersTyped ==
    ASSUME Types, NEW r \in Requests, NEW status \in Nat, NEW body \in Bodies,
           Answers(r, status, body)
    PROVE  /\ req' \in [Requests -> RequestStates]
           /\ \A q \in Requests \ {r} : req'[q] = req[q]
           /\ req'[r] = [req[r] EXCEPT !.pc = "answered", !.thread = Nobody,
                                       !.answer = Answer(r, status, body)]
<1> DEFINE answer == Answer(r, status, body)
           new == [req[r] EXCEPT !.pc = "answered", !.thread = Nobody,
                                 !.answer = answer]
<1>1. req[r] \in RequestStates /\ answer \in AnswerStates
    BY AnswerTyped DEF Types
<1>2. req' = [req EXCEPT ![r] = new]
    BY DEF Answers, Types
<1> HIDE DEF answer
<1>3. new \in RequestStates
    BY <1>1 DEF RequestStates
<1> HIDE DEF new
<1>4. req' \in [Requests -> RequestStates] /\ req'[r] = new
      /\ \A q \in Requests \ {r} : req'[q] = req[q]
    BY <1>2, <1>3 DEF Types
<1> QED BY <1>4 DEF new, answer

\* A request is the only one whose state a step of its changes.
Step(r) ==
    \/ \E shape \in Shapes[r] : Arrive(r, shape)
    \/ Handle(r) \/ Network(r) \/ HangsUp(r)

LEMMA RequestTyped ==
    ASSUME Types, NEW r \in Requests, NEW new \in RequestStates,
           req' = [req EXCEPT ![r] = new]
    PROVE  /\ req' \in [Requests -> RequestStates] /\ req'[r] = new
           /\ \A q \in Requests \ {r} : req'[q] = req[q]
    BY DEF Types

LEMMA HookTyped ==
    ASSUME NEW r \in Requests, Shape(r) \in Shapes[r], NEW hook \in Hooks
    PROVE  /\ Hook(r, hook).calls \in Seq(Hooks \X Middlewares)
           /\ Hook(r, hook).error \in BOOLEAN
           /\ Len(Hook(r, hook).calls) <= Len(OfRequest(r))
<1>1. OfRequest(r) \in Seq(Middlewares)
    BY ManagersTyped
<1> HIDE DEF Middlewares
<1> DEFINE called == Hook(r, hook)
           order == Order(OfRequest(r), hook)
<1>2. called = Called(OfRequest(r), hook, Shape(r).raises, SyncHooks(r))
    BY DEF Hook
<1>3. order = Order(OfRequest(r), hook) /\ Len(order) = Len(OfRequest(r))
    BY <1>1, OrderIsSeq
<1> HIDE DEF called, order
<1>4. called.calls \in Seq(Hooks \X Middlewares) /\ called.error \in BOOLEAN
      /\ Len(called.calls) <= Len(order)
    BY <1>1, <1>2, <1>3, CallsOfHook
<1> QED BY <1>3, <1>4 DEF called

LEMMA ArriveTyped ==
    ASSUME Types, NEW r \in Requests, NEW shape \in Shapes[r], Arrive(r, shape)
    PROVE  /\ Types' /\ Others(r) /\ conf' = conf
           /\ req'[r].pc = "arrived" /\ req'[r].shape = shape
           /\ req'[r].key = IF shape.connect THEN None
                            ELSE ValidateRequestSig(shape.body, shape.sig, conf)
           /\ req'[r].thread \in Threads \cup {Nobody}
           /\ req'[r].thread = Nobody \/ (Sync /\ Idle(req'[r].thread))
           /\ req'[r].begun = req[r].begun /\ req'[r].result = req[r].result
           /\ req'[r].stream = req[r].stream /\ req'[r].answer = req[r].answer
<1> DEFINE key == IF shape.connect THEN None
                  ELSE ValidateRequestSig(shape.body, shape.sig, conf)
<1>1. PICK t \in IF Sync THEN {u \in Threads : Idle(u)} ELSE {Nobody} :
        req' = [req EXCEPT ![r].shape = shape, ![r].thread = t,
                           ![r].pc = "arrived", ![r].key = key]
    BY DEF Arrive
<1>2. key \in Keys \cup SignatureErrors \cup {None}
  <2>1. conf \in Configs /\ shape.sig \in Keys \cup {None, "malformed", Unreadable}
      BY ShapesAssumption DEF Types
  <2>2. ValidateRequestSig(shape.body, shape.sig, conf)
            \in Keys \cup SignatureErrors \cup {None}
      BY <2>1, Validated
  <2> QED BY <2>2
<1> HIDE DEF key
<1> DEFINE new == [req[r] EXCEPT !.shape = shape, !.thread = t,
                                 !.pc = "arrived", !.key = key]
<1>3. req[r] \in RequestStates /\ shape \in AnyShape /\ t \in Threads \cup {Nobody}
      /\ (t = Nobody \/ (Sync /\ Idle(t)))
    BY DEF Types, AnyShape
<1>4. new \in RequestStates
    BY <1>2, <1>3 DEF RequestStates
<1>5. req' = [req EXCEPT ![r] = new]
    BY <1>1 DEF Types
<1>6. new.pc = "arrived" /\ new.shape = shape /\ new.key = key /\ new.thread = t
      /\ new.begun = req[r].begun /\ new.result = req[r].result
      /\ new.stream = req[r].stream /\ new.answer = req[r].answer
    BY <1>3 DEF RequestStates
<1> HIDE DEF new
<1>7. req' \in [Requests -> RequestStates] /\ req'[r] = new
      /\ \A q \in Requests \ {r} : req'[q] = req[q]
    BY <1>4, <1>5, RequestTyped
<1>8. UNCHANGED <<sending, conf, fetch, logging, synced>>
    BY DEF Arrive
<1>9. Types' /\ Others(r) /\ conf' = conf
    BY <1>7, <1>8 DEF Types, Others, sending
<1> QED BY <1>3, <1>6, <1>7, <1>9 DEF key

LEMMA UnauthorizedTyped ==
    ASSUME Types, NEW r \in Requests, Unauthorized(r)
    PROVE  /\ Types' /\ Others(r) /\ conf' = conf
           /\ \E answer \in AnswerStates :
                /\ answer.body = "error" /\ answer.key = None
                /\ req'[r] = [req[r] EXCEPT !.pc = "answered", !.thread = Nobody,
                                            !.answer = answer]
<1> DEFINE answer == [NoAnswer EXCEPT !.status = 401, !.body = "error"]
<1>1. NoAnswer \in AnswerStates /\ NoAnswer.key = None /\ "error" \in Bodies
    BY DEF NoAnswer, AnswerStates, Bodies, Endings, Errors
<1>2. answer \in AnswerStates /\ answer.body = "error" /\ answer.key = None
  <2>1. answer.body = "error" /\ answer.key = NoAnswer.key
      BY <1>1 DEF AnswerStates
  <2>2. \A status \in Nat, body \in Bodies :
            [NoAnswer EXCEPT !.status = status, !.body = body] \in AnswerStates
      BY <1>1 DEF AnswerStates
  <2>3. answer \in AnswerStates
    <3> HIDE DEF AnswerStates, NoAnswer
    <3>1. 401 \in Nat /\ "error" \in Bodies
        BY <1>1
    <3> QED BY <2>2, <3>1, Zenon
  <2> QED BY <1>1, <2>1, <2>3
<1>3. req' = [req EXCEPT ![r].pc = "answered", ![r].thread = Nobody,
                         ![r].answer = answer]
    BY DEF Unauthorized
<1> HIDE DEF answer
<1> DEFINE new == [req[r] EXCEPT !.pc = "answered", !.thread = Nobody,
                                 !.answer = answer]
<1>4. new \in RequestStates /\ req' = [req EXCEPT ![r] = new]
  <2>1. req[r] \in RequestStates
      BY DEF Types
  <2>2. new \in RequestStates
      BY <1>2, <2>1 DEF RequestStates
  <2> QED BY <1>3, <2>2 DEF Types
<1> HIDE DEF new
<1>5. req' \in [Requests -> RequestStates] /\ req'[r] = new
      /\ \A q \in Requests \ {r} : req'[q] = req[q]
    BY <1>4, RequestTyped
<1>6. UNCHANGED <<sending, conf, fetch, logging, synced>>
    BY DEF Unauthorized
<1>7. Types' /\ Others(r) /\ conf' = conf
    BY <1>5, <1>6 DEF Types, Others, sending
<1> QED BY <1>2, <1>5, <1>7 DEF new

LEMMA GoesTyped ==
    ASSUME Types, NEW r \in Requests,
           NEW place \in {"fetching", "registering"}, Goes(r, place)
    PROVE  /\ req' \in [Requests -> RequestStates]
           /\ \A q \in Requests \ {r} : req'[q] = req[q]
           /\ req'[r] = [req[r] EXCEPT !.pc = place]
<1> DEFINE new == [req[r] EXCEPT !.pc = place]
<1>1. new \in RequestStates /\ req' = [req EXCEPT ![r] = new]
  <2>1. req[r] \in RequestStates
      BY DEF Types
  <2>2. new \in RequestStates
      BY <2>1 DEF RequestStates
  <2> QED BY <2>2 DEF Types, Goes
<1> HIDE DEF new
<1> QED BY <1>1, RequestTyped DEF new

LEMMA CallsTyped ==
    ASSUME Types, NEW r \in Requests, Calls(r)
    PROVE  /\ req' \in [Requests -> RequestStates]
           /\ \A q \in Requests \ {r} : req'[q] = req[q]
           /\ \E pc \in {"called", "queued"}, stream \in {"no", "open"} :
                /\ req'[r] = [req[r] EXCEPT !.pc = pc, !.stream = stream]
                /\ pc = "queued" => ~Sync
<1> DEFINE pooled == ~Sync /\ Shape(r).fn = "sync" /\ conf.pool
           pc == IF pooled THEN "queued" ELSE "called"
           stream == IF ~Sync /\ Shape(r).fn = "async" /\ conf.streaming
                     THEN "open" ELSE "no"
           new == [req[r] EXCEPT !.pc = pc, !.stream = stream]
<1>1. pc \in {"called", "queued"} /\ stream \in {"no", "open"}
      /\ (pc = "queued" => ~Sync)
    OBVIOUS
<1>2. req' = [req EXCEPT ![r].pc = pc, ![r].stream = stream]
    BY DEF Calls
<1> HIDE DEF pc, stream
<1>3. new \in RequestStates /\ req' = [req EXCEPT ![r] = new]
  <2>1. req[r] \in RequestStates
      BY DEF Types
  <2>2. new \in RequestStates
      BY <1>1, <2>1 DEF RequestStates
  <2> QED BY <1>2, <2>2 DEF Types
<1> HIDE DEF new
<1>4. req' \in [Requests -> RequestStates] /\ req'[r] = new
      /\ \A q \in Requests \ {r} : req'[q] = req[q]
    BY <1>3, RequestTyped
<1> QED BY <1>1, <1>4 DEF new

LEMMA QuietTyped ==
    ASSUME Types, NEW r \in Requests, Quiet(r)
    PROVE  logging' \in [Requests \cup Threads -> BOOLEAN]
    BY DEF Types, Quiet

\* How post goes on: with an answer, to fetch, or to the function.
LEMMA PostTyped ==
    ASSUME Types, NEW r \in Requests, Post(r)
    PROVE  /\ Types' /\ Others(r) /\ conf' = conf
           /\ req[r].pc = "arrived" /\ Shape(r).method = "POST" /\ ~IsError(req[r].key)
           /\ synced' = synced /\ stored' = stored
           /\ \/ /\ \E status \in Nat, body \in {"nothing", "error"} :
                        Answers(r, status, body)
                 /\ fetch' = fetch
              \/ /\ Goes(r, "fetching") /\ ~Shape(r).probe
                 /\ fetch' = [fetch EXCEPT ![r] = Starts(r)]
              \/ Calls(r) /\ ~Shape(r).useApi /\ ~Shape(r).probe /\ fetch' = fetch
<1>1. req[r].pc = "arrived" /\ Shape(r).method = "POST" /\ ~IsError(req[r].key)
    BY DEF Post, MayPass
<1>2. UNCHANGED <<sending, conf, synced>>
    BY DEF Post
<1>3. logging' \in [Requests \cup Threads -> BOOLEAN]
    BY QuietTyped DEF Post, Types
<1>4. CASE EarlyAnswer(r) # << >>
  <2>1. /\ Answers(r, EarlyAnswer(r)[1], EarlyAnswer(r)[2])
        /\ fetch' = fetch
      BY <1>4 DEF Post
  <2>2. PICK status \in Nat, body \in {"nothing", "error"} : Answers(r, status, body)
      BY <1>4, <2>1, EarlyAnswers
  <2>3. body \in Bodies
      BY DEF Bodies, Endings, Errors
  <2>4. /\ req' \in [Requests -> RequestStates]
        /\ \A q \in Requests \ {r} : req'[q] = req[q]
      BY <2>2, <2>3, AnswersTyped
  <2>5. Types' /\ Others(r)
      BY <1>2, <1>3, <2>1, <2>4 DEF Types, Others, sending
  <2> QED BY <1>1, <1>2, <2>1, <2>2, <2>5 DEF sending
<1>5. CASE EarlyAnswer(r) = << >> /\ Shape(r).useApi
  <2>1. Goes(r, "fetching") /\ fetch' = [fetch EXCEPT ![r] = Starts(r)]
      BY <1>5 DEF Post
  <2>2. Starts(r) \in [Fetches -> FetchStates \cup {"none"}]
      BY DEF Starts, Types, FetchStates, Waiting
  <2>3. /\ fetch' \in [Requests -> [Fetches -> FetchStates \cup {"none"}]]
        /\ \A q \in Requests \ {r} : fetch'[q] = fetch[q]
      BY <2>1, <2>2 DEF Types
  <2>4. /\ req' \in [Requests -> RequestStates]
        /\ \A q \in Requests \ {r} : req'[q] = req[q]
      BY <2>1, GoesTyped
  <2>5. Types' /\ Others(r)
      BY <1>2, <1>3, <2>3, <2>4 DEF Types, Others, sending
  <2> QED BY <1>1, <1>2, <1>5, <2>1, <2>5, EarlyAnswers DEF sending
<1>6. CASE EarlyAnswer(r) = << >> /\ ~Shape(r).useApi
  <2>1. Calls(r) /\ fetch' = fetch
      BY <1>6 DEF Post
  <2>2. /\ req' \in [Requests -> RequestStates]
        /\ \A q \in Requests \ {r} : req'[q] = req[q]
      BY <2>1, CallsTyped
  <2>3. Types' /\ Others(r)
      BY <1>2, <1>3, <2>1, <2>2 DEF Types, Others, sending
  <2> QED BY <1>1, <1>2, <1>6, <2>1, <2>3, EarlyAnswers DEF sending
<1> QED BY <1>4, <1>5, <1>6

LEMMA FetchAnswerTyped ==
    ASSUME Types, NEW r \in Requests, NEW f \in Fetches, FetchAnswer(r, f)
    PROVE  /\ Types' /\ Others(r) /\ conf' = conf
           /\ UNCHANGED <<sending, req, logging>>
           /\ fetch[r][f] \in Waiting /\ req[r].pc \in {"fetching", "registering"}
           /\ \E answer \in ApiAnswers(AuthKey(fetch[r][f], conf), conf) :
                /\ answer \in Got
                /\ fetch'[r][f] = FetchWithAuthFallback(fetch[r][f], answer, conf.fallback)
           /\ \A g \in Fetches \ {f} : fetch'[r][g] = fetch[r][g]
           /\ synced' = synced \/ (f = "register" /\ synced' = synced \cup {r})
<1>1. PICK answer \in ApiAnswers(AuthKey(fetch[r][f], conf), conf) :
        /\ fetch' = [fetch EXCEPT ![r][f] =
                        FetchWithAuthFallback(@, answer, conf.fallback)]
        /\ synced' = synced \/ (f = "register" /\ synced' = synced \cup {r})
    BY DEF FetchAnswer
<1>2. answer \in Got
    BY DEF ApiAnswers, Got
<1>3. FetchWithAuthFallback(fetch[r][f], answer, conf.fallback) \in FetchStates
    BY <1>2 DEF FetchWithAuthFallback, FetchStates, Waiting
<1>4. /\ fetch' \in [Requests -> [Fetches -> FetchStates \cup {"none"}]]
      /\ \A q \in Requests \ {r} : fetch'[q] = fetch[q]
      /\ fetch'[r][f] = FetchWithAuthFallback(fetch[r][f], answer, conf.fallback)
      /\ \A g \in Fetches \ {f} : fetch'[r][g] = fetch[r][g]
  <2> DEFINE got == FetchWithAuthFallback(fetch[r][f], answer, conf.fallback)
  <2>1. fetch' = [fetch EXCEPT ![r][f] = got]
      BY <1>1
  <2> HIDE DEF got
  <2>2. got \in FetchStates
      BY <1>3 DEF got
  <2>3. /\ fetch' \in [Requests -> [Fetches -> FetchStates \cup {"none"}]]
        /\ \A q \in Requests \ {r} : fetch'[q] = fetch[q]
        /\ fetch'[r][f] = got /\ \A g \in Fetches \ {f} : fetch'[r][g] = fetch[r][g]
      BY <2>1, <2>2 DEF Types
  <2> QED BY <2>3 DEF got
<1>5. UNCHANGED <<sending, conf, req, logging>>
    BY DEF FetchAnswer
<1>6. Types' /\ Others(r)
    BY <1>1, <1>4, <1>5 DEF Types, Others, sending
<1> QED BY <1>1, <1>2, <1>4, <1>5, <1>6 DEF FetchAnswer

LEMMA EscapesTyped ==
    ASSUME Types, NEW r \in Requests, Escapes(r)
    PROVE  /\ req' \in [Requests -> RequestStates]
           /\ \A q \in Requests \ {r} : req'[q] = req[q]
           /\ req'[r] = [req[r] EXCEPT !.pc = "escaped", !.thread = Nobody]
<1> DEFINE new == [req[r] EXCEPT !.pc = "escaped", !.thread = Nobody]
<1>1. req[r] \in RequestStates /\ req' = [req EXCEPT ![r] = new]
    BY DEF Types, Escapes
<1>2. new \in RequestStates
    BY <1>1 DEF RequestStates
<1> HIDE DEF new
<1> QED BY <1>1, <1>2, RequestTyped DEF new

\* The results of the fetches: an exception, an answer, or the function call,
\* which both have succeeded for; a sync server first fetches the steps.
LEMMA FetchedTyped ==
    ASSUME Types, NEW r \in Requests, Gathered(r) \/ FetchedSync(r)
    PROVE  /\ Types' /\ Others(r) /\ conf' = conf
           /\ req[r].pc = "fetching"
           /\ UNCHANGED <<sending, logging, synced>>
           /\ \/ Escapes(r) /\ fetch' = fetch
              \/ Calls(r) /\ Usable(r) /\ fetch' = fetch
              \/ Answers(r, 500, "error") /\ fetch' = fetch
              \/ /\ req' = req
                 /\ fetch' = [fetch EXCEPT ![r]["steps"] = "first"]
<1>1. req[r].pc = "fetching" /\ UNCHANGED <<sending, conf, logging, synced>>
    BY DEF Gathered, FetchedSync, Fetching
<1>2. \/ Escapes(r) /\ fetch' = fetch
      \/ Calls(r) /\ Usable(r) /\ fetch' = fetch
      \/ Answers(r, 500, "error") /\ fetch' = fetch
      \/ req' = req /\ fetch' = [fetch EXCEPT ![r]["steps"] = "first"]
    BY DEF Gathered, FetchedSync
<1>3. 500 \in Nat /\ "error" \in Bodies
    BY DEF Bodies, Endings, Errors
<1>4. CASE fetch' = fetch /\ (Escapes(r) \/ Calls(r) \/ Answers(r, 500, "error"))
  <2>1. /\ req' \in [Requests -> RequestStates]
        /\ \A q \in Requests \ {r} : req'[q] = req[q]
      BY <1>3, <1>4, EscapesTyped, CallsTyped, AnswersTyped
  <2> QED BY <1>1, <1>2, <1>4, <2>1 DEF Types, Others, sending
<1>5. CASE req' = req /\ fetch' = [fetch EXCEPT ![r]["steps"] = "first"]
  <2>1. "steps" \in Fetches /\ "first" \in FetchStates
      BY DEF Fetches, FetchStates, Waiting
  <2>2. /\ fetch' \in [Requests -> [Fetches -> FetchStates \cup {"none"}]]
        /\ \A q \in Requests \ {r} : fetch'[q] = fetch[q]
      BY <1>5, <2>1 DEF Types
  <2> QED BY <1>1, <1>2, <1>5, <2>2 DEF Types, Others, sending
<1> QED BY <1>2, <1>4, <1>5

LEMMA StartsOnPoolTyped ==
    ASSUME Types, NEW r \in Requests, NEW t \in Threads, StartsOnPool(r, t)
    PROVE  /\ Types' /\ Others(r) /\ conf' = conf
           /\ UNCHANGED <<sending, fetch, logging, synced>>
           /\ req[r].pc = "queued" /\ Idle(t) /\ ~Sync
           /\ req'[r] = [req[r] EXCEPT !.pc = "called", !.thread = t]
<1> DEFINE new == [req[r] EXCEPT !.pc = "called", !.thread = t]
<1>1. req[r] \in RequestStates /\ req' = [req EXCEPT ![r] = new]
    BY DEF Types, StartsOnPool
<1>2. new \in RequestStates
    BY <1>1 DEF RequestStates
<1> HIDE DEF new
<1>3. req' \in [Requests -> RequestStates] /\ req'[r] = new
      /\ \A q \in Requests \ {r} : req'[q] = req[q]
    BY <1>1, <1>2, RequestTyped
<1>4. UNCHANGED <<sending, conf, fetch, logging, synced>>
    BY DEF StartsOnPool
<1>5. Types' /\ Others(r)
    BY <1>3, <1>4 DEF Types, Others, sending
<1> QED BY <1>3, <1>4, <1>5 DEF new, StartsOnPool

\* What a sync or an inspection ends with, or how it goes on.
LEMMA OtherTyped ==
    ASSUME Types, NEW r \in Requests, Put(r) \/ Registered(r) \/ Inspect(r)
    PROVE  /\ Types' /\ Others(r) /\ conf' = conf
           /\ UNCHANGED <<sending, logging, synced>>
           /\ req[r].pc \in {"arrived", "registering"}
           /\ \/ /\ fetch' = fetch
                 /\ \E status \in Nat, body \in Bodies :
                      /\ Answers(r, status, body)
                      /\ body \in {"error", "functions", "server", "nothing",
                                   "authenticated", "unauthenticated"}
                      /\ body = "functions" => ~IsError(req[r].key) /\ req[r].key # None
                      /\ body = "authenticated" => req[r].key \in Keys
              \/ /\ Goes(r, "registering") /\ req[r].pc = "arrived"
                 /\ ~OtherServer(r) /\ conf.functions # {}
                 /\ fetch' = [fetch EXCEPT ![r]["register"] = "first"]
<1> DEFINE Ended == \E status \in Nat, body \in Bodies :
                      /\ Answers(r, status, body)
                      /\ body \in {"error", "functions", "server", "nothing",
                                   "authenticated", "unauthenticated"}
                      /\ body = "functions" => ~IsError(req[r].key) /\ req[r].key # None
                      /\ body = "authenticated" => req[r].key \in Keys
<1>1. req[r].pc \in {"arrived", "registering"} /\ UNCHANGED <<sending, conf, logging, synced>>
    BY DEF Put, Registered, Inspect
<1>2. \A body \in {"error", "functions", "server", "nothing",
                   "authenticated", "unauthenticated"} : body \in Bodies
    BY DEF Bodies, Endings, Errors
<1> HIDE DEF Bodies
<1>3. ASSUME Registered(r) PROVE fetch' = fetch /\ Ended
  <2>1. Answers(r, OutOfBandAnswer(r)[1], OutOfBandAnswer(r)[2]) /\ fetch' = fetch
      BY <1>3 DEF Registered
  <2>2. OutOfBandAnswer(r)[1] \in Nat /\ OutOfBandAnswer(r)[2] \in {"error", "server"}
      BY DEF OutOfBandAnswer
  <2> QED BY <1>2, <2>1, <2>2
<1>4. ASSUME Inspect(r) PROVE fetch' = fetch /\ Ended
  <2>1. fetch' = fetch
      BY <1>4 DEF Inspect
  <2>2. \/ 403 \in Nat /\ "nothing" \in Bodies /\ Answers(r, 403, "nothing")
        \/ /\ 200 \in Nat /\ Inspection(req[r].key) \in Bodies
           /\ Answers(r, 200, Inspection(req[r].key))
      BY <1>2, <1>4 DEF Inspect, Inspection
  <2>3. /\ Inspection(req[r].key) \in {"authenticated", "unauthenticated"}
        /\ Inspection(req[r].key) = "authenticated" => req[r].key \in Keys
        /\ "nothing" # "functions" /\ "nothing" # "authenticated"
        /\ Inspection(req[r].key) # "functions"
      BY DEF Inspection
  <2> QED BY <2>1, <2>2, <2>3, Zenon
<1>5. ASSUME Put(r) PROVE \/ fetch' = fetch /\ Ended
                          \/ /\ Goes(r, "registering") /\ req[r].pc = "arrived"
                             /\ ~OtherServer(r) /\ conf.functions # {}
                             /\ fetch' = [fetch EXCEPT ![r]["register"] = "first"]
  <2> DEFINE early == IF InBand(r) THEN InBandAnswer(r) ELSE Refusal(r)
  <2>1. CASE early # << >>
    <3>1. Answers(r, early[1], early[2]) /\ fetch' = fetch
        BY <1>5, <2>1 DEF Put
    <3>2. early[1] \in Nat /\ early[2] \in {"error", "functions"}
          /\ (early[2] = "functions" => ~IsError(req[r].key) /\ req[r].key # None)
      <4>1. CASE InBand(r) /\ (IsError(req[r].key) \/ req[r].key = None)
          BY <4>1 DEF InBandAnswer
      <4>2. CASE InBand(r) /\ ~(IsError(req[r].key) \/ req[r].key = None)
          BY <4>2 DEF InBandAnswer
      <4>3. CASE ~InBand(r)
          BY <2>1, <4>3, PairIsNotEmpty DEF Refusal
      <4> QED BY <4>1, <4>2, <4>3
    <3> HIDE DEF early
    <3> QED BY <1>2, <3>1, <3>2
  <2>2. CASE early = << >>
    <3>1. ~InBand(r)
      <4>1. CASE IsError(req[r].key) \/ req[r].key = None
          BY <2>2, <4>1, PairIsNotEmpty DEF InBandAnswer
      <4>2. CASE ~(IsError(req[r].key) \/ req[r].key = None)
          BY <2>2, <4>2, PairIsNotEmpty DEF InBandAnswer
      <4> QED BY <4>1, <4>2
    <3>2. ~OtherServer(r) /\ conf.functions # {}
        BY <2>2, <3>1, PairIsNotEmpty DEF Refusal
    <3> QED BY <1>5, <2>2, <3>2 DEF Put
  <2> QED BY <2>1, <2>2
<1>6. CASE fetch' = fetch /\ Ended
  <2>1. /\ req' \in [Requests -> RequestStates]
        /\ \A q \in Requests \ {r} : req'[q] = req[q]
      BY <1>6, AnswersTyped
  <2>2. Types' /\ Others(r)
      BY <1>1, <1>6, <2>1 DEF Types, Others, sending
  <2> QED BY <1>1, <1>6, <2>2
<1>7. CASE /\ Goes(r, "registering") /\ req[r].pc = "arrived"
           /\ ~OtherServer(r) /\ conf.functions # {}
           /\ fetch' = [fetch EXCEPT ![r]["register"] = "first"]
  <2>1. /\ req' \in [Requests -> RequestStates]
        /\ \A q \in Requests \ {r} : req'[q] = req[q]
      BY <1>7, GoesTyped
  <2>2. "register" \in Fetches /\ "first" \in FetchStates
      BY DEF Fetches, FetchStates, Waiting
  <2>3. /\ fetch' \in [Requests -> [Fetches -> FetchStates \cup {"none"}]]
        /\ \A q \in Requests \ {r} : fetch'[q] = fetch[q]
      BY <1>7, <2>2 DEF Types
  <2>4. Types' /\ Others(r)
      BY <1>1, <2>1, <2>3 DEF Types, Others, sending
  <2> QED BY <1>1, <1>7, <2>4
<1> QED BY <1>3, <1>4, <1>5, <1>6, <1>7

-----------------------------------------------------------------------------
(* Types of the function call.                                              *)

LEMMA LogTyped ==
    ASSUME Types, NEW r \in Requests, NEW calls \in Seq(Hooks \X Middlewares),
           log' = [log EXCEPT ![r] = @ \o calls]
    PROVE  /\ log' \in [Requests -> Seq(Hooks \X Middlewares)]
           /\ log'[r] = log[r] \o calls
           /\ \A q \in Requests \ {r} : log'[q] = log[q]
<1>1. log \in [Requests -> Seq(Hooks \X Middlewares)]
    BY DEF Types
<1> DEFINE S == Hooks \X Middlewares
<1> HIDE DEF S
<1>2. log[r] \o calls \in Seq(S)
    BY <1>1, ConcatProperties DEF S
<1> DEFINE more == log[r] \o calls
<1>3. log' = [log EXCEPT ![r] = more] /\ more \in Seq(S)
    BY <1>1, <1>2
<1> HIDE DEF more
<1>4. log' \in [Requests -> Seq(S)] /\ log'[r] = more
      /\ \A q \in Requests \ {r} : log'[q] = log[q]
    BY <1>1, <1>3 DEF S
<1> QED BY <1>4 DEF S, more

LEMMA EnableTyped ==
    ASSUME Types, NEW r \in Requests, NEW called, Enable(r, called)
    PROVE  logging' \in [Requests \cup Threads -> BOOLEAN]
    BY DEF Types, Enable

LEMMA BeforeExecutionTyped ==
    ASSUME Types, NEW r \in Requests, Shape(r) \in Shapes[r]
    PROVE  /\ NoCalls.calls = << >> /\ NoCalls.error = FALSE
           /\ BeforeExecution(r).calls \in Seq(Hooks \X Middlewares)
           /\ BeforeExecution(r).error \in BOOLEAN
<1>1. NoCalls.calls = << >> /\ NoCalls.error = FALSE
    BY DEF NoCalls
<1>2. << >> \in Seq(Hooks \X Middlewares)
    OBVIOUS
<1>3. "before_execution" \in Hooks
    BY DEF Hooks, BeforeHooks
<1>4. Hook(r, "before_execution").calls \in Seq(Hooks \X Middlewares)
      /\ Hook(r, "before_execution").error \in BOOLEAN
    BY <1>3, HookTyped
<1> QED BY <1>1, <1>2, <1>4 DEF BeforeExecution

LEMMA BeginsTyped ==
    ASSUME Types, NEW r \in Requests, Shape(r) \in Shapes[r], Begins(r)
    PROVE  LET input  == Hook(r, "transform_input")
               before == IF input.error \/ Shape(r).memos THEN NoCalls
                         ELSE BeforeExecution(r)
           IN  /\ Types' /\ Others(r) /\ conf' = conf
               /\ UNCHANGED <<send, stored, fetch, synced>>
               /\ req[r].pc = "called"
               /\ Enable(r, before)
               /\ log'[r] = log[r] \o (input.calls \o before.calls)
               /\ req'[r] = [req[r] EXCEPT
                    !.begun = ~input.error /\ ~Shape(r).memos,
                    !.result = IF input.error \/ before.error THEN "error" ELSE @,
                    !.pc = IF input.error \/ before.error THEN "ended"
                           ELSE IF Shape(r).memos \/ MeetsNewStep(r) THEN "reporting"
                           ELSE "executing"]
<1> DEFINE input  == Hook(r, "transform_input")
           before == IF input.error \/ Shape(r).memos THEN NoCalls
                     ELSE BeforeExecution(r)
           begun == ~input.error /\ ~Shape(r).memos
           result == IF input.error \/ before.error THEN "error" ELSE req[r].result
           pc == IF input.error \/ before.error THEN "ended"
                 ELSE IF Shape(r).memos \/ MeetsNewStep(r) THEN "reporting"
                 ELSE "executing"
           new == [req[r] EXCEPT !.begun = begun, !.result = result, !.pc = pc]
<1>1. input.calls \in Seq(Hooks \X Middlewares) /\ before.calls \in Seq(Hooks \X Middlewares)
  <2>1. "transform_input" \in Hooks /\ << >> \in Seq(Hooks \X Middlewares)
      BY DEF Hooks, BeforeHooks
  <2>2. input.calls \in Seq(Hooks \X Middlewares)
      BY <2>1, HookTyped
  <2> HIDE DEF input
  <2> QED BY <2>1, <2>2, BeforeExecutionTyped
<1>2. UNCHANGED <<send, stored, conf, fetch, synced>> /\ req[r].pc = "called"
    BY DEF Begins
<1>3. Enable(r, before)
    BY DEF Begins
<1>4. log' = [log EXCEPT ![r] = @ \o input.calls \o before.calls]
    BY DEF Begins
<1>5. req' = [req EXCEPT ![r].begun = begun, ![r].result = result, ![r].pc = pc]
    BY DEF Begins
<1> HIDE DEF input, before
<1>6. req[r] \in RequestStates /\ begun \in BOOLEAN /\ result \in Endings \cup {"none"}
      /\ pc \in {"ended", "reporting", "executing"}
    BY DEF Types, RequestStates, Endings, Errors
<1> HIDE DEF begun, result, pc
<1>7. new \in RequestStates
    BY <1>6 DEF RequestStates
<1>8. req' = [req EXCEPT ![r] = new]
    BY <1>5 DEF Types
<1> HIDE DEF new
<1>9. req' \in [Requests -> RequestStates] /\ req'[r] = new
      /\ \A q \in Requests \ {r} : req'[q] = req[q]
    BY <1>7, <1>8, RequestTyped
<1>10. log[r] \in Seq(Hooks \X Middlewares)
    BY DEF Types
<1> DEFINE S == Hooks \X Middlewares
<1>11. /\ log' \in [Requests -> Seq(S)]
       /\ log'[r] = log[r] \o (input.calls \o before.calls)
       /\ \A q \in Requests \ {r} : log'[q] = log[q]
  <2> DEFINE more == input.calls \o before.calls
  <2> HIDE DEF S
  <2>1. more \in Seq(S) /\ (log[r] \o input.calls) \o before.calls = log[r] \o more
    <3>1. input.calls \in Seq(S) /\ before.calls \in Seq(S) /\ log[r] \in Seq(S)
        BY <1>1, <1>10 DEF S
    <3>2. more \in Seq(S)
        BY <3>1, ConcatProperties
    <3>3. \A s, t, u \in Seq(S) : (s \o t) \o u = s \o (t \o u)
        BY ConcatAssociative
    <3>4. (log[r] \o input.calls) \o before.calls = log[r] \o more
        BY <3>1, <3>3
    <3> QED BY <3>2, <3>4
  <2>2. log' = [log EXCEPT ![r] = @ \o more]
      BY <1>4, <2>1
  <2> HIDE DEF more
  <2>3. /\ log' \in [Requests -> Seq(S)] /\ log'[r] = log[r] \o more
        /\ \A q \in Requests \ {r} : log'[q] = log[q]
      BY <2>1, <2>2, LogTyped DEF S
  <2> QED BY <2>3 DEF more
<1>12. logging' \in [Requests \cup Threads -> BOOLEAN]
    BY <1>3, EnableTyped
<1>13. Types' /\ Others(r) /\ conf' = conf
    BY <1>2, <1>9, <1>11, <1>12 DEF Types, Others
<1> QED BY <1>2, <1>3, <1>9, <1>11, <1>13 DEF new, begun, result, pc, input, before

LEMMA BeginsMoves ==
    ASSUME Types, NEW r \in Requests, Shape(r) \in Shapes[r], Begins(r)
    PROVE  \E begun \in BOOLEAN, result \in Endings \cup {"none"},
                pc \in {"ended", "reporting", "executing"} :
              /\ req'[r] = [req[r] EXCEPT !.begun = begun, !.result = result, !.pc = pc]
              /\ pc = "ended" => result = "error"
<1> DEFINE input  == Hook(r, "transform_input")
           before == IF input.error \/ Shape(r).memos THEN NoCalls
                     ELSE BeforeExecution(r)
           begun == ~input.error /\ ~Shape(r).memos
           result == IF input.error \/ before.error THEN "error" ELSE req[r].result
           pc == IF input.error \/ before.error THEN "ended"
                 ELSE IF Shape(r).memos \/ MeetsNewStep(r) THEN "reporting"
                 ELSE "executing"
<1>1. req'[r] = [req[r] EXCEPT !.begun = begun, !.result = result, !.pc = pc]
    BY BeginsTyped
<1> HIDE DEF input, before
<1>2. pc \in {"ended", "reporting", "executing"} /\ (pc = "ended" => result = "error")
    OBVIOUS
<1>3. begun \in BOOLEAN
    OBVIOUS
<1>4. result \in Endings \cup {"none"}
    BY DEF Types, RequestStates, Endings, Errors
<1> HIDE DEF begun, result, pc
<1> QED BY <1>1, <1>2, <1>3, <1>4

\* report_step on the way to new code, with or without before_execution, and
\* later for the memo that was left.
ReportCalls(r, begun) == IF begun THEN BeforeExecution(r) ELSE NoCalls

ReportsAs(r, begun) ==
    /\ \/ req[r].pc = "reporting" /\ (begun <=> ~Shape(r).left)
       \/ /\ req[r].pc = "executing" /\ begun /\ ~req[r].begun
          /\ Shape(r).sends = "no" \/ SendEnded(r)
    /\ Enable(r, ReportCalls(r, begun))
    /\ log'[r] = log[r] \o ReportCalls(r, begun).calls
    /\ req'[r] = [req[r] EXCEPT !.pc = "executing", !.begun = begun]

LEMMA ReportsTyped ==
    ASSUME Types, NEW r \in Requests, Shape(r) \in Shapes[r], Reports(r) \/ ReportsLate(r)
    PROVE  /\ Types' /\ Others(r) /\ conf' = conf
           /\ UNCHANGED <<send, stored, fetch, synced>>
           /\ req[r].pc \in {"reporting", "executing"}
           /\ \E begun \in BOOLEAN : ReportsAs(r, begun)
<1>1. PICK begun \in BOOLEAN :
        /\ UNCHANGED <<send, stored, conf, fetch, synced>>
        /\ \/ req[r].pc = "reporting" /\ (begun <=> ~Shape(r).left)
           \/ /\ req[r].pc = "executing" /\ begun /\ ~req[r].begun
              /\ Shape(r).sends = "no" \/ SendEnded(r)
        /\ Enable(r, ReportCalls(r, begun))
        /\ log' = [log EXCEPT ![r] = @ \o ReportCalls(r, begun).calls]
        /\ req' = [req EXCEPT ![r] = [req[r] EXCEPT !.pc = "executing", !.begun = begun]]
  <2>1. Shape(r).left \in BOOLEAN /\ req[r] \in RequestStates /\ req \in [Requests -> RequestStates]
      BY ShapesAssumption DEF Types
  <2>2. CASE Reports(r)
    <3>1. InReport(r) = ReportCalls(r, ~Shape(r).left)
        BY <2>1 DEF InReport, ReportCalls
    <3>2. /\ UNCHANGED <<send, stored, conf, fetch, synced>>
          /\ req[r].pc = "reporting"
          /\ Enable(r, ReportCalls(r, ~Shape(r).left))
          /\ log' = [log EXCEPT ![r] = @ \o ReportCalls(r, ~Shape(r).left).calls]
        BY <2>2, <3>1 DEF Reports, Logged
    <3>3. req' = [req EXCEPT ![r] =
                    [req[r] EXCEPT !.pc = "executing", !.begun = ~Shape(r).left]]
        BY <2>1, <2>2 DEF Reports
    <3>4. (~Shape(r).left) \in BOOLEAN
        OBVIOUS
    <3> QED BY <3>2, <3>3, <3>4
  <2>3. CASE ReportsLate(r)
    <3>1. BeforeExecution(r) = ReportCalls(r, TRUE)
        BY DEF ReportCalls
    <3>2. /\ UNCHANGED <<send, stored, conf, fetch, synced>>
          /\ req[r].pc = "executing" /\ ~req[r].begun
          /\ Shape(r).sends = "no" \/ SendEnded(r)
          /\ Enable(r, ReportCalls(r, TRUE))
          /\ log' = [log EXCEPT ![r] = @ \o ReportCalls(r, TRUE).calls]
        BY <2>3, <3>1 DEF ReportsLate, Logged
    <3>3. [req[r] EXCEPT !.pc = "executing", !.begun = TRUE] = [req[r] EXCEPT !.begun = TRUE]
        BY <2>1, <3>2 DEF RequestStates
    <3>4. req' = [req EXCEPT ![r] = [req[r] EXCEPT !.begun = TRUE]]
        BY <2>1, <2>3 DEF ReportsLate
    <3> QED BY <3>2, <3>3, <3>4
  <2> QED BY <2>2, <2>3
<1> DEFINE called == ReportCalls(r, begun)
           new == [req[r] EXCEPT !.pc = "executing", !.begun = begun]
<1>2. called.calls \in Seq(Hooks \X Middlewares)
  <2>1. << >> \in Seq(Hooks \X Middlewares)
      OBVIOUS
  <2>2. CASE begun
      BY <2>2, BeforeExecutionTyped DEF ReportCalls
  <2>3. CASE ~begun
      BY <2>1, <2>3, BeforeExecutionTyped DEF ReportCalls
  <2> QED BY <2>2, <2>3
<1>3. new \in RequestStates /\ req' = [req EXCEPT ![r] = new]
    BY <1>1 DEF Types, RequestStates
<1>4. Enable(r, called) /\ log' = [log EXCEPT ![r] = @ \o called.calls]
    BY <1>1
<1> HIDE DEF new, called
<1>5. req' \in [Requests -> RequestStates] /\ req'[r] = new
      /\ \A q \in Requests \ {r} : req'[q] = req[q]
    BY <1>3, RequestTyped
<1>6. /\ log' \in [Requests -> Seq(Hooks \X Middlewares)]
      /\ log'[r] = log[r] \o called.calls
      /\ \A q \in Requests \ {r} : log'[q] = log[q]
    BY <1>2, <1>4, LogTyped
<1>7. logging' \in [Requests \cup Threads -> BOOLEAN]
    BY <1>4, EnableTyped
<1>8. Types' /\ Others(r)
    BY <1>1, <1>5, <1>6, <1>7 DEF Types, Others
<1>9. ReportsAs(r, begun)
    BY <1>1, <1>5, <1>6 DEF ReportsAs, new, called
<1> QED BY <1>1, <1>8, <1>9

\* The hooks around a send are the client's or all of the request's.
LEMMA SendHookTyped ==
    ASSUME NEW r \in Requests, Shape(r) \in Shapes[r],
           NEW hook \in {"before_send_events", "after_send_events"}
    PROVE  /\ hook \in Hooks /\ OfSend(r) \in Seq(Middlewares)
           /\ LET called == Called(OfSend(r), hook, Shape(r).raises, SyncHooks(r))
              IN  /\ called.calls \in Seq(Hooks \X Middlewares)
                  /\ called.error \in BOOLEAN
<1>1. OfSend(r) \in Seq(Middlewares)
    BY ManagersTyped DEF OfSend
<1>2. hook \in Hooks
    BY DEF Hooks, BeforeHooks, AfterHooks
<1> DEFINE called == Called(OfSend(r), hook, Shape(r).raises, SyncHooks(r))
           order == Order(OfSend(r), hook)
<1> HIDE DEF Middlewares
<1>3. called = Called(OfSend(r), hook, Shape(r).raises, SyncHooks(r))
      /\ order = Order(OfSend(r), hook)
    OBVIOUS
<1> HIDE DEF called, order
<1>4. called.calls \in Seq(Hooks \X Middlewares) /\ called.error \in BOOLEAN
    BY <1>1, <1>2, <1>3, CallsOfHook
<1> QED BY <1>1, <1>2, <1>4 DEF called

LEMMA SendTyped ==
    ASSUME Types, NEW r \in Requests, NEW new \in SendStates,
           send' = [send EXCEPT ![r] = new]
    PROVE  /\ send' \in [Requests -> SendStates] /\ send'[r] = new
           /\ \A q \in Requests \ {r} : send'[q] = send[q]
    BY DEF Types

LEMMA SendsTyped ==
    ASSUME Types, NEW r \in Requests, Shape(r) \in Shapes[r], Sends(r)
    PROVE  LET before == Called(OfSend(r), "before_send_events",
                                Shape(r).raises, SyncHooks(r))
               after  == Called(OfSend(r), "after_send_events",
                                Shape(r).raises, SyncHooks(r))
           IN  /\ Types' /\ Others(r) /\ conf' = conf
               /\ UNCHANGED <<req, fetch, stored, synced>>
               /\ IF Shape(r).sends = "client" THEN Quiet(r) ELSE UNCHANGED logging
               /\ req[r].pc = "executing" /\ Shape(r).sends # "no"
               /\ send[r].pc = "unsent"
               /\ \/ /\ send'[r] = [send[r] EXCEPT !.pc = "raised"]
                     /\ \/ log'[r] = log[r] \o before.calls
                        \/ log'[r] = log[r] \o (before.calls \o after.calls)
                  \/ /\ send'[r] = [send[r] EXCEPT !.pc = "trying", !.seed = 1]
                     /\ log'[r] = log[r] \o before.calls
<1> DEFINE before == Called(OfSend(r), "before_send_events",
                            Shape(r).raises, SyncHooks(r))
           after  == Called(OfSend(r), "after_send_events",
                            Shape(r).raises, SyncHooks(r))
           raised == [send[r] EXCEPT !.pc = "raised"]
           trying == [send[r] EXCEPT !.pc = "trying", !.seed = 1]
           S == Hooks \X Middlewares
<1>1. before.calls \in Seq(S) /\ after.calls \in Seq(S)
    BY SendHookTyped
<1>2. UNCHANGED <<req, conf, fetch, stored, synced>>
      /\ req[r].pc = "executing" /\ Shape(r).sends # "no" /\ send[r].pc = "unsent"
    BY DEF Sends, BeginSend
<1>3. IF Shape(r).sends = "client" THEN Quiet(r) ELSE UNCHANGED logging
    BY DEF Sends
<1>4. send \in [Requests -> SendStates]
    BY DEF Types
<1>5. \/ /\ send' = [send EXCEPT ![r].pc = "raised"]
         /\ \/ log' = [log EXCEPT ![r] = @ \o before.calls]
            \/ log' = [log EXCEPT ![r] = @ \o before.calls \o << >>]
            \/ log' = [log EXCEPT ![r] = @ \o before.calls \o after.calls]
      \/ /\ send' = [send EXCEPT ![r].pc = "trying", ![r].seed = 1]
         /\ log' = [log EXCEPT ![r] = @ \o before.calls]
  <2> DEFINE has == conf.eventKey \/ conf.mode = "dev"
  <2>1. BeginSend(r, Shape(r).sends, OfSend(r), has, Shape(r).raises, SyncHooks(r))
      BY DEF Sends
  <2>2. CASE before.error
      BY <2>1, <2>2 DEF BeginSend, Logged
  <2>3. CASE ~before.error /\ ~has
    <3>1. /\ log' = [log EXCEPT ![r] = @ \o before.calls \o
                        (IF Shape(r).sends = "step" THEN after.calls ELSE << >>)]
          /\ send' = [send EXCEPT ![r].pc = "raised"]
        BY <2>1, <2>3 DEF BeginSend
    <3> HIDE DEF before, after
    <3> QED BY <3>1
  <2>4. CASE ~before.error /\ has
      BY <2>1, <2>4 DEF BeginSend, Logged
  <2> QED BY <2>2, <2>3, <2>4
<1> HIDE DEF before, after
<1>6. raised \in SendStates /\ trying \in SendStates
  <2>1. send[r] \in SendStates
      BY <1>4
  <2> QED BY <2>1 DEF SendStates
<1>7. /\ send' \in [Requests -> SendStates]
      /\ \A q \in Requests \ {r} : send'[q] = send[q]
      /\ \/ /\ send'[r] = raised
            /\ \/ log' = [log EXCEPT ![r] = @ \o before.calls]
               \/ log' = [log EXCEPT ![r] = @ \o before.calls \o << >>]
               \/ log' = [log EXCEPT ![r] = @ \o before.calls \o after.calls]
         \/ send'[r] = trying /\ log' = [log EXCEPT ![r] = @ \o before.calls]
  <2>1. CASE send' = [send EXCEPT ![r].pc = "raised"]
    <3>1. send' = [send EXCEPT ![r] = raised]
        BY <1>4, <2>1
    <3>2. /\ send' \in [Requests -> SendStates] /\ send'[r] = raised
          /\ \A q \in Requests \ {r} : send'[q] = send[q]
      <4> HIDE DEF raised
      <4> QED BY <1>6, <3>1, SendTyped
    <3> HIDE DEF raised, trying
    <3> QED BY <1>5, <3>2
  <2>2. CASE /\ send' = [send EXCEPT ![r].pc = "trying", ![r].seed = 1]
             /\ log' = [log EXCEPT ![r] = @ \o before.calls]
    <3>1. send' = [send EXCEPT ![r] = trying]
        BY <1>4, <2>2
    <3>2. /\ send' \in [Requests -> SendStates] /\ send'[r] = trying
          /\ \A q \in Requests \ {r} : send'[q] = send[q]
      <4> HIDE DEF trying
      <4> QED BY <1>6, <3>1, SendTyped
    <3> HIDE DEF raised, trying
    <3> QED BY <2>2, <3>2
  <2> QED BY <1>5, <2>1, <2>2
<1> HIDE DEF raised, trying
<1>8. log[r] \in Seq(S) /\ log \in [Requests -> Seq(S)]
    BY DEF Types
<1> HIDE DEF S
<1>9. /\ before.calls \o << >> = before.calls
      /\ log[r] \o before.calls \o << >> = log[r] \o before.calls
      /\ log[r] \o before.calls \o after.calls = log[r] \o (before.calls \o after.calls)
      /\ before.calls \o after.calls \in Seq(S)
  <2>1. \A s, t \in Seq(S) : s \o t \in Seq(S) /\ s \o << >> = s
      BY ConcatProperties, ConcatEmptySeq
  <2>2. \A s, t, u \in Seq(S) : (s \o t) \o u = s \o (t \o u)
      BY ConcatAssociative
  <2>3. log[r] \o before.calls \in Seq(S) /\ before.calls \o << >> = before.calls
        /\ before.calls \o after.calls \in Seq(S)
      BY <1>1, <1>8, <2>1
  <2>4. (log[r] \o before.calls) \o << >> = log[r] \o before.calls
      BY <2>1, <2>3
  <2>5. (log[r] \o before.calls) \o after.calls = log[r] \o (before.calls \o after.calls)
      BY <1>1, <1>8, <2>2
  <2> QED BY <2>3, <2>4, <2>5
<1>10. ASSUME NEW calls \in Seq(S), log' = [log EXCEPT ![r] = @ \o calls]
       PROVE  /\ log' \in [Requests -> Seq(S)] /\ log'[r] = log[r] \o calls
              /\ \A q \in Requests \ {r} : log'[q] = log[q]
    BY <1>10, LogTyped DEF S
<1>11. /\ log' \in [Requests -> Seq(S)]
       /\ \A q \in Requests \ {r} : log'[q] = log[q]
       /\ \/ /\ send'[r] = raised
             /\ \/ log'[r] = log[r] \o before.calls
                \/ log'[r] = log[r] \o (before.calls \o after.calls)
          \/ send'[r] = trying /\ log'[r] = log[r] \o before.calls
    BY <1>1, <1>7, <1>8, <1>9, <1>10
<1>12. logging' \in [Requests \cup Threads -> BOOLEAN]
    BY <1>3, QuietTyped DEF Types
<1>13. Types' /\ Others(r) /\ conf' = conf
    BY <1>2, <1>7, <1>11, <1>12 DEF Types, Others, S
<1> QED BY <1>2, <1>3, <1>11, <1>13 DEF before, after, raised, trying

LEMMA TriesTyped ==
    ASSUME Types, NEW r \in Requests, send[r].attempts < MaxAttempts, Tries(r)
    PROVE  /\ Types' /\ Others(r) /\ conf' = conf
           /\ UNCHANGED <<req, fetch, log, logging, synced>>
           /\ send[r].pc = "trying"
           /\ \E resp \in Responses \cup {Nobody}, pc \in {"trying", "tried"} :
                /\ send'[r] = [send[r] EXCEPT !.resp = resp, !.attempts = @ + 1, !.pc = pc]
                /\ pc = "trying" => send[r].attempts + 1 < MaxAttempts
                /\ resp \in WithIds => stored' = stored \cup {SeedOf(r)}
                /\ stored' \in {stored, stored \cup {SeedOf(r)}}
<1>1. send[r] \in SendStates /\ send \in [Requests -> SendStates]
    BY DEF Types
<1>2. MaxAttempts \in Nat \ {0}
    BY SendAssumption
<1>3. PICK resp \in Responses \cup {send[r].resp} :
        /\ stored' \in IF resp \in WithIds THEN {stored \cup {SeedOf(r)}}
                       ELSE IF resp \in Responses \ ServerErrors THEN {stored}
                       ELSE {stored, stored \cup {SeedOf(r)}}
        /\ send' = [send EXCEPT
                ![r].resp = resp,
                ![r].attempts = @ + 1,
                ![r].pc = IF Final(resp) \/ send[r].attempts + 1 = MaxAttempts
                          THEN "tried" ELSE @]
    BY DEF Tries, Attempt
<1>4. send[r].pc = "trying" /\ UNCHANGED <<req, conf, fetch, log, logging, synced>>
    BY DEF Tries, Attempt
<1> DEFINE pc == IF Final(resp) \/ send[r].attempts + 1 = MaxAttempts
                 THEN "tried" ELSE send[r].pc
           attempts == send[r].attempts + 1
           new == [send[r] EXCEPT !.resp = resp, !.attempts = attempts, !.pc = pc]
<1>5. /\ resp \in Responses \cup {Nobody} /\ pc \in {"trying", "tried"}
      /\ attempts \in 0 .. MaxAttempts
      /\ pc = "trying" => attempts < MaxAttempts
    BY <1>1, <1>2, <1>4 DEF SendStates
<1>6. send' = [send EXCEPT ![r].resp = resp, ![r].attempts = attempts, ![r].pc = pc]
    BY <1>3
<1> HIDE DEF pc, attempts
<1>7. new \in SendStates
    BY <1>1, <1>5 DEF SendStates
<1>8. send' = [send EXCEPT ![r] = new]
    BY <1>1, <1>6
<1> HIDE DEF new
<1>9. send' \in [Requests -> SendStates] /\ send'[r] = new
      /\ \A q \in Requests \ {r} : send'[q] = send[q]
    BY <1>7, <1>8, SendTyped
<1>10. Types' /\ Others(r) /\ conf' = conf
    BY <1>4, <1>9 DEF Types, Others
<1>11. /\ resp \in WithIds => stored' = stored \cup {SeedOf(r)}
       /\ stored' \in {stored, stored \cup {SeedOf(r)}}
    BY <1>3
<1>12. send'[r] = [send[r] EXCEPT !.resp = resp, !.attempts = @ + 1, !.pc = pc]
    BY <1>9 DEF new, attempts
<1> QED BY <1>4, <1>5, <1>10, <1>11, <1>12 DEF attempts

LEMMA SentTyped ==
    ASSUME Types, NEW r \in Requests, Shape(r) \in Shapes[r], Sent(r)
    PROVE  LET after == Called(OfSend(r), "after_send_events",
                               Shape(r).raises, SyncHooks(r))
           IN  /\ Types' /\ Others(r) /\ conf' = conf
               /\ UNCHANGED <<req, fetch, stored, logging, synced>>
               /\ send[r].pc = "tried"
               /\ \E pc \in {"returned", "raised"} :
                    send'[r] = [send[r] EXCEPT !.pc = pc]
               /\ \/ log' = log
                  \/ log'[r] = log[r] \o after.calls
<1> DEFINE after == Called(OfSend(r), "after_send_events",
                           Shape(r).raises, SyncHooks(r))
<1>1. after.calls \in Seq(Hooks \X Middlewares)
    BY SendHookTyped
<1>2. UNCHANGED <<req, conf, fetch, stored, logging, synced>> /\ send[r].pc = "tried"
    BY DEF Sent, FinishSend
<1>3. /\ \/ log' = log
         \/ log' = [log EXCEPT ![r] = @ \o after.calls]
      /\ \E pc \in {"returned", "raised"} : send' = [send EXCEPT ![r].pc = pc]
    BY DEF Sent, FinishSend, Ends, Logged
<1> HIDE DEF after
<1>4. PICK pc \in {"returned", "raised"} : send' = [send EXCEPT ![r].pc = pc]
    BY <1>3
<1> DEFINE new == [send[r] EXCEPT !.pc = pc]
<1>5. send[r] \in SendStates /\ send' = [send EXCEPT ![r] = new]
    BY <1>4 DEF Types
<1>6. new \in SendStates
    BY <1>5 DEF SendStates
<1> HIDE DEF new
<1>7. send' \in [Requests -> SendStates] /\ send'[r] = new
      /\ \A q \in Requests \ {r} : send'[q] = send[q]
    BY <1>5, <1>6, SendTyped
<1>8. /\ log' \in [Requests -> Seq(Hooks \X Middlewares)]
      /\ \A q \in Requests \ {r} : log'[q] = log[q]
      /\ log' = log \/ log'[r] = log[r] \o after.calls
    BY <1>1, <1>3, LogTyped DEF Types
<1>9. Types' /\ Others(r)
    BY <1>2, <1>7, <1>8 DEF Types, Others
<1> QED BY <1>2, <1>7, <1>8, <1>9 DEF new, after

LEMMA HandlerEndsTyped ==
    ASSUME Types, NEW r \in Requests, Shape(r) \in Shapes[r], HandlerEnds(r)
    PROVE  LET after == Hook(r, "after_execution")
           IN  /\ Types' /\ Others(r) /\ conf' = conf
               /\ UNCHANGED <<send, fetch, stored, logging, synced>>
               /\ req[r].pc = "executing" /\ (Shape(r).sends = "no" \/ SendEnded(r))
               /\ Outcome(r) \in Endings
               /\ \/ /\ Outcome(r) \in Errors /\ log' = log
                     /\ req'[r] = [req[r] EXCEPT !.pc = "ended", !.result = Outcome(r)]
                  \/ /\ Outcome(r) \notin Errors
                     /\ log'[r] = log[r] \o after.calls
                     /\ req'[r] = [req[r] EXCEPT !.pc = "ended",
                            !.result = IF after.error THEN "error" ELSE Outcome(r)]
<1> DEFINE after == Hook(r, "after_execution")
<1>1. "after_execution" \in Hooks
    BY DEF Hooks, AfterHooks
<1>2. after.calls \in Seq(Hooks \X Middlewares) /\ after.error \in BOOLEAN
    BY <1>1, HookTyped
<1>3. Outcome(r) \in Endings
    BY ShapesAssumption DEF Outcome, Endings, Interrupts, Errors
<1>4. UNCHANGED <<send, conf, fetch, stored, logging, synced>>
      /\ req[r].pc = "executing" /\ (Shape(r).sends = "no" \/ SendEnded(r))
    BY DEF HandlerEnds
<1>5. ASSUME NEW result \in Endings,
             req' = [req EXCEPT ![r].pc = "ended", ![r].result = result]
      PROVE  /\ req' \in [Requests -> RequestStates]
             /\ \A q \in Requests \ {r} : req'[q] = req[q]
             /\ req'[r] = [req[r] EXCEPT !.pc = "ended", !.result = result]
  <2> DEFINE new == [req[r] EXCEPT !.pc = "ended", !.result = result]
  <2>1. req[r] \in RequestStates /\ req' = [req EXCEPT ![r] = new]
      BY <1>5 DEF Types
  <2>2. new \in RequestStates
      BY <2>1 DEF RequestStates
  <2> HIDE DEF new
  <2> QED BY <2>1, <2>2, RequestTyped DEF new
<1> DEFINE outcome == Outcome(r)
           result == IF after.error THEN "error" ELSE outcome
<1>6. \/ /\ outcome \in Errors /\ log' = log
         /\ req' = [req EXCEPT ![r].pc = "ended", ![r].result = outcome]
      \/ /\ outcome \notin Errors
         /\ log' = [log EXCEPT ![r] = @ \o after.calls]
         /\ req' = [req EXCEPT ![r].pc = "ended", ![r].result = result]
    BY DEF HandlerEnds, Logged
<1> HIDE DEF after, outcome
<1>7. outcome \in Endings /\ result \in Endings
    BY <1>3 DEF outcome, Endings, Errors
<1> HIDE DEF result
<1>8. CASE /\ outcome \in Errors /\ log' = log
           /\ req' = [req EXCEPT ![r].pc = "ended", ![r].result = outcome]
  <2>1. /\ req' \in [Requests -> RequestStates]
        /\ \A q \in Requests \ {r} : req'[q] = req[q]
        /\ req'[r] = [req[r] EXCEPT !.pc = "ended", !.result = outcome]
      BY <1>5, <1>7, <1>8
  <2>2. Types' /\ Others(r)
      BY <1>4, <1>8, <2>1 DEF Types, Others
  <2> QED BY <1>3, <1>4, <1>8, <2>1, <2>2 DEF outcome
<1>9. CASE /\ outcome \notin Errors
           /\ log' = [log EXCEPT ![r] = @ \o after.calls]
           /\ req' = [req EXCEPT ![r].pc = "ended", ![r].result = result]
  <2>1. /\ req' \in [Requests -> RequestStates]
        /\ \A q \in Requests \ {r} : req'[q] = req[q]
        /\ req'[r] = [req[r] EXCEPT !.pc = "ended", !.result = result]
      BY <1>5, <1>7, <1>9
  <2>2. /\ log' \in [Requests -> Seq(Hooks \X Middlewares)]
        /\ \A q \in Requests \ {r} : log'[q] = log[q]
        /\ log'[r] = log[r] \o after.calls
      BY <1>2, <1>9, LogTyped
  <2>3. Types' /\ Others(r)
      BY <1>4, <2>1, <2>2 DEF Types, Others
  <2> QED BY <1>3, <1>4, <1>9, <2>1, <2>2, <2>3 DEF outcome, result, after
<1> QED BY <1>6, <1>8, <1>9

LEMMA DeliveredTyped ==
    ASSUME Types, NEW r \in Requests, NEW result \in Endings,
           req[r].stream \in {"no", "open", "gone"}
    PROVE  LET answer == Delivered(r, FromCallResult(r, result))
           IN  /\ answer \in AnswerStates
               /\ answer.key # None => answer.key = Signed(req[r].key)
               /\ req[r].stream # "gone" =>
                    /\ answer.body = IF result = "unserializable" THEN "error" ELSE result
                    /\ answer.status = IF result \in Interrupts THEN 206
                                       ELSE IF result = "output" THEN 200 ELSE 500
               /\ req[r].stream = "gone" => answer = NoAnswer
<1> DEFINE status == IF result \in Interrupts THEN 206
                     ELSE IF result = "output" THEN 200 ELSE 500
           body == IF result = "unserializable" THEN "error" ELSE result
           noRetry == result \in {"non-retriable", "failed step"}
           retryAfter == result = "retry after"
           plain == Answer(r, status, body)
           full == [plain EXCEPT !.noRetry = noRetry, !.retryAfter = retryAfter]
<1>1. FromCallResult(r, result) = full
    BY DEF FromCallResult
<1>2. status \in Nat /\ body \in Bodies /\ noRetry \in BOOLEAN /\ retryAfter \in BOOLEAN
  <2>1. status \in Nat
      OBVIOUS
  <2>2. body \in Bodies
      BY DEF Bodies, Endings, Errors
  <2>3. noRetry \in BOOLEAN
      OBVIOUS
  <2>4. retryAfter \in BOOLEAN
      OBVIOUS
  <2> HIDE DEF status, body, noRetry, retryAfter
  <2> QED BY <2>1, <2>2, <2>3, <2>4
<1> HIDE DEF status, body, noRetry, retryAfter
<1>3. plain \in AnswerStates /\ plain.status = status /\ plain.body = body
      /\ plain.key = Signed(req[r].key)
    BY <1>2, AnswerTyped, ZenonT(30)
<1> HIDE DEF plain
<1>4. full \in AnswerStates
    BY <1>2, <1>3 DEF AnswerStates
<1>5. /\ full.status = status /\ full.body = body /\ full.key = Signed(req[r].key)
      /\ full.noRetry = noRetry /\ full.retryAfter = retryAfter
    BY <1>3 DEF AnswerStates
<1> HIDE DEF full
<1>6. CASE req[r].stream = "no"
  <2>1. Delivered(r, full) = full
      BY <1>6 DEF Delivered
  <2> QED BY <1>1, <1>4, <1>5, <1>6, <2>1, ZenonT(30) DEF status, body, noRetry, retryAfter
<1>7. CASE req[r].stream = "open"
  <2> DEFINE unsigned == [full EXCEPT !.key = None]
  <2>1. Delivered(r, full) = unsigned
      BY <1>7 DEF Delivered
  <2>2. /\ unsigned \in AnswerStates /\ unsigned.key = None
        /\ unsigned.status = status /\ unsigned.body = body
        /\ unsigned.noRetry = noRetry /\ unsigned.retryAfter = retryAfter
      BY <1>4, <1>5 DEF AnswerStates
  <2> HIDE DEF unsigned
  <2> QED BY <1>1, <1>7, <2>1, <2>2 DEF status, body, noRetry, retryAfter
<1>8. CASE req[r].stream = "gone"
  <2>1. Delivered(r, full) = NoAnswer
      BY <1>8 DEF Delivered
  <2>2. NoAnswer \in AnswerStates /\ NoAnswer.key = None
      BY DEF NoAnswer, AnswerStates, Bodies
  <2> QED BY <1>1, <1>8, <2>1, <2>2
<1> QED BY <1>6, <1>7, <1>8

\* What the Executor is told of retries.
LEMMA DeliveredRetries ==
    ASSUME Types, NEW r \in Requests, NEW result \in Endings,
           req[r].stream \in {"no", "open"}
    PROVE  LET answer == Delivered(r, FromCallResult(r, result))
           IN  /\ answer.noRetry = (result \in {"non-retriable", "failed step"})
               /\ answer.retryAfter = (result = "retry after")
<1> DEFINE status == IF result \in Interrupts THEN 206
                     ELSE IF result = "output" THEN 200 ELSE 500
           body == IF result = "unserializable" THEN "error" ELSE result
           noRetry == result \in {"non-retriable", "failed step"}
           retryAfter == result = "retry after"
           plain == Answer(r, status, body)
           full == [plain EXCEPT !.noRetry = noRetry, !.retryAfter = retryAfter]
<1>1. FromCallResult(r, result) = full
    BY DEF FromCallResult
<1>2. status \in Nat /\ body \in Bodies /\ noRetry \in BOOLEAN /\ retryAfter \in BOOLEAN
  <2>1. status \in Nat
      OBVIOUS
  <2>2. body \in Bodies
      BY DEF Bodies, Endings, Errors
  <2>3. noRetry \in BOOLEAN
      OBVIOUS
  <2>4. retryAfter \in BOOLEAN
      OBVIOUS
  <2> HIDE DEF status, body, noRetry, retryAfter
  <2> QED BY <2>1, <2>2, <2>3, <2>4
<1> HIDE DEF status, body, noRetry, retryAfter
<1>3. plain \in AnswerStates /\ plain.status = status /\ plain.body = body
      /\ plain.key = Signed(req[r].key)
    BY <1>2, AnswerTyped, ZenonT(30)
<1> HIDE DEF plain
<1>4. full \in AnswerStates
    BY <1>2, <1>3 DEF AnswerStates
<1>5. /\ full.status = status /\ full.body = body /\ full.key = Signed(req[r].key)
      /\ full.noRetry = noRetry /\ full.retryAfter = retryAfter
    BY <1>3 DEF AnswerStates
<1> HIDE DEF full
<1>6. CASE req[r].stream = "no"
  <2>1. Delivered(r, full) = full
      BY <1>6 DEF Delivered
  <2> QED BY <1>1, <1>4, <1>5, <1>6, <2>1 DEF status, body, noRetry, retryAfter
<1>7. CASE req[r].stream = "open"
  <2> DEFINE unsigned == [full EXCEPT !.key = None]
  <2>1. Delivered(r, full) = unsigned
      BY <1>7 DEF Delivered
  <2>2. /\ unsigned \in AnswerStates /\ unsigned.key = None
        /\ unsigned.status = status /\ unsigned.body = body
        /\ unsigned.noRetry = noRetry /\ unsigned.retryAfter = retryAfter
      BY <1>4, <1>5 DEF AnswerStates
  <2> HIDE DEF unsigned
  <2> QED BY <1>1, <1>7, <2>1, <2>2 DEF status, body, noRetry, retryAfter
<1> QED BY <1>6, <1>7

LEMMA RepliesTyped ==
    ASSUME Types, NEW r \in Requests, Shape(r) \in Shapes[r], Replies(r),
           req[r].result # "none", req[r].stream # "done"
    PROVE  LET output   == Transformed(r)
               response == Hook(r, "before_response")
               result   == IF output.error \/ response.error THEN "error"
                           ELSE req[r].result
           IN  /\ Types' /\ Others(r) /\ conf' = conf
               /\ UNCHANGED <<send, stored, fetch, logging, synced>>
               /\ req[r].pc = "ended" /\ result \in Endings
               /\ log'[r] = log[r] \o (output.calls \o
                      (IF output.error THEN << >> ELSE response.calls))
               /\ req'[r] = [req[r] EXCEPT !.pc = "answered", !.thread = Nobody,
                     !.result = result,
                     !.stream = IF @ = "open" THEN "done" ELSE @,
                     !.answer = Delivered(r, FromCallResult(r, result))]
<1> DEFINE output   == Transformed(r)
           response == Hook(r, "before_response")
           result   == IF output.error \/ response.error THEN "error"
                       ELSE req[r].result
           last     == IF output.error THEN << >> ELSE response.calls
           stream   == IF req[r].stream = "open" THEN "done" ELSE req[r].stream
           answer   == Delivered(r, FromCallResult(r, result))
           S        == Hooks \X Middlewares
<1>1. "transform_output" \in Hooks /\ "before_response" \in Hooks
    BY DEF Hooks, BeforeHooks, AfterHooks
<1>2. output.calls \in Seq(S) /\ response.calls \in Seq(S) /\ << >> \in Seq(S)
    BY <1>1, HookTyped DEF Transformed, NoCalls
<1>3. UNCHANGED <<send, stored, conf, fetch, logging, synced>> /\ req[r].pc = "ended"
    BY DEF Replies
<1>4. log' = [log EXCEPT ![r] = @ \o output.calls \o last]
    BY DEF Replies
<1>5. req' = [req EXCEPT ![r].pc = "answered", ![r].thread = Nobody,
                ![r].result = result, ![r].stream = stream, ![r].answer = answer]
    BY DEF Replies
<1>6. req[r] \in RequestStates /\ log[r] \in Seq(S)
    BY DEF Types
<1> HIDE DEF output, response
<1>7. result \in Endings /\ stream \in {"no", "open", "gone", "done"}
      /\ req[r].stream \in {"no", "open", "gone"}
    BY <1>6 DEF RequestStates, Endings, Errors
<1> HIDE DEF result, stream
<1>8. answer \in AnswerStates
    BY <1>7, DeliveredTyped
<1> HIDE DEF answer
<1> DEFINE new == [req[r] EXCEPT !.pc = "answered", !.thread = Nobody,
                        !.result = result, !.stream = stream, !.answer = answer]
<1>9. new \in RequestStates
    BY <1>6, <1>7, <1>8 DEF RequestStates
<1>10. req' = [req EXCEPT ![r] = new]
    BY <1>5 DEF Types
<1> HIDE DEF new
<1>11. req' \in [Requests -> RequestStates] /\ req'[r] = new
       /\ \A q \in Requests \ {r} : req'[q] = req[q]
    BY <1>9, <1>10, RequestTyped
<1>12. last \in Seq(S)
    BY <1>2
<1> HIDE DEF last
<1>13. /\ log' \in [Requests -> Seq(S)]
       /\ log'[r] = log[r] \o (output.calls \o last)
       /\ \A q \in Requests \ {r} : log'[q] = log[q]
  <2> DEFINE more == output.calls \o last
  <2> HIDE DEF S
  <2>1. \A s, t \in Seq(S) : s \o t \in Seq(S)
      BY ConcatProperties
  <2>2. \A s, t, u \in Seq(S) : (s \o t) \o u = s \o (t \o u)
      BY ConcatAssociative
  <2>3. more \in Seq(S) /\ (log[r] \o output.calls) \o last = log[r] \o more
    <3>1. more \in Seq(S)
        BY <1>2, <1>12, <2>1
    <3>2. (log[r] \o output.calls) \o last = log[r] \o (output.calls \o last)
        BY <1>2, <1>6, <1>12, <2>2
    <3> QED BY <3>1, <3>2
  <2>4. log' = [log EXCEPT ![r] = @ \o more]
      BY <1>4, <2>3
  <2> HIDE DEF more
  <2>5. /\ log' \in [Requests -> Seq(S)] /\ log'[r] = log[r] \o more
        /\ \A q \in Requests \ {r} : log'[q] = log[q]
      BY <2>3, <2>4, LogTyped DEF S
  <2> QED BY <2>5 DEF more
<1>14. Types' /\ Others(r)
    BY <1>3, <1>11, <1>13 DEF Types, Others
<1> QED BY <1>3, <1>7, <1>11, <1>13, <1>14
        DEF new, answer, stream, last, result, output, response

LEMMA RepliesMoves ==
    ASSUME Types, NEW r \in Requests, Shape(r) \in Shapes[r], Replies(r),
           req[r].result # "none", req[r].stream # "done"
    PROVE  \E result, stream, answer :
              req'[r] = [req[r] EXCEPT !.pc = "answered", !.thread = Nobody,
                            !.result = result, !.stream = stream, !.answer = answer]
<1> DEFINE result == IF Transformed(r).error \/ Hook(r, "before_response").error
                     THEN "error" ELSE req[r].result
           stream == IF req[r].stream = "open" THEN "done" ELSE req[r].stream
           answer == Delivered(r, FromCallResult(r, result))
<1>1. req'[r] = [req[r] EXCEPT !.pc = "answered", !.thread = Nobody,
                        !.result = result, !.stream = stream, !.answer = answer]
    BY RepliesTyped
<1> HIDE DEF result, stream, answer
<1> QED BY <1>1

LEMMA HangsUpTyped ==
    ASSUME Types, NEW r \in Requests, HangsUp(r)
    PROVE  /\ Types' /\ Others(r) /\ conf' = conf
           /\ UNCHANGED <<sending, fetch, logging, synced>>
           /\ req[r].stream = "open" /\ req[r].pc # "answered"
           /\ req'[r] = [req[r] EXCEPT !.stream = "gone"]
<1> DEFINE new == [req[r] EXCEPT !.stream = "gone"]
<1>1. req[r] \in RequestStates /\ req' = [req EXCEPT ![r] = new]
    BY DEF Types, HangsUp
<1>2. new \in RequestStates
    BY <1>1 DEF RequestStates
<1> HIDE DEF new
<1>3. req' \in [Requests -> RequestStates] /\ req'[r] = new
      /\ \A q \in Requests \ {r} : req'[q] = req[q]
    BY <1>1, <1>2, RequestTyped
<1>4. UNCHANGED <<sending, conf, fetch, logging, synced>>
    BY DEF HangsUp
<1>5. Types' /\ Others(r)
    BY <1>3, <1>4 DEF Types, Others, sending
<1> QED BY <1>3, <1>4, <1>5 DEF new, HangsUp

-----------------------------------------------------------------------------
(* What a request goes through before its function is called: it is         *)
(* answered, or its exception leaves the handler, or it awaits a fetch, or  *)
(* its function is called.                                                  *)

Before(r) ==
    \/ Unverifiable(r) \/ Unauthorized(r) \/ Post(r) \/ Put(r) \/ Inspect(r)
    \/ Gathered(r) \/ FetchedSync(r) \/ Registered(r)

Turned(r) ==
    /\ req[r].pc \in {"arrived", "fetching", "registering"}
    /\ fetch' = fetch
    /\ logging' = logging \/ Quiet(r)
    /\ \E answer \in AnswerStates :
        /\ req'[r] = [req[r] EXCEPT !.pc = "answered", !.thread = Nobody,
                                    !.answer = answer]
        /\ answer.key # None => answer.key = Signed(req[r].key)
        /\ answer.body # "output"
        /\ answer.body = "functions" => ~IsError(req[r].key) /\ req[r].key # None
        /\ answer.body = "authenticated" => req[r].key \in Keys

Left(r) ==
    /\ req[r].pc \in {"arrived", "fetching"}
    /\ req'[r] = [req[r] EXCEPT !.pc = "escaped", !.thread = Nobody]
    /\ fetch' = fetch /\ logging' = logging

Awaits(r) ==
    \/ /\ req[r].pc = "arrived" /\ Shape(r).method = "POST" /\ ~IsError(req[r].key)
       /\ req'[r] = [req[r] EXCEPT !.pc = "fetching"]
       /\ fetch'[r] = Starts(r)
       /\ Quiet(r)
    \/ /\ req[r].pc = "fetching" /\ req' = req
       /\ fetch'[r] = [fetch[r] EXCEPT !["steps"] = "first"]
       /\ logging' = logging
    \/ /\ req[r].pc = "arrived"
       /\ req'[r] = [req[r] EXCEPT !.pc = "registering"]
       /\ ~OtherServer(r) /\ conf.functions # {}
       /\ fetch'[r] = [fetch[r] EXCEPT !["register"] = "first"]
       /\ logging' = logging

Proceeds(r) ==
    /\ \/ /\ req[r].pc = "arrived" /\ Shape(r).method = "POST"
          /\ ~IsError(req[r].key) /\ ~Shape(r).useApi
          /\ Quiet(r)
       \/ req[r].pc = "fetching" /\ Usable(r) /\ logging' = logging
    /\ \E pc \in {"called", "queued"}, stream \in {"no", "open"} :
        /\ req'[r] = [req[r] EXCEPT !.pc = pc, !.stream = stream]
        /\ pc = "queued" => ~Sync
    /\ fetch' = fetch

LEMMA AnswersTurns ==
    ASSUME Types, NEW r \in Requests, NEW status \in Nat, NEW body \in Bodies,
           Answers(r, status, body), fetch' = fetch, logging' = logging \/ Quiet(r),
           req[r].pc \in {"arrived", "fetching", "registering"},
           body # "output",
           body = "functions" => ~IsError(req[r].key) /\ req[r].key # None,
           body = "authenticated" => req[r].key \in Keys
    PROVE  Turned(r)
<1> DEFINE answer == Answer(r, status, body)
<1>1. req'[r] = [req[r] EXCEPT !.pc = "answered", !.thread = Nobody, !.answer = answer]
    BY AnswersTyped, ZenonT(30)
<1>2. answer \in AnswerStates /\ answer.body = body /\ answer.key = Signed(req[r].key)
    BY AnswerTyped, ZenonT(30)
<1> HIDE DEF answer
<1> QED BY <1>1, <1>2 DEF Turned

LEMMA BeforeTyped ==
    ASSUME Types, NEW r \in Requests, Before(r)
    PROVE  /\ Types' /\ Others(r) /\ conf' = conf
           /\ UNCHANGED <<sending, synced>>
           /\ Turned(r) \/ Left(r) \/ Awaits(r) \/ Proceeds(r)
<1>1. 500 \in Nat /\ "error" \in Bodies /\ "nothing" \in Bodies
    BY DEF Bodies, Endings, Errors
<1>2. fetch[r] \in [Fetches -> FetchStates \cup {"none"}]
    BY DEF Types
<1>3. CASE Unauthorized(r)
  <2>1. req[r].pc = "arrived" /\ UNCHANGED <<sending, conf, fetch, logging, synced>>
      BY <1>3 DEF Unauthorized
  <2>2. Turned(r)
      BY <1>3, <2>1, UnauthorizedTyped DEF Turned
  <2> QED BY <1>3, <2>1, <2>2, UnauthorizedTyped
<1>4. CASE Post(r)
  <2>1. req[r].pc = "arrived" /\ UNCHANGED <<sending, conf, synced>>
        /\ Shape(r).method = "POST" /\ ~IsError(req[r].key)
        /\ Types' /\ Others(r) /\ conf' = conf
      BY <1>4, PostTyped DEF Post
  <2>2. (logging' = logging \/ Quiet(r)) /\ (~Shape(r).probe => Quiet(r))
      BY <1>4 DEF Post
  <2>3. CASE fetch' = fetch /\ \E status \in Nat, body \in {"nothing", "error"} :
                                    Answers(r, status, body)
    <3>1. PICK status \in Nat, body \in {"nothing", "error"} : Answers(r, status, body)
        BY <2>3
    <3> QED BY <1>1, <2>1, <2>2, <2>3, <3>1, AnswersTurns
  <2>4. CASE /\ Goes(r, "fetching") /\ ~Shape(r).probe
             /\ fetch' = [fetch EXCEPT ![r] = Starts(r)]
    <3>1. fetch'[r] = Starts(r)
        BY <2>4 DEF Types
    <3> QED BY <2>1, <2>2, <2>4, <3>1, GoesTyped DEF Awaits
  <2>5. CASE Calls(r) /\ ~Shape(r).useApi /\ ~Shape(r).probe /\ fetch' = fetch
      BY <2>1, <2>2, <2>5, CallsTyped DEF Proceeds
  <2> QED BY <1>4, <2>1, <2>3, <2>4, <2>5, PostTyped
<1>5. CASE Put(r) \/ Registered(r) \/ Inspect(r)
  <2>1. Types' /\ Others(r) /\ conf' = conf /\ UNCHANGED <<sending, logging, synced>>
        /\ req[r].pc \in {"arrived", "registering"}
      BY <1>5, OtherTyped
  <2>2. CASE /\ fetch' = fetch
             /\ \E status \in Nat, body \in Bodies :
                      /\ Answers(r, status, body)
                      /\ body \in {"error", "functions", "server", "nothing",
                                   "authenticated", "unauthenticated"}
                      /\ body = "functions" => ~IsError(req[r].key) /\ req[r].key # None
                      /\ body = "authenticated" => req[r].key \in Keys
      BY <2>1, <2>2, AnswersTurns
  <2>3. CASE /\ Goes(r, "registering") /\ req[r].pc = "arrived"
             /\ ~OtherServer(r) /\ conf.functions # {}
             /\ fetch' = [fetch EXCEPT ![r]["register"] = "first"]
    <3>1. fetch'[r] = [fetch[r] EXCEPT !["register"] = "first"]
        BY <2>3 DEF Types
    <3> QED BY <2>1, <2>3, <3>1, GoesTyped DEF Awaits
  <2> QED BY <1>5, <2>1, <2>2, <2>3, OtherTyped
<1>6. CASE Gathered(r) \/ FetchedSync(r)
  <2>1. Types' /\ Others(r) /\ conf' = conf /\ UNCHANGED <<sending, logging, synced>>
        /\ req[r].pc = "fetching"
      BY <1>6, FetchedTyped
  <2>2. CASE Escapes(r) /\ fetch' = fetch
      BY <2>1, <2>2, EscapesTyped DEF Left
  <2>3. CASE Calls(r) /\ Usable(r) /\ fetch' = fetch
      BY <2>1, <2>3, CallsTyped DEF Proceeds
  <2>4. CASE Answers(r, 500, "error") /\ fetch' = fetch
    <3>1. PICK status \in Nat : Answers(r, status, "error")
        BY <1>1, <2>4, Zenon
    <3> QED BY <1>1, <2>1, <2>4, <3>1, AnswersTurns
  <2>5. CASE req' = req /\ fetch' = [fetch EXCEPT ![r]["steps"] = "first"]
    <3>1. fetch'[r] = [fetch[r] EXCEPT !["steps"] = "first"]
        BY <2>5 DEF Types
    <3> QED BY <2>1, <2>5, <3>1 DEF Awaits
  <2> QED BY <1>6, <2>1, <2>2, <2>3, <2>4, <2>5, FetchedTyped
<1>7. CASE Unverifiable(r)
  <2>1. /\ req[r].pc = "arrived" /\ UNCHANGED <<sending, conf, fetch, logging, synced>>
        /\ Escapes(r)
      BY <1>7 DEF Unverifiable
  <2>2. /\ req' \in [Requests -> RequestStates]
        /\ \A q \in Requests \ {r} : req'[q] = req[q]
        /\ req'[r] = [req[r] EXCEPT !.pc = "escaped", !.thread = Nobody]
      BY <2>1, EscapesTyped
  <2>3. Types' /\ Others(r)
      BY <2>1, <2>2 DEF Types, Others, sending
  <2> QED BY <2>1, <2>2, <2>3 DEF Left
<1> QED BY <1>3, <1>4, <1>5, <1>6, <1>7 DEF Before

-----------------------------------------------------------------------------
(* Every step is one request's, and keeps the types and the progress.       *)

LEMMA NextIsStep ==
    ASSUME [Next]_vars
    PROVE  UNCHANGED vars \/ \E r \in Requests : Step(r)
    BY DEF Next, Step

LEMMA ProgressKept ==
    ASSUME Types, NEW r \in Requests, Progress(r), Step(r)
    PROVE  Types' /\ Others(r) /\ conf' = conf /\ Progress(r)'
<1>1. req[r] \in RequestStates
    BY DEF Types
<1>2. ASSUME req[r].pc # "idle" PROVE Shape(r) \in Shapes[r]
    BY <1>2 DEF Progress, Shape
<1>3. req[r].pc # "answered" => req[r].answer = NoAnswer /\ req[r].stream # "done"
    BY DEF Progress
<1>4. ASSUME NEW shape \in Shapes[r], Arrive(r, shape)
      PROVE  Types' /\ Others(r) /\ conf' = conf /\ Progress(r)'
  <2>1. req[r].pc = "idle" /\ UNCHANGED <<sending, fetch>>
      BY <1>4 DEF Arrive
  <2> QED BY <1>4, <2>1, ArriveTyped DEF Progress, sending, Unsent
<1>5. ASSUME Before(r)
      PROVE  Types' /\ Others(r) /\ conf' = conf /\ Progress(r)'
  <2>1. Types' /\ Others(r) /\ conf' = conf /\ UNCHANGED sending
      BY <1>5, BeforeTyped
  <2>2. CASE Turned(r)
    <3>1. PICK answer \in AnswerStates :
            req'[r] = [req[r] EXCEPT !.pc = "answered", !.thread = Nobody,
                                     !.answer = answer]
        BY <2>2 DEF Turned
    <3> QED BY <1>1, <2>1, <2>2, <3>1 DEF Turned, Progress, RequestStates, sending
  <2>3. CASE Left(r)
      BY <1>1, <2>1, <2>3 DEF Left, Progress, RequestStates, sending
  <2>4. CASE Awaits(r)
      BY <1>1, <2>1, <2>4 DEF Awaits, Progress, RequestStates, sending
  <2>5. CASE Proceeds(r)
    <3>1. PICK pc \in {"called", "queued"}, stream \in {"no", "open"} :
            req'[r] = [req[r] EXCEPT !.pc = pc, !.stream = stream]
        BY <2>5 DEF Proceeds
    <3> QED BY <1>1, <2>1, <2>5, <3>1 DEF Proceeds, Progress, RequestStates, sending
  <2> QED BY <1>5, <2>2, <2>3, <2>4, <2>5, BeforeTyped
<1>6. ASSUME NEW t \in Threads, StartsOnPool(r, t)
      PROVE  Types' /\ Others(r) /\ conf' = conf /\ Progress(r)'
  <2>1. /\ Types' /\ Others(r) /\ conf' = conf
        /\ UNCHANGED <<sending, fetch>> /\ req[r].pc = "queued"
        /\ req'[r] = [req[r] EXCEPT !.pc = "called", !.thread = t]
      BY <1>6, StartsOnPoolTyped
  <2> QED BY <1>1, <2>1 DEF Progress, RequestStates, sending
<1>7. ASSUME Begins(r)
       PROVE  Types' /\ Others(r) /\ conf' = conf /\ Progress(r)'
  <2>1. Shape(r) \in Shapes[r] /\ req[r].pc = "called"
      BY <1>2, <1>7 DEF Begins
  <2>2. Types' /\ Others(r) /\ conf' = conf /\ UNCHANGED <<send, fetch>>
      BY <1>7, <2>1, BeginsTyped
  <2>3. PICK begun \in BOOLEAN, result \in Endings \cup {"none"},
             pc \in {"ended", "reporting", "executing"} :
            /\ req'[r] = [req[r] EXCEPT !.begun = begun, !.result = result, !.pc = pc]
            /\ pc = "ended" => result = "error"
      BY <1>7, <2>1, BeginsMoves
  <2> QED BY <1>1, <2>1, <2>2, <2>3 DEF Progress, RequestStates
<1>8. ASSUME Reports(r) \/ ReportsLate(r)
       PROVE  Types' /\ Others(r) /\ conf' = conf /\ Progress(r)'
  <2>1. Shape(r) \in Shapes[r] /\ req[r].pc \in {"reporting", "executing"}
      BY <1>2, <1>8 DEF Reports, ReportsLate
  <2>2. /\ Types' /\ Others(r) /\ conf' = conf /\ UNCHANGED <<send, fetch>>
        /\ \E begun \in BOOLEAN : ReportsAs(r, begun)
      BY <1>8, <2>1, ReportsTyped
  <2>3. PICK begun \in BOOLEAN :
            req'[r] = [req[r] EXCEPT !.pc = "executing", !.begun = begun]
      BY <2>2 DEF ReportsAs
  <2> QED BY <1>1, <2>1, <2>2, <2>3 DEF Progress, RequestStates
<1>9. ASSUME Sends(r)
       PROVE  Types' /\ Others(r) /\ conf' = conf /\ Progress(r)'
  <2>1. Shape(r) \in Shapes[r] /\ req[r].pc = "executing"
      BY <1>2, <1>9 DEF Sends
  <2>2. /\ Types' /\ Others(r) /\ conf' = conf /\ UNCHANGED <<req, fetch>>
        /\ send[r].pc = "unsent" /\ req[r].shape.sends # "no"
        /\ \/ send'[r] = [send[r] EXCEPT !.pc = "raised"]
           \/ send'[r] = [send[r] EXCEPT !.pc = "trying", !.seed = 1]
      BY <1>9, <2>1, SendsTyped DEF Shape
  <2>3. send[r] \in SendStates /\ MaxAttempts \in Nat \ {0}
      BY SendAssumption DEF Types
  <2>4. send'[r].pc \in {"raised", "trying"} /\ send'[r].attempts = 0
      BY <2>2, <2>3 DEF Progress, SendStates
  <2> QED BY <2>1, <2>2, <2>3, <2>4 DEF Progress
<1>10. ASSUME Tries(r)
       PROVE  Types' /\ Others(r) /\ conf' = conf /\ Progress(r)'
  <2>1. send[r].pc = "trying"
      BY <1>10 DEF Tries, Attempt
  <2>2. send[r].attempts < MaxAttempts
      BY <2>1 DEF Progress
  <2>3. Types' /\ Others(r) /\ conf' = conf /\ UNCHANGED <<req, fetch, log>>
      BY <1>10, <2>2, TriesTyped
  <2>4. PICK resp \in Responses \cup {Nobody}, pc \in {"trying", "tried"} :
            /\ send'[r] = [send[r] EXCEPT !.resp = resp, !.attempts = @ + 1, !.pc = pc]
            /\ pc = "trying" => send[r].attempts + 1 < MaxAttempts
      BY <1>10, <2>2, TriesTyped
  <2>5. send[r] \in SendStates
      BY DEF Types
  <2>6. send'[r].pc = pc /\ send'[r].attempts = send[r].attempts + 1
      BY <2>4, <2>5 DEF SendStates
  <2>7. req[r].pc = "executing" /\ req[r].shape.sends # "no"
      BY <2>1 DEF Progress
  <2> QED BY <2>3, <2>4, <2>6, <2>7 DEF Progress
<1>11. ASSUME Sent(r)
       PROVE  Types' /\ Others(r) /\ conf' = conf /\ Progress(r)'
  <2>1. send[r].pc = "tried"
      BY <1>11 DEF Sent, FinishSend
  <2>2. send[r] \in SendStates
      BY DEF Types
  <2>3. req[r].pc = "executing" /\ req[r].shape.sends # "no"
      BY <2>1 DEF Progress
  <2>4. /\ Types' /\ Others(r) /\ conf' = conf /\ UNCHANGED <<req, fetch>>
        /\ \E pc \in {"returned", "raised"} : send'[r] = [send[r] EXCEPT !.pc = pc]
      BY <1>2, <1>11, <2>3, SentTyped
  <2> QED BY <2>2, <2>3, <2>4 DEF Progress, SendStates
<1>12. ASSUME HandlerEnds(r)
       PROVE  Types' /\ Others(r) /\ conf' = conf /\ Progress(r)'
  <2>1. Shape(r) \in Shapes[r] /\ req[r].pc = "executing"
      BY <1>2, <1>12 DEF HandlerEnds
  <2>2. /\ Types' /\ Others(r) /\ conf' = conf /\ UNCHANGED <<send, fetch>>
        /\ \E result \in Endings :
              req'[r] = [req[r] EXCEPT !.pc = "ended", !.result = result]
    <3>1. "error" \in Endings
        BY DEF Endings, Errors
    <3> QED BY <1>12, <2>1, <3>1, HandlerEndsTyped
  <2>3. "none" \notin Endings
      BY DEF Endings, Errors, Interrupts
  <2>4. send[r].pc \notin {"trying", "tried"}
      BY <1>12 DEF HandlerEnds, Progress, SendEnded, Shape
  <2> QED BY <1>1, <2>1, <2>2, <2>3, <2>4 DEF Progress, RequestStates
<1>13. ASSUME Replies(r)
       PROVE  Types' /\ Others(r) /\ conf' = conf /\ Progress(r)'
  <2>1. Shape(r) \in Shapes[r] /\ req[r].pc = "ended" /\ req[r].result # "none"
        /\ req[r].stream # "done"
      BY <1>2, <1>13 DEF Replies, Progress
  <2>2. /\ Types' /\ Others(r) /\ conf' = conf /\ UNCHANGED <<send, fetch>>
        /\ \E result, stream, answer :
              req'[r] = [req[r] EXCEPT !.pc = "answered", !.thread = Nobody,
                            !.result = result, !.stream = stream, !.answer = answer]
      BY <1>13, <2>1, RepliesTyped, RepliesMoves
  <2> QED BY <1>1, <2>1, <2>2 DEF Progress, RequestStates
<1>14. ASSUME HangsUp(r)
       PROVE  Types' /\ Others(r) /\ conf' = conf /\ Progress(r)'
  <2>1. /\ Types' /\ Others(r) /\ conf' = conf /\ UNCHANGED <<sending, fetch>>
        /\ req[r].stream = "open" /\ req[r].pc # "answered"
        /\ req'[r] = [req[r] EXCEPT !.stream = "gone"]
      BY <1>14, HangsUpTyped
  <2> QED BY <1>1, <2>1 DEF Progress, RequestStates, sending
<1>15. ASSUME NEW f \in Fetches, FetchAnswer(r, f)
       PROVE  Types' /\ Others(r) /\ conf' = conf /\ Progress(r)'
  <2>1. /\ Types' /\ Others(r) /\ conf' = conf /\ UNCHANGED <<sending, req>>
        /\ req[r].pc \in {"fetching", "registering"}
      BY <1>15, FetchAnswerTyped
  <2> QED BY <1>1, <2>1 DEF Progress, sending
<1> QED BY <1>4, <1>5, <1>6, <1>7, <1>8, <1>9, <1>10, <1>11, <1>12, <1>13,
           <1>14, <1>15 DEF Step, Handle, Network, Before

LEMMA ProgressElsewhere ==
    ASSUME NEW r \in Requests, NEW q \in Requests \ {r}, Others(r), Progress(q)
    PROVE  Progress(q)'
    BY DEF Others, Progress

\* After its arrival a request keeps its shape and the key it was signed with,
\* and its thread until it has one, or is answered.
LEMMA ArrivedKept ==
    ASSUME Types, NEW r \in Requests, Progress(r), OnThread(r), Step(r)
    PROVE  /\ \/ \E shape \in Shapes[r] : Arrive(r, shape)
              \/ /\ req[r].pc # "idle" /\ req'[r].pc # "idle"
                 /\ req'[r].shape = req[r].shape /\ req'[r].key = req[r].key
           /\ OnThread(r)'
           /\ \/ req'[r].thread \in {Nobody, req[r].thread}
              \/ Idle(req'[r].thread)
<1> DEFINE Kept == /\ req[r].pc # "idle" /\ req'[r].pc # "idle"
                   /\ req'[r].shape = req[r].shape /\ req'[r].key = req[r].key
           Threaded == /\ OnThread(r)'
                       /\ \/ req'[r].thread \in {Nobody, req[r].thread}
                          \/ Idle(req'[r].thread)
<1>1. req[r] \in RequestStates
    BY DEF Types
<1>2. ASSUME req[r].pc # "idle" PROVE Shape(r) \in Shapes[r]
    BY <1>2 DEF Progress, Shape
<1>3. conf' = conf
    BY ProgressKept
<1> USE <1>3 DEF Sync
<1>4. ASSUME NEW shape \in Shapes[r], Arrive(r, shape) PROVE Threaded
    BY <1>4, ArriveTyped DEF OnThread
<1>5. ASSUME Before(r) PROVE Kept /\ Threaded
  <2>1. CASE Turned(r)
      BY <1>1, <2>1 DEF Turned, OnThread, RequestStates
  <2>2. CASE Left(r)
      BY <1>1, <2>2 DEF Left, OnThread, RequestStates
  <2>3. CASE Awaits(r)
      BY <1>1, <2>3 DEF Awaits, OnThread, RequestStates
  <2>4. CASE Proceeds(r)
      BY <1>1, <2>4 DEF Proceeds, OnThread, RequestStates
  <2> QED BY <1>5, <2>1, <2>2, <2>3, <2>4, BeforeTyped
<1>6. ASSUME NEW t \in Threads, StartsOnPool(r, t) PROVE Kept /\ Threaded
    BY <1>1, <1>6, StartsOnPoolTyped DEF OnThread, RequestStates
<1>7. ASSUME Begins(r) PROVE Kept /\ Threaded
  <2>1. Shape(r) \in Shapes[r] /\ req[r].pc = "called"
      BY <1>2, <1>7 DEF Begins
  <2>2. \E begun \in BOOLEAN, result \in Endings \cup {"none"},
            pc \in {"ended", "reporting", "executing"} :
            req'[r] = [req[r] EXCEPT !.begun = begun, !.result = result, !.pc = pc]
      BY <1>7, <2>1, BeginsMoves, ZenonT(30)
  <2> QED BY <1>1, <2>1, <2>2 DEF OnThread, RequestStates
<1>8. ASSUME Reports(r) \/ ReportsLate(r) PROVE Kept /\ Threaded
  <2>1. Shape(r) \in Shapes[r] /\ req[r].pc \in {"reporting", "executing"}
      BY <1>2, <1>8 DEF Reports, ReportsLate
  <2>2. PICK begun \in BOOLEAN :
            req'[r] = [req[r] EXCEPT !.pc = "executing", !.begun = begun]
      BY <1>8, <2>1, ReportsTyped DEF ReportsAs
  <2> QED BY <1>1, <2>1, <2>2 DEF OnThread, RequestStates
<1>9. ASSUME Sends(r) \/ Tries(r) \/ Sent(r) \/ \E f \in Fetches : FetchAnswer(r, f)
      PROVE  Kept /\ Threaded
  <2>1. req' = req
      BY <1>9 DEF Sends, Tries, Sent, FetchAnswer
  <2>2. req[r].pc # "idle"
    <3>1. \/ req[r].pc \in {"executing", "fetching", "registering"}
          \/ send[r].pc \in {"trying", "tried"}
        BY <1>9 DEF Sends, Tries, Attempt, Sent, FinishSend, FetchAnswer
    <3>2. send[r].pc \in {"trying", "tried"} => send[r] # Unsent
        BY DEF Unsent
    <3> QED BY <3>1, <3>2 DEF Progress
  <2> QED BY <2>1, <2>2 DEF OnThread
<1>10. ASSUME HandlerEnds(r) PROVE Kept /\ Threaded
  <2>1. Shape(r) \in Shapes[r] /\ req[r].pc = "executing"
      BY <1>2, <1>10 DEF HandlerEnds
  <2>2. \E result : req'[r] = [req[r] EXCEPT !.pc = "ended", !.result = result]
      BY <1>10, <2>1, HandlerEndsTyped
  <2> QED BY <1>1, <2>1, <2>2 DEF OnThread, RequestStates
<1>11. ASSUME Replies(r) PROVE Kept /\ Threaded
  <2>1. Shape(r) \in Shapes[r] /\ req[r].pc = "ended" /\ req[r].result # "none"
        /\ req[r].stream # "done"
      BY <1>2, <1>11 DEF Replies, Progress
  <2>2. \E result, stream, answer :
              req'[r] = [req[r] EXCEPT !.pc = "answered", !.thread = Nobody,
                            !.result = result, !.stream = stream, !.answer = answer]
      BY <1>11, <2>1, RepliesMoves
  <2> QED BY <1>1, <2>1, <2>2 DEF OnThread, RequestStates
<1>12. ASSUME HangsUp(r) PROVE Kept /\ Threaded
  <2>1. req[r].pc # "idle"
      BY <1>12 DEF HangsUp, Progress
  <2> QED BY <1>1, <1>12, <2>1, HangsUpTyped DEF OnThread, RequestStates
<1> QED BY <1>4, <1>5, <1>6, <1>7, <1>8, <1>9, <1>10, <1>11, <1>12
        DEF Step, Handle, Network, Before

LEMMA HandledKept ==
    ASSUME Handled, [Next]_vars
    PROVE  /\ Handled'
           /\ \/ UNCHANGED vars
              \/ \E r \in Requests : Step(r) /\ Others(r) /\ conf' = conf
<1>1. CASE UNCHANGED vars
    BY <1>1 DEF Handled, vars, Types, Progress, OnThread, Sync, OneAtATime
<1>2. ASSUME NEW r \in Requests, Step(r)
      PROVE  Handled' /\ Others(r) /\ conf' = conf
  <2>1. Types /\ Progress(r) /\ OnThread(r) /\ OneAtATime
      BY DEF Handled
  <2>2. Types' /\ Others(r) /\ conf' = conf /\ Progress(r)'
      BY <1>2, <2>1, ProgressKept
  <2>3. /\ OnThread(r)'
        /\ req'[r].thread \in {Nobody, req[r].thread} \/ Idle(req'[r].thread)
      BY <1>2, <2>1, ArrivedKept
  <2>4. ASSUME NEW q \in Requests \ {r} PROVE Progress(q)' /\ OnThread(q)'
    <3>1. Progress(q) /\ OnThread(q)
        BY DEF Handled
    <3>2. OnThread(q)'
        BY <2>2, <3>1 DEF Others, OnThread, Sync
    <3> QED BY <2>2, <3>1, <3>2, ProgressElsewhere
  <2>5. OneAtATime'
    <3> SUFFICES ASSUME NEW p \in Requests, NEW q \in Requests, p # q,
                        req'[q].thread = req'[p].thread, req'[p].thread # Nobody
                 PROVE  FALSE
        BY DEF OneAtATime
    <3>1. ASSUME NEW o \in Requests \ {r}, req'[o].thread = req'[r].thread,
                 req'[o].thread # Nobody
          PROVE  FALSE
      <4>1. req'[o] = req[o]
          BY <2>2 DEF Others
      <4> QED BY <2>1, <2>3, <3>1, <4>1 DEF OneAtATime, Idle
    <3>2. CASE p = r \/ q = r
        BY <3>1, <3>2
    <3>3. CASE p # r /\ q # r
        BY <2>1, <2>2, <3>3 DEF OneAtATime, Others
    <3> QED BY <3>2, <3>3
  <2>6. \A q \in Requests : Progress(q)' /\ OnThread(q)'
      BY <2>2, <2>3, <2>4
  <2> QED BY <2>2, <2>5, <2>6 DEF Handled
<1> QED BY <1>1, <1>2, NextIsStep

LEMMA HandledInit ==
    ASSUME Init
    PROVE  Handled
<1>1. conf \in Configs /\ synced = {} /\ SendInit
      /\ fetch = [r \in Requests |-> [f \in Fetches |-> "none"]]
      /\ logging = [c \in Requests \cup Threads |-> FALSE]
    BY DEF Init
<1> DEFINE idle == [pc |-> "idle", shape |-> Nobody, key |-> None,
                 thread |-> Nobody, begun |-> FALSE, result |-> "none",
                 stream |-> "no", answer |-> NoAnswer]
<1>2. req = [r \in Requests |-> idle]
    BY DEF Init
<1>3. idle \in RequestStates
  <2>1. NoAnswer \in AnswerStates
      BY DEF NoAnswer, AnswerStates, Bodies
  <2> HIDE DEF NoAnswer, AnswerStates
  <2> QED BY <2>1 DEF RequestStates
<1>4. Unsent \in SendStates /\ MaxAttempts \in Nat
  <2>1. MaxAttempts \in Nat \ {0} /\ 0 \in 0 .. MaxAttempts
      BY SendAssumption
  <2> QED BY <2>1 DEF Unsent, SendStates
<1>5. /\ log = [r \in Requests |-> << >>]
      /\ send = [r \in Requests |-> Unsent]
    BY <1>1, ServeAssumption DEF SendInit
<1>6. << >> \in Seq(Hooks \X Middlewares)
    OBVIOUS
<1>7. Types
  <2> HIDE DEF idle
  <2> QED BY <1>1, <1>2, <1>3, <1>4, <1>5, <1>6 DEF Types
<1>8. ASSUME NEW r \in Requests PROVE Progress(r) /\ OnThread(r)
  <2>1. req[r] = idle /\ log[r] = << >> /\ send[r] = Unsent
        /\ fetch[r] = [f \in Fetches |-> "none"]
      BY <1>1, <1>2, <1>5
  <2> QED BY <2>1 DEF Progress, OnThread, Unsent
<1>9. OneAtATime
    BY <1>2 DEF OneAtATime
<1> QED BY <1>7, <1>8, <1>9 DEF Handled

\* Every request is handled from its arrival on, one at a time per thread.
THEOREM HandledAlways == Spec => []Handled
<1>1. Init => Handled
    BY HandledInit
<1>2. Handled /\ [Next]_vars => Handled'
    BY HandledKept
<1> QED BY <1>1, <1>2, PTL DEF Spec

\* TypeOK: keys, threads, results, fetches and attempts are what they can be,
\* for every pool and number of requests, and no thread handles two at once.
THEOREM TypeCorrect == Spec => []TypeOK
<1>1. Handled => TypeOK
  <2> SUFFICES ASSUME Handled PROVE TypeOK
      OBVIOUS
  <2>1. conf \in Configs /\ synced \subseteq Requests
      BY DEF Handled, Types
  <2>2. ASSUME NEW r \in Requests
        PROVE  /\ req[r].shape \in Shapes[r] \cup {Nobody}
               /\ req[r].key \in Keys \cup SignatureErrors \cup {None}
               /\ req[r].thread \in Threads \cup {Nobody}
               /\ \A q \in Requests \ {r} :
                    req[q].thread = req[r].thread => req[r].thread = Nobody
               /\ req[r].result \in Endings \cup {"none"}
               /\ \A f \in Fetches : fetch[r][f] \in FetchStates \cup {"none"}
               /\ send[r].attempts \in 0 .. MaxAttempts
    <3>1. req[r] \in RequestStates /\ send[r] \in SendStates /\ Progress(r)
          /\ fetch[r] \in [Fetches -> FetchStates \cup {"none"}]
        BY DEF Handled, Types
    <3>2. req[r].shape \in Shapes[r] \cup {Nobody}
        BY <3>1 DEF Progress
    <3>3. req[r].key \in Keys \cup SignatureErrors \cup {None}
          /\ req[r].thread \in Threads \cup {Nobody}
          /\ req[r].result \in Endings \cup {"none"}
        BY <3>1 DEF RequestStates
    <3>4. send[r].attempts \in 0 .. MaxAttempts
        BY <3>1 DEF SendStates
    <3>5. \A q \in Requests \ {r} :
                req[q].thread = req[r].thread => req[r].thread = Nobody
        BY DEF Handled, OneAtATime
    <3> QED BY <3>1, <3>2, <3>3, <3>4, <3>5
  <2> QED BY <2>1, <2>2 DEF TypeOK
<1> QED BY <1>1, HandledAlways, PTL

-----------------------------------------------------------------------------
(* The fetches.                                                             *)

\* What a request's function call and its answer consist of.
Run(r) ==
    \/ \E t \in Threads : StartsOnPool(r, t)
    \/ Begins(r) \/ Reports(r) \/ ReportsLate(r) \/ Sends(r) \/ Tries(r) \/ Sent(r)
    \/ HandlerEnds(r) \/ Replies(r) \/ HangsUp(r)

LEMMA StepKinds ==
    ASSUME NEW r \in Requests, Step(r)
    PROVE  \/ \E shape \in Shapes[r] : Arrive(r, shape)
           \/ Before(r) \/ Run(r)
           \/ \E f \in Fetches : FetchAnswer(r, f)
    BY DEF Step, Handle, Network, Before, Run

LEMMA RunKept ==
    ASSUME Types, NEW r \in Requests, Progress(r), Run(r)
    PROVE  Running(r) /\ fetch' = fetch /\ synced' = synced
<1>1. fetch' = fetch /\ synced' = synced
    BY DEF Run, StartsOnPool, Begins, Reports, ReportsLate, Sends, Tries, Sent,
           HandlerEnds, Replies, HangsUp
<1>2. Running(r)
  <2>1. CASE Tries(r) \/ Sent(r)
      BY <2>1 DEF Tries, Attempt, Sent, FinishSend, Progress, Running
  <2>2. CASE HangsUp(r)
    <3>1. req[r] \in RequestStates /\ req[r].stream = "open" /\ req[r].pc # "answered"
        BY <2>2 DEF Types, HangsUp
    <3> QED BY <3>1 DEF Progress, Running, RequestStates
  <2>3. CASE \/ \E t \in Threads : StartsOnPool(r, t)
             \/ Begins(r) \/ Reports(r) \/ ReportsLate(r)
             \/ Sends(r) \/ HandlerEnds(r) \/ Replies(r)
      BY <2>3 DEF StartsOnPool, Begins, Reports, ReportsLate, Sends, HandlerEnds,
                  Replies, Running
  <2> QED BY <2>1, <2>2, <2>3 DEF Run
<1> QED BY <1>1, <1>2

LEMMA FetchedKept ==
    ASSUME Types, NEW r \in Requests, Progress(r), OnThread(r), Fetched(r), Step(r)
    PROVE  Fetched(r)' /\ (synced' = synced \/ synced' = synced \cup {r})
<1>1. req[r] \in RequestStates /\ fetch[r] \in [Fetches -> FetchStates \cup {"none"}]
    BY DEF Types
<1>2. conf' = conf
    BY ProgressKept
<1>3. CASE \E shape \in Shapes[r] : Arrive(r, shape)
  <2>1. fetch' = fetch /\ synced' = synced /\ req[r].pc = "idle"
        /\ req'[r].pc = "arrived"
      BY <1>3, ArriveTyped DEF Arrive
  <2>2. \A f \in Fetches : fetch'[r][f] = "none"
      BY <2>1 DEF Progress
  <2>3. "register" \in Fetches
      BY DEF Fetches
  <2> QED BY <2>1, <2>2, <2>3 DEF Fetched, Running
<1>4. ASSUME ~ \E shape \in Shapes[r] : Arrive(r, shape)
      PROVE  req'[r].shape = req[r].shape
    BY <1>4, ArrivedKept
<1>5. CASE Before(r)
  <2>1. UNCHANGED <<sending, synced>>
      BY <1>5, BeforeTyped
  <2>2. ~ \E shape \in Shapes[r] : Arrive(r, shape)
      BY <1>5 DEF Before, Arrive, Unverifiable, Unauthorized, Post, Put, Registered, Inspect,
                  Gathered, FetchedSync, Fetching
  <2>3. req'[r].shape = req[r].shape
      BY <1>4, <2>2
  <2>4. CASE Turned(r)
    <3>1. req'[r].pc = "answered" /\ fetch' = fetch
        BY <1>1, <2>4 DEF Turned, RequestStates
    <3> QED BY <1>2, <2>1, <2>3, <3>1 DEF Fetched, Running, Shape
  <2>5. CASE Left(r)
    <3>1. req'[r].pc = "escaped" /\ fetch' = fetch
        BY <1>1, <2>5 DEF Left, RequestStates
    <3> QED BY <1>2, <2>1, <2>3, <3>1 DEF Fetched, Running, Shape
  <2>6. CASE Awaits(r)
    <3>1. req'[r].pc \in {"fetching", "registering"}
        BY <1>1, <2>6 DEF Awaits, RequestStates
    <3>2. /\ \A f \in Fetches : fetch'[r][f] \in {fetch[r][f], "first"}
          /\ fetch'[r]["register"] # fetch[r]["register"] =>
                ~OtherServer(r) /\ conf.functions # {}
        BY <1>1, <2>6 DEF Awaits, Starts, Fetches
    <3>3. "register" \in Fetches
        BY DEF Fetches
    <3> QED BY <1>2, <2>1, <2>3, <3>1, <3>2, <3>3
            DEF Fetched, Running, Shape, OtherServer
  <2>7. CASE Proceeds(r)
    <3>1. fetch' = fetch /\ (~Shape(r).useApi \/ Usable(r))
        BY <2>7 DEF Proceeds
    <3> QED BY <1>2, <2>1, <2>3, <3>1 DEF Fetched, Running, Shape, Usable
  <2> QED BY <1>5, <2>1, <2>4, <2>5, <2>6, <2>7, BeforeTyped
<1>6. CASE Run(r)
  <2>1. Running(r) /\ fetch' = fetch /\ synced' = synced
      BY <1>6, RunKept
  <2>2. req'[r].shape = req[r].shape
      BY <1>4, <2>1 DEF Arrive, Running
  <2> QED BY <1>2, <2>1, <2>2 DEF Fetched, Shape, Running
<1>7. ASSUME NEW f \in Fetches, FetchAnswer(r, f)
      PROVE  Fetched(r)' /\ (synced' = synced \/ synced' = synced \cup {r})
  <2>1. /\ req' = req /\ req[r].pc \in {"fetching", "registering"}
        /\ fetch[r][f] \in Waiting
        /\ \A g \in Fetches \ {f} : fetch'[r][g] = fetch[r][g]
        /\ synced' = synced \/ (f = "register" /\ synced' = synced \cup {r})
      BY <1>7, FetchAnswerTyped
  <2>2. PICK answer \in ApiAnswers(AuthKey(fetch[r][f], conf), conf) :
          /\ answer \in Got
          /\ fetch'[r][f] = FetchWithAuthFallback(fetch[r][f], answer, conf.fallback)
      BY <1>7, FetchAnswerTyped
  <2>3. /\ conf.mode \in {"dev", "cloud"} /\ conf.accepts \subseteq Keys
        /\ None \notin conf.accepts
      BY ConfigsAssumption, NetAssumption DEF Types
  <2>4. answer = "unauthorized" =>
            conf.mode = "cloud" /\ AuthKey(fetch[r][f], conf) \notin conf.accepts
      BY <2>3 DEF ApiAnswers, Got
  <2>5. /\ fetch'[r][f] \in Got \cup {"second"}
        /\ fetch'[r][f] = "second" =>
                fetch[r][f] = "first" /\ answer = "unauthorized"
        /\ fetch'[r][f] = "unauthorized" =>
                answer = "unauthorized" /\ (fetch[r][f] = "second" \/ conf.fallback = None)
      BY <2>1, <2>2 DEF FetchWithAuthFallback, Waiting, Got
  <2>6. fetch'[r][f] = "second" => conf.mode = "cloud" /\ conf.key \notin conf.accepts
      BY <2>4, <2>5 DEF AuthKey
  <2>7. fetch'[r][f] = "unauthorized" =>
            conf.mode = "cloud" /\ {conf.key, conf.fallback} \cap conf.accepts = {}
    <3> SUFFICES ASSUME fetch'[r][f] = "unauthorized"
                 PROVE  conf.mode = "cloud" /\ conf.key \notin conf.accepts
                        /\ conf.fallback \notin conf.accepts
        OBVIOUS
    <3>1. CASE fetch[r][f] = "second"
        BY <2>4, <2>5, <3>1 DEF AuthKey, Fetched
    <3>2. CASE fetch[r][f] = "first"
        BY <2>3, <2>4, <2>5, <3>2 DEF AuthKey
    <3> QED BY <2>1, <3>1, <3>2 DEF Waiting
  <2>8. fetch'[r]["register"] # "none" => fetch[r]["register"] # "none"
      BY <2>1 DEF Waiting, Fetches
  <2>9. r \in synced' => fetch'[r]["register"] # "none"
    <3>1. CASE f = "register"
        BY <2>5, <3>1 DEF Got
    <3>2. CASE f # "register"
        BY <2>1, <3>2 DEF Fetched, Fetches
    <3> QED BY <3>1, <3>2
  <2>10. \A g \in Fetches :
            /\ fetch'[r][g] = "second" => conf.mode = "cloud" /\ conf.key \notin conf.accepts
            /\ fetch'[r][g] = "unauthorized" =>
                conf.mode = "cloud" /\ {conf.key, conf.fallback} \cap conf.accepts = {}
    <3> SUFFICES ASSUME NEW g \in Fetches
        PROVE  /\ fetch'[r][g] = "second" => conf.mode = "cloud" /\ conf.key \notin conf.accepts
               /\ fetch'[r][g] = "unauthorized" =>
                    conf.mode = "cloud" /\ {conf.key, conf.fallback} \cap conf.accepts = {}
        OBVIOUS
    <3>1. CASE g = f
        BY <2>6, <2>7, <3>1
    <3>2. CASE g # f
        BY <2>1, <3>2 DEF Fetched
    <3> QED BY <3>1, <3>2
  <2> QED BY <1>2, <2>1, <2>8, <2>9, <2>10 DEF Fetched, Running, Shape
<1> QED BY <1>3, <1>5, <1>6, <1>7, StepKinds

LEMMA FetchedElsewhere ==
    ASSUME NEW r \in Requests, NEW q \in Requests \ {r}, Others(r), conf' = conf,
           synced' = synced \/ synced' = synced \cup {r}, Fetched(q)
    PROVE  Fetched(q)'
    BY DEF Others, Fetched, Running, Shape

THEOREM FetchedAlways == Spec => [](\A r \in Requests : Fetched(r))
<1>1. Init => \A r \in Requests : Fetched(r)
    BY DEF Init, Fetched, Running, Fetches
<1>2. ASSUME Handled, \A r \in Requests : Fetched(r), [Next]_vars
      PROVE  (\A r \in Requests : Fetched(r))'
  <2>1. CASE UNCHANGED vars
      BY <1>2, <2>1 DEF vars, Fetched, Running, Shape
  <2>2. ASSUME NEW r \in Requests, Step(r), Others(r), conf' = conf, NEW q \in Requests
        PROVE  Fetched(q)'
    <3>1. Types /\ Progress(r) /\ OnThread(r) /\ Fetched(r)
        BY <1>2 DEF Handled
    <3>2. Fetched(r)' /\ (synced' = synced \/ synced' = synced \cup {r})
        BY <2>2, <3>1, FetchedKept
    <3> QED BY <1>2, <2>2, <3>2, FetchedElsewhere
  <2> QED BY <1>2, <2>1, <2>2, HandledKept
<1> QED BY <1>1, <1>2, HandledAlways, PTL DEF Spec

\* RunsOnFetchedState: no function runs on what a failed fetch of its batch or
\* of its memoized steps left.
THEOREM FetchedStateRuns == Spec => []RunsOnFetchedState
<1>1. (\A r \in Requests : Fetched(r)) => RunsOnFetchedState
    BY DEF Fetched, RunsOnFetchedState
<1> QED BY <1>1, FetchedAlways, PTL

\* RotationSafe: while keys rotate, a request to Inngest only ends as
\* unauthorized when Inngest takes neither key.
THEOREM KeysRotate == Spec => []RotationSafe
<1>1. (\A r \in Requests : Fetched(r)) => RotationSafe
    BY DEF Fetched, RotationSafe
<1> QED BY <1>1, FetchedAlways, PTL

-----------------------------------------------------------------------------
(* The signatures.                                                          *)

\* A running request gets its answer from Replies alone.
LEMMA RunAnswers ==
    ASSUME Types, NEW r \in Requests, Progress(r), Run(r)
    PROVE  \/ req'[r].answer = req[r].answer /\ req'[r].pc # "answered"
           \/ /\ Replies(r)
              /\ req'[r].pc = "answered"
              /\ req'[r].answer.key # None => req'[r].answer.key = Signed(req[r].key)
              /\ req'[r].answer.body \in Endings \cup {"none"}
<1> DEFINE Same == req'[r].answer = req[r].answer /\ req'[r].pc # "answered"
<1>1. req[r] \in RequestStates /\ Shape(r) \in Shapes[r]
  <2>1. req[r].pc # "idle"
      BY RunKept DEF Running
  <2> QED BY <2>1 DEF Types, Progress, Shape
<1>2. ASSUME NEW t \in Threads, StartsOnPool(r, t) PROVE Same
  <2>1. req'[r] = [req[r] EXCEPT !.pc = "called", !.thread = t]
      BY <1>2, StartsOnPoolTyped
  <2> QED BY <1>1, <2>1 DEF RequestStates
<1>3. ASSUME Begins(r) PROVE Same
  <2>1. \E begun \in BOOLEAN, result \in Endings \cup {"none"},
            pc \in {"ended", "reporting", "executing"} :
            req'[r] = [req[r] EXCEPT !.begun = begun, !.result = result, !.pc = pc]
      BY <1>1, <1>3, BeginsMoves
  <2> QED BY <1>1, <2>1 DEF RequestStates
<1>4. ASSUME Reports(r) \/ ReportsLate(r) PROVE Same
  <2>1. PICK begun \in BOOLEAN :
            req'[r] = [req[r] EXCEPT !.pc = "executing", !.begun = begun]
      BY <1>1, <1>4, ReportsTyped DEF ReportsAs
  <2> QED BY <1>1, <2>1 DEF RequestStates
<1>5. ASSUME Sends(r) \/ Tries(r) \/ Sent(r) PROVE Same
  <2>1. req' = req
      BY <1>5 DEF Sends, Tries, Sent
  <2>2. req[r].pc # "answered"
      BY <1>5 DEF Sends, Tries, Attempt, Sent, FinishSend, Progress
  <2> QED BY <2>1, <2>2
<1>6. ASSUME HandlerEnds(r) PROVE Same
  <2>1. \E result : req'[r] = [req[r] EXCEPT !.pc = "ended", !.result = result]
      BY <1>1, <1>6, HandlerEndsTyped
  <2> QED BY <1>1, <2>1 DEF RequestStates
<1>7. ASSUME HangsUp(r) PROVE Same
  <2>1. req'[r] = [req[r] EXCEPT !.stream = "gone"] /\ req[r].pc # "answered"
      BY <1>7, HangsUpTyped
  <2> QED BY <1>1, <2>1 DEF RequestStates
<1>8. CASE Replies(r)
  <2>1. req[r].pc = "ended" /\ req[r].result # "none" /\ req[r].stream # "done"
      BY <1>8 DEF Replies, Progress
  <2> DEFINE result == IF Transformed(r).error \/ Hook(r, "before_response").error
                       THEN "error" ELSE req[r].result
             stream == IF req[r].stream = "open" THEN "done" ELSE req[r].stream
             answer == Delivered(r, FromCallResult(r, result))
  <2>2. /\ req'[r] = [req[r] EXCEPT !.pc = "answered", !.thread = Nobody,
                          !.result = result, !.stream = stream, !.answer = answer]
        /\ result \in Endings
      BY <1>1, <1>8, <2>1, RepliesTyped
  <2> HIDE DEF result, stream
  <2>3. req[r].stream \in {"no", "open", "gone"}
      BY <1>1, <2>1 DEF RequestStates
  <2>4. /\ answer.key # None => answer.key = Signed(req[r].key)
        /\ answer.body \in Endings \cup {"none"}
    <3>1. NoAnswer.body = "none" /\ "error" \in Endings
        BY DEF NoAnswer, Endings, Errors
    <3>2. answer.key # None => answer.key = Signed(req[r].key)
        BY <2>2, <2>3, DeliveredTyped
    <3>3. req[r].stream # "gone" =>
                answer.body = IF result = "unserializable" THEN "error" ELSE result
        BY <2>2, <2>3, DeliveredTyped
    <3>4. req[r].stream = "gone" => answer = NoAnswer
        BY <2>2, <2>3, DeliveredTyped
    <3> HIDE DEF answer
    <3> QED BY <2>2, <3>1, <3>2, <3>3, <3>4
  <2> HIDE DEF answer
  <2>5. req'[r].answer = answer /\ req'[r].pc = "answered"
      BY <1>1, <2>2 DEF RequestStates
  <2> QED BY <1>8, <2>4, <2>5
<1> QED BY <1>2, <1>3, <1>4, <1>5, <1>6, <1>7, <1>8 DEF Run

LEMMA VerifiedKept ==
    ASSUME Types, NEW r \in Requests, Progress(r), OnThread(r), Verified(r), Step(r)
    PROVE  Verified(r)'
<1>1. req[r] \in RequestStates /\ req[r].key \in Keys \cup SignatureErrors \cup {None}
    BY DEF Types, RequestStates
<1>2. conf' = conf
    BY ProgressKept
<1>3. NoAnswer.key = None /\ NoAnswer.body = "none"
    BY DEF NoAnswer
<1>4. CASE \E shape \in Shapes[r] : Arrive(r, shape)
  <2>1. PICK shape \in Shapes[r] : Arrive(r, shape)
      BY <1>4
  <2>2. /\ req'[r].pc = "arrived" /\ req'[r].shape = shape
        /\ req'[r].key = IF shape.connect THEN None
                         ELSE ValidateRequestSig(shape.body, shape.sig, conf)
        /\ req'[r].answer = req[r].answer
      BY <2>1, ArriveTyped
  <2>3. req[r].answer = NoAnswer
      BY <2>1 DEF Arrive, Progress
  <2> QED BY <1>2, <1>3, <2>2, <2>3 DEF Verified, Shape, Running
<1>5. ASSUME ~ \E shape \in Shapes[r] : Arrive(r, shape)
      PROVE  req[r].pc # "idle" /\ req'[r].shape = req[r].shape /\ req'[r].key = req[r].key
    BY <1>5, ArrivedKept
<1>6. CASE Before(r)
  <2>1. ~ \E shape \in Shapes[r] : Arrive(r, shape)
      BY <1>6 DEF Before, Arrive, Unverifiable, Unauthorized, Post, Put, Registered, Inspect,
                  Gathered, FetchedSync, Fetching
  <2>2. req[r].pc # "idle" /\ req'[r].shape = req[r].shape /\ req'[r].key = req[r].key
      BY <1>5, <2>1
  <2>3. CASE Turned(r)
    <3>1. PICK answer \in AnswerStates :
            /\ req'[r] = [req[r] EXCEPT !.pc = "answered", !.thread = Nobody,
                                        !.answer = answer]
            /\ answer.key # None => answer.key = Signed(req[r].key)
            /\ answer.body # "output"
            /\ answer.body = "functions" => ~IsError(req[r].key) /\ req[r].key # None
            /\ answer.body = "authenticated" => req[r].key \in Keys
        BY <2>3 DEF Turned
    <3>2. req'[r].pc = "answered" /\ req'[r].answer = answer
        BY <1>1, <3>1 DEF RequestStates
    <3> QED BY <1>1, <1>2, <2>2, <3>1, <3>2 DEF Verified, Shape, Running, IsError
  <2>4. CASE Left(r)
    <3>1. req'[r].pc = "escaped" /\ req'[r].answer = req[r].answer
        BY <1>1, <2>4 DEF Left, RequestStates
    <3> QED BY <1>2, <2>2, <3>1 DEF Verified, Shape, Running
  <2>5. CASE Awaits(r)
    <3>1. /\ req'[r].pc \in {"fetching", "registering"} /\ req'[r].answer = req[r].answer
          /\ req'[r].pc = "fetching" => \/ req[r].pc = "fetching"
                                        \/ Shape(r).method = "POST" /\ ~IsError(req[r].key)
        BY <1>1, <2>5 DEF Awaits, RequestStates
    <3> QED BY <1>2, <2>2, <3>1 DEF Verified, Shape, Running
  <2>6. CASE Proceeds(r)
    <3>1. /\ req'[r].answer = req[r].answer
          /\ \/ req[r].pc = "fetching"
             \/ Shape(r).method = "POST" /\ ~IsError(req[r].key)
        BY <1>1, <2>6 DEF Proceeds, RequestStates
    <3> QED BY <1>2, <2>2, <3>1 DEF Verified, Shape, Running
  <2> QED BY <1>6, <2>3, <2>4, <2>5, <2>6, BeforeTyped
<1>7. CASE Run(r)
  <2>1. Running(r)
      BY <1>7, RunKept
  <2>2. req[r].pc # "idle" /\ req'[r].shape = req[r].shape /\ req'[r].key = req[r].key
      BY <1>5, <2>1 DEF Arrive, Running
  <2>3. Shape(r).method = "POST" /\ ~IsError(req[r].key)
      BY <2>1 DEF Verified
  <2>4. \/ req'[r].answer = req[r].answer
        \/ /\ req'[r].answer.key # None => req'[r].answer.key = Signed(req[r].key)
           /\ req'[r].answer.body \in Endings \cup {"none"}
      BY <1>7, RunAnswers
  <2>5. "functions" \notin Endings \cup {"none"} /\ "authenticated" \notin Endings \cup {"none"}
      BY DEF Endings, Interrupts, Errors
  <2> QED BY <1>2, <2>2, <2>3, <2>4, <2>5 DEF Verified, Shape
<1>8. CASE \E f \in Fetches : FetchAnswer(r, f)
    BY <1>2, <1>8 DEF FetchAnswer, Verified, Shape, Running
<1> QED BY <1>4, <1>6, <1>7, <1>8, StepKinds

LEMMA VerifiedElsewhere ==
    ASSUME NEW r \in Requests, NEW q \in Requests \ {r}, Others(r), conf' = conf,
           Verified(q)
    PROVE  Verified(q)'
    BY DEF Others, Verified, Running, Shape

THEOREM VerifiedAlways == Spec => [](\A r \in Requests : Verified(r))
<1>1. Init => \A r \in Requests : Verified(r)
    BY DEF Init, Verified, Running, NoAnswer
<1>2. ASSUME Handled, \A r \in Requests : Verified(r), [Next]_vars
      PROVE  (\A r \in Requests : Verified(r))'
  <2>1. CASE UNCHANGED vars
      BY <1>2, <2>1 DEF vars, Verified, Running, Shape
  <2>2. ASSUME NEW r \in Requests, Step(r), Others(r), conf' = conf, NEW q \in Requests
        PROVE  Verified(q)'
    <3>1. Types /\ Progress(r) /\ OnThread(r) /\ Verified(r)
        BY <1>2 DEF Handled
    <3>2. Verified(r)'
        BY <2>2, <3>1, VerifiedKept
    <3> QED BY <1>2, <2>2, <3>2, VerifiedElsewhere
  <2> QED BY <1>2, <2>1, <2>2, HandledKept
<1> QED BY <1>1, <1>2, HandledAlways, PTL DEF Spec

\* Authentic: in production nobody but the holder of a key runs a function or
\* reads the configuration; answers carry the key of their request; an
\* out-of-band sync registers no app with a server of the other kind.
THEOREM OnlyAuthentic == Spec => []Authentic
<1>1. ASSUME Handled, \A r \in Requests : Fetched(r), \A r \in Requests : Verified(r)
      PROVE  Authentic
  <2> SUFFICES ASSUME NEW r \in Requests
        PROVE LET holder == /\ Shape(r).sig \in Keys
                            /\ Shape(r).sig \in {conf.key, conf.fallback}
              IN  /\ conf.mode = "cloud" /\ req[r].pc # "idle" /\ ~Shape(r).connect /\
                      (Running(r) \/ req[r].answer.body \in
                                        {"output", "functions", "authenticated"})
                          => holder
                  /\ req[r].answer.key # None =>
                          holder /\ req[r].answer.key = Shape(r).sig
                  /\ r \in synced =>
                          Shape(r).kind \in {None, conf.mode} /\ conf.functions # {}
      BY DEF Authentic
  <2> DEFINE holder == /\ Shape(r).sig \in Keys
                       /\ Shape(r).sig \in {conf.key, conf.fallback}
  <2>1. Progress(r) /\ Fetched(r) /\ Verified(r) /\ conf \in Configs
        /\ conf.mode \in {"dev", "cloud"}
      BY <1>1, ConfigsAssumption DEF Handled, Types
  <2>2. r \in synced => Shape(r).kind \in {None, conf.mode} /\ conf.functions # {}
      BY <2>1 DEF Fetched
  <2>3. ASSUME req[r].pc # "idle", ~Shape(r).connect
        PROVE  /\ conf.mode = "cloud" /\ ~IsError(req[r].key) => holder /\ req[r].key = Shape(r).sig
               /\ conf.mode = "dev" => req[r].key \notin Keys
    <3>1. req[r].key = ValidateRequestSig(Shape(r).body, Shape(r).sig, conf)
        BY <2>1, <2>3 DEF Verified
    <3>2. Shape(r).sig \in Keys \cup {None, "malformed", Unreadable}
        BY <2>1, <2>3, ShapesAssumption DEF Progress, Shape
    <3> QED BY <2>1, <3>1, <3>2, Validated
  <2>4. req[r].key \in Keys => ~IsError(req[r].key)
      BY NetAssumption DEF IsError
  <2>5. ASSUME conf.mode = "cloud", req[r].pc # "idle", ~Shape(r).connect,
               \/ Running(r)
               \/ req[r].answer.body \in {"output", "functions", "authenticated"}
        PROVE  holder
    <3>1. ~IsError(req[r].key)
        BY <2>1, <2>4, <2>5 DEF Verified
    <3> QED BY <2>3, <2>5, <3>1
  <2>6. ASSUME req[r].answer.key # None
        PROVE  holder /\ req[r].answer.key = Shape(r).sig
    <3>1. ~IsError(req[r].key) /\ req[r].key = req[r].answer.key
        BY <2>1, <2>6 DEF Verified, Signed
    <3>2. req[r].pc # "idle"
        BY <2>1, <2>6 DEF Progress, NoAnswer
    <3>3. ~Shape(r).connect
        BY <2>1, <2>6, <3>1, <3>2 DEF Verified
    <3>4. conf.mode = "cloud"
      <4>1. req[r].key \in Keys
          BY <1>1, <2>6, <3>1 DEF Handled, Types, RequestStates, IsError
      <4> QED BY <2>1, <2>3, <3>2, <3>3, <4>1
    <3> QED BY <2>3, <3>1, <3>2, <3>3, <3>4
  <2> QED BY <2>2, <2>5, <2>6
<1> QED BY <1>1, HandledAlways, FetchedAlways, VerifiedAlways, PTL

-----------------------------------------------------------------------------
(* The events.                                                              *)

LEMMA SendMoves ==
    ASSUME NEW r \in Requests, Step(r)
    PROVE  \/ UNCHANGED <<send, stored>>
           \/ Sends(r) \/ Tries(r) \/ Sent(r)
<1>1. CASE \E shape \in Shapes[r] : Arrive(r, shape)
    BY <1>1 DEF Arrive, sending
<1>2. CASE Before(r)
    BY <1>2 DEF Before, sending, Unverifiable, Unauthorized, Post, Put, Registered, Inspect,
                Gathered, FetchedSync
<1>3. CASE Run(r)
    BY <1>3 DEF Run, sending, StartsOnPool, Begins, Reports, ReportsLate, HandlerEnds,
                Replies, HangsUp
<1>4. CASE \E f \in Fetches : FetchAnswer(r, f)
    BY <1>4 DEF FetchAnswer, sending
<1> QED BY <1>1, <1>2, <1>3, <1>4, StepKinds

LEMMA SendingKept ==
    ASSUME Types, NEW r \in Requests, Progress(r), Sending(r), Step(r)
    PROVE  Sending(r)' /\ (stored' = stored \/ stored' = stored \cup {<<r, 1>>})
<1>1. send[r] \in SendStates
    BY DEF Types
<1>2. CASE UNCHANGED <<send, stored>>
    BY <1>2 DEF Sending
<1>3. ASSUME Sends(r) \/ Sent(r) PROVE Shape(r) \in Shapes[r]
  <2>1. req[r].pc # "idle"
      BY <1>3 DEF Sends, Sent, FinishSend, Progress
  <2> QED BY <2>1 DEF Progress, Shape
<1>4. CASE Sends(r)
  <2>1. /\ stored' = stored
        /\ \/ send'[r] = [send[r] EXCEPT !.pc = "raised"]
           \/ send'[r] = [send[r] EXCEPT !.pc = "trying", !.seed = 1]
      BY <1>3, <1>4, SendsTyped
  <2> QED BY <1>1, <2>1 DEF Sending, SendStates
<1>5. CASE Tries(r)
  <2>1. send[r].pc = "trying" /\ send[r].attempts < MaxAttempts /\ SeedOf(r) = <<r, 1>>
      BY <1>5 DEF Tries, Attempt, Progress, Sending, SeedOf
  <2>2. PICK resp \in Responses \cup {Nobody}, pc \in {"trying", "tried"} :
          /\ send'[r] = [send[r] EXCEPT !.resp = resp, !.attempts = @ + 1, !.pc = pc]
          /\ resp \in WithIds => stored' = stored \cup {SeedOf(r)}
          /\ stored' \in {stored, stored \cup {SeedOf(r)}}
      BY <1>5, <2>1, TriesTyped
  <2>3. send'[r].pc = pc /\ send'[r].resp = resp /\ send'[r].seed = send[r].seed
      BY <1>1, <2>2 DEF SendStates
  <2> QED BY <2>1, <2>2, <2>3 DEF Sending
<1>6. CASE Sent(r)
  <2>1. /\ stored' = stored /\ send[r].pc = "tried"
        /\ \E pc \in {"returned", "raised"} : send'[r] = [send[r] EXCEPT !.pc = pc]
      BY <1>3, <1>6, SentTyped
  <2> QED BY <1>1, <2>1 DEF Sending, SendStates
<1> QED BY <1>2, <1>4, <1>5, <1>6, SendMoves

THEOREM SendingAlways == Spec => [](Seeded /\ \A r \in Requests : Sending(r))
<1>1. Init => Seeded /\ \A r \in Requests : Sending(r)
    BY ServeAssumption DEF Init, SendInit, Seeded, Sending, Unsent
<1>2. ASSUME Handled, Seeded /\ \A r \in Requests : Sending(r), [Next]_vars
      PROVE  (Seeded /\ \A r \in Requests : Sending(r))'
  <2>1. CASE UNCHANGED vars
      BY <1>2, <2>1 DEF vars, Sending, Seeded
  <2>2. ASSUME NEW r \in Requests, Step(r), Others(r)
        PROVE  (Seeded /\ \A q \in Requests : Sending(q))'
    <3>1. Types /\ Progress(r)
        BY <1>2 DEF Handled
    <3>2. Sending(r)' /\ (stored' = stored \/ stored' = stored \cup {<<r, 1>>})
        BY <1>2, <2>2, <3>1, SendingKept
    <3>3. \A q \in Requests \ {r} : Sending(q)'
        BY <1>2, <2>2, <3>2 DEF Others, Sending
    <3> QED BY <1>2, <3>2, <3>3 DEF Seeded
  <2> QED BY <1>2, <2>1, <2>2, HandledKept
<1> QED BY <1>1, <1>2, HandledAlways, PTL DEF Spec

\* SentOnce: the events of a call are stored at most once, whatever happens to
\* its attempts, and a caller that is told ids has events that are stored.
THEOREM EventsSentOnce == Spec => []SentOnce
<1>1. ASSUME Seeded, \A r \in Requests : Sending(r) PROVE SentOnce
  <2> SUFFICES ASSUME NEW r \in Requests
               PROVE  /\ Cardinality({seed \in stored : seed[1] = r}) <= 1
                      /\ send[r].pc = "returned" /\ send[r].resp \in WithIds =>
                            \E seed \in stored : seed[1] = r
      BY DEF SentOnce
  <2> DEFINE mine == {seed \in stored : seed[1] = r}
  <2>1. mine \subseteq {<<r, 1>>}
      BY <1>1 DEF Seeded
  <2>2. mine = {} \/ mine = {<<r, 1>>}
      BY <2>1
  <2> HIDE DEF mine
  <2>3. Cardinality(mine) <= 1
    <3>1. Cardinality({}) = 0 /\ Cardinality({<<r, 1>>}) = 1
        BY FS_EmptySet, FS_Singleton, Zenon
    <3> QED BY <2>2, <3>1
  <2>4. send[r].pc = "returned" /\ send[r].resp \in WithIds => <<r, 1>> \in stored
      BY <1>1 DEF Sending
  <2>5. (<<r, 1>>)[1] = r
      OBVIOUS
  <2> QED BY <2>3, <2>4, <2>5 DEF mine
<1> QED BY <1>1, SendingAlways, PTL

-----------------------------------------------------------------------------
(* The calls of the hooks.                                                  *)

\* What calling a hook on middleware with distinct places gives.
RightCalls(called, mgr, hook, raises, sync) ==
    /\ called.calls \in Seq(Hooks \X Middlewares) /\ called.error \in BOOLEAN
    /\ \A i \in DOMAIN called.calls : called.calls[i][1] = hook
    /\ Once(called.calls)
    /\ ~called.error =>
         /\ Len(called.calls) = Len(mgr) /\ raises \notin Range(called.calls)
         /\ \A m \in Range(mgr) : ~Mismatched(m, sync)
         /\ hook \in BeforeHooks => \A i \in 1 .. Len(mgr) :
                 called.calls[i] = <<hook, mgr[i]>>
         /\ hook \in AfterHooks => \A i \in 1 .. Len(mgr) :
                 called.calls[i] = <<hook, mgr[Len(mgr) - i + 1]>>
    /\ (\A m \in Range(mgr) : ~Mismatched(m, sync)) =>
         /\ called.error => raises \in Range(called.calls)
         /\ Len(mgr) > 0 /\ hook \in BeforeHooks =>
                 Len(called.calls) > 0 /\ called.calls[1] = <<hook, mgr[1]>>

\* A call of a hook reaches every middleware at most once, the first one first.
LEMMA CallsOnce ==
    ASSUME NEW mgr \in Seq(Middlewares), IsInjective(mgr), NEW hook \in Hooks,
           NEW raises, NEW sync
    PROVE  RightCalls(Called(mgr, hook, raises, sync), mgr, hook, raises, sync)
<1> DEFINE order == Order(mgr, hook)
<1>1. /\ order \in Seq(Middlewares) /\ Len(order) = Len(mgr)
      /\ hook \in BeforeHooks => order = mgr
    BY OrderIsSeq
<1>2. hook \in AfterHooks => \A i \in 1 .. Len(mgr) : order[i] = mgr[Len(mgr) - i + 1]
    BY OrderIsSeq
<1>3. hook \in BeforeHooks \/ hook \in AfterHooks
    BY DEF Hooks
<1> DEFINE called == Called(mgr, hook, raises, sync)
<1> HIDE DEF Middlewares
<1>5. /\ called.calls \in Seq(Hooks \X Middlewares)
      /\ called.error \in BOOLEAN
      /\ Len(called.calls) <= Len(order)
      /\ \A i \in 1 .. Len(called.calls) : called.calls[i] = <<hook, order[i]>>
      /\ ~called.error => /\ Len(called.calls) = Len(order)
                          /\ \A i \in 1 .. Len(order) : <<hook, order[i]>> # raises
                          /\ \A m \in Range(mgr) : ~Mismatched(m, sync)
      /\ called.error /\ (\A m \in Range(mgr) : ~Mismatched(m, sync)) =>
                /\ Len(called.calls) > 0
                /\ called.calls[Len(called.calls)] = raises
    BY CallsOfHook
<1> HIDE DEF called, order
<1>6. /\ Len(called.calls) \in Nat /\ DOMAIN called.calls = 1 .. Len(called.calls)
      /\ Len(mgr) \in Nat /\ DOMAIN mgr = 1 .. Len(mgr)
      /\ 1 .. Len(called.calls) \subseteq 1 .. Len(mgr)
  <2>1. Len(called.calls) \in Nat /\ DOMAIN called.calls = 1 .. Len(called.calls)
      BY <1>5
  <2>2. Len(mgr) \in Nat /\ DOMAIN mgr = 1 .. Len(mgr)
      OBVIOUS
  <2> QED BY <1>1, <1>5, <2>1, <2>2
<1>7. \A i, j \in 1 .. Len(mgr) : order[i] = order[j] => i = j
  <2>1. \A i, j \in 1 .. Len(mgr) : mgr[i] = mgr[j] => i = j
      BY <1>6 DEF IsInjective
  <2>2. CASE hook \in BeforeHooks
      BY <1>1, <2>1, <2>2
  <2>3. CASE hook \in AfterHooks
    <3> SUFFICES ASSUME NEW i \in 1 .. Len(mgr), NEW j \in 1 .. Len(mgr),
                        order[i] = order[j]
                 PROVE  i = j
        OBVIOUS
    <3>1. Len(mgr) - i + 1 \in 1 .. Len(mgr) /\ Len(mgr) - j + 1 \in 1 .. Len(mgr)
        BY <1>6
    <3>2. mgr[Len(mgr) - i + 1] = mgr[Len(mgr) - j + 1]
        BY <1>2, <2>3
    <3>3. Len(mgr) - i + 1 = Len(mgr) - j + 1
        BY <2>1, <3>1, <3>2
    <3> QED BY <1>6, <3>3
  <2> QED BY <1>3, <2>2, <2>3
<1>8. Once(called.calls)
    BY <1>5, <1>6, <1>7 DEF Once
<1>9. \A i \in DOMAIN called.calls : called.calls[i][1] = hook
    BY <1>5, <1>6
<1>10. ~called.error => raises \notin Range(called.calls)
    BY <1>1, <1>5, <1>6 DEF Range
<1>11. called.error /\ (\A m \in Range(mgr) : ~Mismatched(m, sync)) =>
            raises \in Range(called.calls)
    BY <1>5, <1>6 DEF Range
<1>12. hook \in BeforeHooks => \A i \in 1 .. Len(called.calls) :
            called.calls[i] = <<hook, mgr[i]>>
    BY <1>1, <1>5
<1>13. ~called.error /\ hook \in AfterHooks => \A i \in 1 .. Len(mgr) :
            called.calls[i] = <<hook, mgr[Len(mgr) - i + 1]>>
    BY <1>1, <1>2, <1>5
<1>14. (\A m \in Range(mgr) : ~Mismatched(m, sync)) /\ Len(mgr) > 0 =>
            Len(called.calls) > 0
    BY <1>1, <1>5
<1> QED BY <1>1, <1>5, <1>6, <1>8, <1>9, <1>10, <1>11, <1>12, <1>13, <1>14 DEF called, RightCalls

LEMMA HookCalls ==
    ASSUME NEW r \in Requests, Shape(r) \in Shapes[r], NEW hook \in Hooks
    PROVE  LET called == Hook(r, hook)
               mgr == OfRequest(r)
           IN  /\ called.calls \in Seq(Hooks \X Middlewares) /\ called.error \in BOOLEAN
               /\ \A i \in DOMAIN called.calls : called.calls[i][1] = hook
               /\ Once(called.calls)
               /\ ~called.error =>
                    /\ Len(called.calls) = Len(mgr)
                    /\ Shape(r).raises \notin Range(called.calls)
                    /\ Matched(r)
                    /\ hook \in BeforeHooks => \A i \in 1 .. Len(mgr) :
                            called.calls[i] = <<hook, mgr[i]>>
                    /\ hook \in AfterHooks => \A i \in 1 .. Len(mgr) :
                            called.calls[i] = <<hook, mgr[Len(mgr) - i + 1]>>
               /\ Matched(r) =>
                    /\ called.error => Shape(r).raises \in Range(called.calls)
                    /\ hook \in BeforeHooks =>
                            /\ Len(called.calls) > 0
                            /\ called.calls[1] = <<hook, Head(OfClient)>>
<1> DEFINE mgr == OfRequest(r)
<1>1. mgr \in Seq(Middlewares) /\ IsInjective(mgr)
    BY ManagersTyped
<1>2. Len(mgr) > 0 /\ mgr[1] = Head(OfClient)
  <2>1. OfClient \in Seq(Middlewares) /\ Len(OfClient) > 0
        /\ Len(mgr) >= Len(OfClient)
        /\ \A i \in 1 .. Len(OfClient) : mgr[i] = OfClient[i]
      BY ManagersTyped
  <2> HIDE DEF mgr
  <2>2. Len(mgr) > 0 /\ mgr[1] = OfClient[1]
      BY <1>1, <2>1
  <2>3. OfClient[1] = Head(OfClient)
    <3>1. OfClient # << >>
        BY MiddlewareAssumption
    <3> QED BY <2>1, <3>1
  <2> QED BY <2>2, <2>3
<1>3. Matched(r) = \A m \in Range(mgr) : ~Mismatched(m, SyncHooks(r))
    BY DEF Matched
<1>4. Hook(r, hook) = Called(mgr, hook, Shape(r).raises, SyncHooks(r))
    BY DEF Hook
<1> HIDE DEF Middlewares, mgr
<1> DEFINE raises == Shape(r).raises
           sync == SyncHooks(r)
<1> HIDE DEF raises, sync
<1>5. RightCalls(Called(mgr, hook, raises, sync), mgr, hook, raises, sync)
    BY <1>1, CallsOnce
<1> DEFINE called == Called(mgr, hook, raises, sync)
<1>6. Hook(r, hook) = called
    BY <1>4 DEF raises, sync
<1>7. Matched(r) <=> \A m \in Range(mgr) : ~Mismatched(m, sync)
    BY <1>3 DEF sync
<1> HIDE DEF called
<1>8. /\ called.calls \in Seq(Hooks \X Middlewares) /\ called.error \in BOOLEAN
      /\ \A i \in DOMAIN called.calls : called.calls[i][1] = hook
      /\ Once(called.calls)
      /\ ~called.error =>
           /\ Len(called.calls) = Len(mgr) /\ raises \notin Range(called.calls)
           /\ Matched(r)
           /\ hook \in BeforeHooks => \A i \in 1 .. Len(mgr) :
                   called.calls[i] = <<hook, mgr[i]>>
           /\ hook \in AfterHooks => \A i \in 1 .. Len(mgr) :
                   called.calls[i] = <<hook, mgr[Len(mgr) - i + 1]>>
      /\ Matched(r) =>
           /\ called.error => raises \in Range(called.calls)
           /\ hook \in BeforeHooks =>
                   Len(called.calls) > 0 /\ called.calls[1] = <<hook, mgr[1]>>
    BY <1>2, <1>5, <1>7 DEF called, RightCalls
<1> QED BY <1>2, <1>6, <1>8 DEF mgr, raises

-----------------------------------------------------------------------------
(* How far a replay is.                                                     *)

\* The first hook of a replay: transform_input, then before_execution.
LEMMA Controls ==
    ASSUME Types, NEW r \in Requests, Progress(r), Step(r)
    PROVE  \/ Begins(r) \/ Reports(r) \/ ReportsLate(r)
           \/ /\ req'[r].pc \notin {"reporting", "executing"}
              /\ req'[r].begun = req[r].begun
              /\ req[r].begun => req'[r].shape = req[r].shape
           \/ /\ req'[r].pc = req[r].pc /\ req'[r].begun = req[r].begun
              /\ req'[r].shape = req[r].shape
<1>1. req[r] \in RequestStates
    BY DEF Types
<1>2. CASE \E shape \in Shapes[r] : Arrive(r, shape)
  <2>1. req'[r].pc = "arrived" /\ req'[r].begun = req[r].begun /\ ~req[r].begun
      BY <1>2, ArriveTyped DEF Arrive, Progress
  <2> QED BY <2>1
<1>3. CASE Before(r)
  <2>1. Turned(r) \/ Left(r) \/ Awaits(r) \/ Proceeds(r)
      BY <1>3, BeforeTyped
  <2>2. CASE Turned(r)
      BY <1>1, <2>2 DEF Turned, RequestStates
  <2>3. CASE Left(r)
      BY <1>1, <2>3 DEF Left, RequestStates
  <2>4. CASE Awaits(r)
      BY <1>1, <2>4 DEF Awaits, RequestStates
  <2>5. CASE Proceeds(r)
      BY <1>1, <2>5 DEF Proceeds, RequestStates
  <2> QED BY <2>1, <2>2, <2>3, <2>4, <2>5
<1>4. ASSUME NEW t \in Threads, StartsOnPool(r, t)
      PROVE  /\ req'[r].pc = "called" /\ req'[r].begun = req[r].begun
             /\ req'[r].shape = req[r].shape
    BY <1>1, <1>4, StartsOnPoolTyped DEF RequestStates
<1>5. CASE Sends(r) \/ Tries(r) \/ Sent(r) \/ \E f \in Fetches : FetchAnswer(r, f)
    BY <1>5 DEF Sends, Tries, Sent, FetchAnswer
<1>6. ASSUME HandlerEnds(r) \/ Replies(r) PROVE Shape(r) \in Shapes[r]
    BY <1>6 DEF HandlerEnds, Replies, Progress, Shape
<1>7. CASE HandlerEnds(r)
  <2>1. \E result : req'[r] = [req[r] EXCEPT !.pc = "ended", !.result = result]
      BY <1>6, <1>7, HandlerEndsTyped
  <2> QED BY <1>1, <2>1 DEF RequestStates
<1>8. CASE Replies(r)
  <2>1. req[r].result # "none" /\ req[r].stream # "done"
      BY <1>8 DEF Replies, Progress
  <2>2. \E result, stream, answer :
              req'[r] = [req[r] EXCEPT !.pc = "answered", !.thread = Nobody,
                            !.result = result, !.stream = stream, !.answer = answer]
      BY <1>6, <1>8, <2>1, RepliesMoves
  <2> QED BY <1>1, <2>2 DEF RequestStates
<1>9. CASE HangsUp(r)
    BY <1>1, <1>9, HangsUpTyped DEF RequestStates
<1> QED BY <1>2, <1>3, <1>4, <1>5, <1>7, <1>8, <1>9, StepKinds DEF Run

LEMMA BegunKept ==
    ASSUME Types, NEW r \in Requests, Progress(r), Begun(r), Step(r)
    PROVE  Begun(r)'
<1>1. req[r] \in RequestStates
    BY DEF Types
<1>2. req'[r].shape = req[r].shape =>
            (Matched(r) => \A m \in Range(OfRequest(r)') : ~Mismatched(m, SyncHooks(r)'))
    BY DEF Matched, OfRequest, SyncHooks, Shape
<1>3. req[r].pc \in {"reporting", "executing"} \/ req[r].begun => Matched(r)
    BY DEF Begun, Matched
<1>4. CASE Begins(r)
  <2>1. req[r].pc = "called" /\ Shape(r) \in Shapes[r]
      BY <1>4 DEF Begins, Progress, Shape
  <2> DEFINE input  == Hook(r, "transform_input")
             before == IF input.error \/ Shape(r).memos THEN NoCalls
                       ELSE BeforeExecution(r)
             begun == ~input.error /\ ~Shape(r).memos
             pc == IF input.error \/ before.error THEN "ended"
                   ELSE IF Shape(r).memos \/ MeetsNewStep(r) THEN "reporting"
                   ELSE "executing"
             result == IF input.error \/ before.error THEN "error" ELSE req[r].result
  <2>2. req'[r] = [req[r] EXCEPT !.begun = begun, !.result = result, !.pc = pc]
      BY <1>4, <2>1, BeginsTyped
  <2>3. "transform_input" \in Hooks
      BY DEF Hooks, BeforeHooks
  <2>4. ~input.error => Matched(r)
      BY <2>1, <2>3, HookCalls
  <2> HIDE DEF input, before
  <2>5. /\ pc \in {"ended", "reporting", "executing"}
        /\ pc \in {"reporting", "executing"} \/ begun => ~input.error
        /\ pc = "executing" => begun
        /\ pc = "reporting" => (begun <=> ~Shape(r).memos)
      OBVIOUS
  <2>6. begun \in BOOLEAN
      OBVIOUS
  <2> HIDE DEF pc, begun, result
  <2>7. req'[r].pc = pc /\ req'[r].begun = begun /\ req'[r].shape = req[r].shape
      BY <1>1, <2>2 DEF RequestStates
  <2> QED BY <1>2, <2>4, <2>5, <2>7 DEF Begun, Shape, Matched
<1>5. CASE Reports(r) \/ ReportsLate(r)
  <2>1. req[r].pc \in {"reporting", "executing"} /\ Shape(r) \in Shapes[r]
      BY <1>5 DEF Reports, ReportsLate, Progress, Shape
  <2>2. PICK begun \in BOOLEAN :
            /\ (begun <=> ~Shape(r).left) \/ begun
            /\ req'[r] = [req[r] EXCEPT !.pc = "executing", !.begun = begun]
      BY <1>5, <2>1, ReportsTyped DEF ReportsAs
  <2>3. /\ req'[r].pc = "executing" /\ (req'[r].begun <=> begun)
        /\ req'[r].shape = req[r].shape
      BY <1>1, <2>2 DEF RequestStates
  <2>4. Shape(r)' = Shape(r)
      BY <2>3 DEF Shape
  <2> QED BY <1>2, <1>3, <2>1, <2>2, <2>3, <2>4 DEF Begun, Matched
<1>6. CASE /\ req'[r].pc \notin {"reporting", "executing"}
           /\ req'[r].begun = req[r].begun
           /\ req[r].begun => req'[r].shape = req[r].shape
    BY <1>2, <1>3, <1>6 DEF Begun, Matched
<1>7. CASE /\ req'[r].pc = req[r].pc /\ req'[r].begun = req[r].begun
           /\ req'[r].shape = req[r].shape
    BY <1>2, <1>3, <1>7 DEF Begun, Shape, Matched
<1> QED BY <1>4, <1>5, <1>6, <1>7, Controls

LEMMA BegunElsewhere ==
    ASSUME NEW q \in Requests, req'[q] = req[q], Begun(q)
    PROVE  Begun(q)'
    BY DEF Begun, Matched, OfRequest, SyncHooks, Shape

THEOREM BegunAlways == Spec => [](\A r \in Requests : Begun(r))
<1>1. Init => \A r \in Requests : Begun(r)
    BY DEF Init, Begun
<1>2. ASSUME Handled, \A r \in Requests : Begun(r), [Next]_vars
      PROVE  (\A r \in Requests : Begun(r))'
  <2>1. CASE UNCHANGED vars
      BY <1>2, <2>1, BegunElsewhere DEF vars
  <2>2. ASSUME NEW r \in Requests, Step(r), Others(r)
        PROVE  (\A q \in Requests : Begun(q))'
    <3>1. Types /\ Progress(r)
        BY <1>2 DEF Handled
    <3>2. Begun(r)'
        BY <1>2, <2>2, <3>1, BegunKept
    <3> QED BY <1>2, <2>2, <3>2, BegunElsewhere DEF Others
  <2> QED BY <1>2, <2>1, <2>2, HandledKept
<1> QED BY <1>1, <1>2, HandledAlways, PTL DEF Spec

-----------------------------------------------------------------------------
(* The logger.                                                              *)

\* No two requests have the same context, nor a request that of a thread.
LEMMA Contexts ==
    ASSUME Types, OneAtATime, NEW r \in Requests, NEW q \in Requests \ {r}
    PROVE  /\ Context(r) \in Requests \cup Threads
           /\ Context(q) # Context(r) /\ q # Context(r)
<1>1. req[r].thread \in Threads \cup {Nobody} /\ req[q].thread \in Threads \cup {Nobody}
  <2>1. req[r] \in RequestStates /\ req[q] \in RequestStates
      BY DEF Types
  <2> QED BY <2>1 DEF RequestStates
<1>2. Nobody \notin Threads /\ Requests \cap Threads = {}
    BY ServeAssumption
<1>3. req[q].thread = req[r].thread => req[r].thread = Nobody
    BY DEF OneAtATime
<1> QED BY <1>1, <1>2, <1>3 DEF Context

\* A step sets the logger in the context of its request.
LEMMA LoggingElsewhere ==
    ASSUME Types, NEW r \in Requests, Step(r)
    PROVE  \A c \in (Requests \cup Threads) \ {Context(r)} : logging'[c] = logging[c]
<1>1. logging \in [Requests \cup Threads -> BOOLEAN]
    BY DEF Types
<1>2. CASE \E shape \in Shapes[r] : Arrive(r, shape)
    BY <1>2 DEF Arrive
<1>3. CASE Before(r)
    BY <1>1, <1>3 DEF Before, Unverifiable, Unauthorized, Post, Put, Registered, Inspect,
                Gathered, FetchedSync, Quiet
<1>4. CASE Run(r)
    BY <1>1, <1>4 DEF Run, StartsOnPool, Begins, Reports, ReportsLate, Sends, Tries,
                      Sent, HandlerEnds, Replies, HangsUp, Quiet, Enable
<1>5. CASE \E f \in Fetches : FetchAnswer(r, f)
    BY <1>5 DEF FetchAnswer
<1> QED BY <1>2, <1>3, <1>4, <1>5, StepKinds

LEMMA SpeaksElsewhere ==
    ASSUME Types, OneAtATime, NEW r \in Requests, NEW q \in Requests \ {r}, Step(r),
           Others(r), conf' = conf, Speaks(q)
    PROVE  Speaks(q)'
<1>1. Context(q) \in Requests \cup Threads /\ Context(q) # Context(r) /\ q # Context(r)
    BY Contexts
<1>2. logging'[Context(q)] = logging[Context(q)] /\ logging'[q] = logging[q]
    BY <1>1, LoggingElsewhere
<1>3. req'[q] = req[q] /\ send'[q] = send[q]
    BY DEF Others
<1>4. Context(q)' = Context(q) /\ Sync' = Sync /\ Shape(q)' = Shape(q)
    BY <1>3 DEF Context, Sync, Shape
<1> QED BY <1>2, <1>3, <1>4 DEF Speaks

\* The logger after a call of a hook: before_execution enables it when it
\* reached LoggerMiddleware, which is the first.
LEMMA Enables ==
    ASSUME Types, NEW r \in Requests, Shape(r) \in Shapes[r], Context(r) \in Requests \cup Threads,
           Matched(r), ~req[r].begun, Enable(r, BeforeExecution(r))
    PROVE  logging'[Context(r)]
<1>1. "before_execution" \in Hooks /\ "before_execution" \in BeforeHooks
    BY DEF Hooks, BeforeHooks
<1> DEFINE called == Hook(r, "before_execution")
<1>2. /\ called.calls \in Seq(Hooks \X Middlewares) /\ Len(called.calls) > 0
      /\ called.calls[1] = <<"before_execution", Head(OfClient)>>
    BY <1>1, HookCalls
<1>3. Enable(r, called)
    BY DEF BeforeExecution
<1> HIDE DEF called
<1>4. 1 \in DOMAIN called.calls
    BY <1>2
<1>5. (<<"before_execution", Head(OfClient)>>)[2] = Head(OfClient)
    OBVIOUS
<1>6. \E i \in DOMAIN called.calls : called.calls[i][2] = Head(OfClient)
    BY <1>2, <1>4, <1>5
<1>7. logging' = [logging EXCEPT ![Context(r)] = TRUE]
    BY <1>3, <1>6 DEF Enable
<1> QED BY <1>7 DEF Types

LEMMA EnablesNothing ==
    ASSUME NEW r \in Requests, Enable(r, NoCalls)
    PROVE  logging' = logging
<1>1. DOMAIN NoCalls.calls = {}
    BY DEF NoCalls
<1> QED BY <1>1 DEF Enable

LEMMA SpeaksKept ==
    ASSUME Types, NEW r \in Requests, Progress(r), OnThread(r), Begun(r), Speaks(r), Step(r)
    PROVE  Speaks(r)'
<1>1. req[r] \in RequestStates /\ send[r] \in SendStates
      /\ logging \in [Requests \cup Threads -> BOOLEAN]
    BY DEF Types
<1>2. conf' = conf /\ Sync' = Sync
    BY ProgressKept DEF Sync
<1>3. Context(r) \in Requests \cup Threads /\ Nobody \notin Threads
    BY <1>1, ServeAssumption DEF Context, RequestStates
<1>4. req[r].pc \in {"called", "reporting", "executing", "ended"} =>
            Shape(r) \in Shapes[r]
    BY DEF Progress, Shape
<1>5. Quiet(r) => ~logging'[Context(r)]
    BY <1>1, <1>3 DEF Quiet
<1>6. CASE \E shape \in Shapes[r] : Arrive(r, shape)
  <2>1. req'[r].pc = "arrived"
      BY <1>6, ArriveTyped
  <2> QED BY <2>1 DEF Speaks
<1>7. CASE Before(r)
  <2>1. Turned(r) \/ Left(r) \/ Awaits(r) \/ Proceeds(r)
      BY <1>7, BeforeTyped
  <2>2. CASE Turned(r) \/ Left(r)
    <3>1. req'[r].pc \in {"answered", "escaped"}
        BY <1>1, <2>2 DEF Turned, Left, RequestStates
    <3> QED BY <3>1 DEF Speaks
  <2>3. CASE Awaits(r)
    <3>1. CASE req'[r] = [req[r] EXCEPT !.pc = "fetching"] /\ Quiet(r)
      <4>1. req'[r].pc = "fetching" /\ req'[r].thread = req[r].thread
          BY <1>1, <3>1 DEF RequestStates
      <4>2. ~logging'[Context(r)'] /\ Context(r)' = Context(r)
          BY <1>5, <3>1, <4>1 DEF Context
      <4> QED BY <4>1, <4>2 DEF Speaks
    <3>2. CASE req[r].pc = "fetching" /\ req' = req /\ logging' = logging
        BY <1>2, <3>2 DEF Speaks, Context
    <3>3. CASE req'[r] = [req[r] EXCEPT !.pc = "registering"]
      <4>1. req'[r].pc = "registering"
          BY <1>1, <3>3 DEF RequestStates
      <4> QED BY <4>1 DEF Speaks
    <3> QED BY <2>3, <3>1, <3>2, <3>3 DEF Awaits
  <2>4. CASE Proceeds(r)
    <3>1. PICK pc \in {"called", "queued"}, stream \in {"no", "open"} :
            /\ req'[r] = [req[r] EXCEPT !.pc = pc, !.stream = stream]
            /\ pc = "queued" => ~Sync
        BY <2>4 DEF Proceeds
    <3>2. req'[r].pc = pc /\ req'[r].thread = req[r].thread
        BY <1>1, <3>1 DEF RequestStates
    <3>3. Context(r)' = Context(r)
        BY <3>2 DEF Context
    <3>4. Sync \/ req[r].thread = Nobody => ~logging'[Context(r)]
        BY <1>5, <2>4 DEF Proceeds, Speaks
    <3>5. pc = "queued" => req[r].thread = Nobody
        BY <2>4, <3>1 DEF Proceeds, OnThread
    <3>6. pc = "queued" => ~logging'[r]
        BY <3>4, <3>5 DEF Context
    <3> QED BY <1>2, <3>2, <3>3, <3>4, <3>6 DEF Speaks
  <2> QED BY <2>1, <2>2, <2>3, <2>4
<1>8. ASSUME NEW t \in Threads, StartsOnPool(r, t) PROVE Speaks(r)'
  <2>1. req'[r] = [req[r] EXCEPT !.pc = "called", !.thread = t] /\ ~Sync
      BY <1>8, StartsOnPoolTyped
  <2>2. req'[r].pc = "called" /\ req'[r].thread = t
      BY <1>1, <2>1 DEF RequestStates
  <2> QED BY <1>2, <1>3, <2>1, <2>2 DEF Speaks
<1>9. CASE Begins(r)
  <2>1. req[r].pc = "called" /\ Shape(r) \in Shapes[r] /\ ~req[r].begun
      BY <1>4, <1>9 DEF Begins, Progress
  <2> DEFINE input  == Hook(r, "transform_input")
             before == IF input.error \/ Shape(r).memos THEN NoCalls
                       ELSE BeforeExecution(r)
             begun == ~input.error /\ ~Shape(r).memos
             pc == IF input.error \/ before.error THEN "ended"
                   ELSE IF Shape(r).memos \/ MeetsNewStep(r) THEN "reporting"
                   ELSE "executing"
             result == IF input.error \/ before.error THEN "error" ELSE req[r].result
  <2>2. /\ req'[r] = [req[r] EXCEPT !.begun = begun, !.result = result, !.pc = pc]
        /\ Enable(r, before) /\ send' = send
      BY <1>9, <2>1, BeginsTyped
  <2>3. "transform_input" \in Hooks
      BY DEF Hooks, BeforeHooks
  <2>4. ~input.error => Matched(r)
      BY <2>1, <2>3, HookCalls
  <2>5. begun => logging'[Context(r)]
    <3>1. ASSUME begun PROVE before = BeforeExecution(r) /\ Matched(r)
      <4> HIDE DEF input
      <4> QED BY <2>4, <3>1
    <3> HIDE DEF before, begun
    <3> QED BY <1>3, <2>1, <2>2, <3>1, Enables
  <2>6. ~begun => logging' = logging
    <3>1. ~begun => before = NoCalls
      <4> HIDE DEF input
      <4> QED OBVIOUS
    <3> HIDE DEF before, begun
    <3> QED BY <2>2, <3>1, EnablesNothing
  <2> HIDE DEF input, before
  <2>7. /\ pc \in {"ended", "reporting", "executing"}
        /\ pc \in {"reporting", "executing"} => (begun <=> ~Shape(r).memos)
      OBVIOUS
  <2>8. begun \in BOOLEAN
      OBVIOUS
  <2> HIDE DEF pc, begun, result
  <2>9. req'[r].pc = pc /\ req'[r].begun = begun /\ req'[r].shape = req[r].shape
        /\ req'[r].thread = req[r].thread
      BY <1>1, <2>2 DEF RequestStates
  <2>10. Context(r)' = Context(r) /\ Shape(r)' = Shape(r)
      BY <2>9 DEF Context, Shape
  <2>11. Sync \/ req[r].thread = Nobody => ~logging[Context(r)]
      BY <2>1 DEF Speaks
  <2> QED BY <1>2, <2>5, <2>6, <2>7, <2>9, <2>10, <2>11 DEF Speaks
<1>10. CASE Reports(r) \/ ReportsLate(r)
  <2>1. /\ req[r].pc \in {"reporting", "executing"} /\ Shape(r) \in Shapes[r]
        /\ Matched(r)
      BY <1>4, <1>10 DEF Reports, ReportsLate, Begun, Matched
  <2>2. send' = send /\ \E begun \in BOOLEAN : ReportsAs(r, begun)
      BY <1>10, <2>1, ReportsTyped
  <2>3. PICK begun \in BOOLEAN :
        /\ req[r].pc = "reporting" \/ ~req[r].begun
        /\ Enable(r, ReportCalls(r, begun))
        /\ req'[r] = [req[r] EXCEPT !.pc = "executing", !.begun = begun]
      BY <2>2 DEF ReportsAs
  <2>4. /\ req'[r].pc = "executing" /\ req'[r].thread = req[r].thread
        /\ req'[r].shape = req[r].shape /\ (req'[r].begun <=> begun)
      BY <1>1, <2>3 DEF RequestStates
  <2>5. Context(r)' = Context(r) /\ Shape(r)' = Shape(r)
      BY <2>4 DEF Context, Shape
  <2>6. begun /\ ~req[r].begun => logging'[Context(r)]
      BY <1>3, <2>1, <2>3, Enables DEF ReportCalls
  <2>7. begun /\ req[r].begun => logging' = logging
      BY <2>3, EnablesNothing DEF ReportCalls, BeforeExecution
  <2> QED BY <2>1, <2>2, <2>3, <2>4, <2>5, <2>6, <2>7 DEF Speaks
<1>11. CASE Sends(r)
  <2>1. req[r].pc = "executing" /\ Shape(r) \in Shapes[r]
      BY <1>4, <1>11 DEF Sends
  <2>2. /\ req' = req /\ send[r].pc = "unsent"
        /\ IF Shape(r).sends = "client" THEN Quiet(r) ELSE UNCHANGED logging
        /\ \/ send'[r] = [send[r] EXCEPT !.pc = "raised"]
           \/ send'[r] = [send[r] EXCEPT !.pc = "trying", !.seed = 1]
      BY <1>11, <2>1, SendsTyped
  <2>3. send'[r].pc # "unsent"
      BY <1>1, <2>2 DEF SendStates
  <2>4. Context(r)' = Context(r) /\ Shape(r)' = Shape(r)
      BY <2>2 DEF Context, Shape
  <2> QED BY <1>2, <2>1, <2>2, <2>3, <2>4 DEF Speaks
<1>12. CASE Tries(r) \/ Sent(r)
  <2>1. req' = req /\ logging' = logging /\ send[r].pc # "unsent" /\ req[r].pc = "executing"
      BY <1>12 DEF Tries, Attempt, Sent, FinishSend, Progress
  <2>2. CASE Tries(r)
    <3>1. send[r].attempts < MaxAttempts
        BY <2>2 DEF Tries, Attempt, Progress
    <3>2. PICK resp \in Responses \cup {Nobody}, pc \in {"trying", "tried"} :
            send'[r] = [send[r] EXCEPT !.resp = resp, !.attempts = @ + 1, !.pc = pc]
        BY <2>2, <3>1, TriesTyped
    <3>3. send'[r].pc # "unsent"
        BY <1>1, <3>2 DEF SendStates
    <3> QED BY <2>1, <3>3 DEF Speaks, Context, Shape
  <2>3. CASE Sent(r)
    <3>1. \E pc \in {"returned", "raised"} : send'[r] = [send[r] EXCEPT !.pc = pc]
        BY <1>4, <2>1, <2>3, SentTyped
    <3>2. send'[r].pc # "unsent"
        BY <1>1, <3>1 DEF SendStates
    <3> QED BY <2>1, <3>2 DEF Speaks, Context, Shape
  <2> QED BY <1>12, <2>2, <2>3
<1>13. CASE HandlerEnds(r) \/ Replies(r)
  <2>1. Shape(r) \in Shapes[r]
      BY <1>4, <1>13 DEF HandlerEnds, Replies
  <2>2. CASE HandlerEnds(r)
    <3>1. \E result : req'[r] = [req[r] EXCEPT !.pc = "ended", !.result = result]
        BY <2>1, <2>2, HandlerEndsTyped
    <3>2. req'[r].pc = "ended"
        BY <1>1, <3>1 DEF RequestStates
    <3> QED BY <3>2 DEF Speaks
  <2>3. CASE Replies(r)
    <3>1. req[r].result # "none" /\ req[r].stream # "done"
        BY <2>3 DEF Replies, Progress
    <3>2. \E result, stream, answer :
              req'[r] = [req[r] EXCEPT !.pc = "answered", !.thread = Nobody,
                            !.result = result, !.stream = stream, !.answer = answer]
        BY <2>1, <2>3, <3>1, RepliesMoves
    <3>3. req'[r].pc = "answered"
        BY <1>1, <3>2 DEF RequestStates
    <3> QED BY <3>3 DEF Speaks
  <2> QED BY <1>13, <2>2, <2>3
<1>14. CASE HangsUp(r)
  <2>1. UNCHANGED <<sending, logging>> /\ req'[r] = [req[r] EXCEPT !.stream = "gone"]
      BY <1>14, HangsUpTyped
  <2>2. req'[r].pc = req[r].pc /\ req'[r].thread = req[r].thread
        /\ req'[r].shape = req[r].shape /\ req'[r].begun = req[r].begun
      BY <1>1, <2>1 DEF RequestStates
  <2> QED BY <1>2, <2>1, <2>2 DEF Speaks, Context, Shape, sending
<1>15. CASE \E f \in Fetches : FetchAnswer(r, f)
    BY <1>2, <1>15 DEF FetchAnswer, sending, Speaks, Context, Shape
<1> QED BY <1>6, <1>7, <1>8, <1>9, <1>10, <1>11, <1>12, <1>13, <1>14, <1>15, StepKinds
        DEF Run

THEOREM SpeaksAlways == Spec => [](\A r \in Requests : Speaks(r))
<1>1. Init => \A r \in Requests : Speaks(r)
    BY DEF Init, Speaks
<1>2. ASSUME Handled, \A r \in Requests : Begun(r), \A r \in Requests : Speaks(r),
             [Next]_vars
      PROVE  (\A r \in Requests : Speaks(r))'
  <2>1. CASE UNCHANGED vars
      BY <1>2, <2>1 DEF vars, Speaks, Context, Shape, Sync
  <2>2. ASSUME NEW r \in Requests, Step(r), Others(r), conf' = conf
        PROVE  (\A q \in Requests : Speaks(q))'
    <3>1. Types /\ OneAtATime /\ Progress(r) /\ OnThread(r)
        BY <1>2 DEF Handled
    <3>2. Speaks(r)'
        BY <1>2, <2>2, <3>1, SpeaksKept
    <3>3. \A q \in Requests \ {r} : Speaks(q)'
        BY <1>2, <2>2, <3>1, SpeaksElsewhere
    <3> QED BY <3>2, <3>3
  <2> QED BY <1>2, <2>1, <2>2, HandledKept
<1> QED BY <1>1, <1>2, HandledAlways, BegunAlways, PTL DEF Spec

\* LogsNewCode: once no memo is left and until client.send, the logger speaks in
\* the function's context; while memos are met it is silent in the contexts that
\* are no pool thread's; whatever the requests before it left there.
THEOREM NewCodeLogs == Spec => []LogsNewCode
<1>1. (\A r \in Requests : Begun(r)) /\ (\A r \in Requests : Speaks(r)) => LogsNewCode
    BY DEF LogsNewCode, Begun, Speaks
<1> QED BY <1>1, BegunAlways, SpeaksAlways, PTL

-----------------------------------------------------------------------------
(* The history of a request's hooks.                                        *)

LEMMA Appended ==
    ASSUME NEW S, NEW s \in Seq(S), NEW t \in Seq(S)
    PROVE  /\ s \o t \in Seq(S) /\ Len(s \o t) = Len(s) + Len(t)
           /\ Len(s) \in Nat /\ Len(t) \in Nat
           /\ DOMAIN s = 1 .. Len(s) /\ DOMAIN t = 1 .. Len(t)
           /\ DOMAIN (s \o t) = 1 .. Len(s) + Len(t)
           /\ \A i \in 1 .. Len(s) : (s \o t)[i] = s[i]
           /\ \A i \in 1 .. Len(t) : (s \o t)[Len(s) + i] = t[i]
           /\ \A i \in DOMAIN (s \o t) :
                \/ i \in DOMAIN s /\ (s \o t)[i] = s[i]
                \/ i - Len(s) \in DOMAIN t /\ (s \o t)[i] = t[i - Len(s)]
           /\ \A x : x \in Range(s \o t) <=> x \in Range(s) \/ x \in Range(t)
<1>1. /\ s \o t \in Seq(S) /\ Len(s \o t) = Len(s) + Len(t)
      /\ \A i \in 1 .. Len(s) + Len(t) :
            (s \o t)[i] = IF i <= Len(s) THEN s[i] ELSE t[i - Len(s)]
    BY ConcatProperties
<1>2. /\ Len(s) \in Nat /\ Len(t) \in Nat
      /\ DOMAIN s = 1 .. Len(s) /\ DOMAIN t = 1 .. Len(t)
    OBVIOUS
<1>3. DOMAIN (s \o t) = 1 .. Len(s) + Len(t)
    BY <1>1
<1> DEFINE both == s \o t
<1> HIDE DEF both
<1>4. \A i \in 1 .. Len(s) : both[i] = s[i]
    BY <1>1, <1>2 DEF both
<1>5. \A i \in 1 .. Len(t) : both[Len(s) + i] = t[i]
  <2> SUFFICES ASSUME NEW i \in 1 .. Len(t) PROVE both[Len(s) + i] = t[i]
      OBVIOUS
  <2>1. Len(s) + i \in 1 .. Len(s) + Len(t) /\ ~(Len(s) + i <= Len(s))
        /\ (Len(s) + i) - Len(s) = i
      BY <1>2
  <2> QED BY <1>1, <2>1 DEF both
<1>6. \A i \in 1 .. Len(s) + Len(t) :
            \/ i \in 1 .. Len(s) /\ both[i] = s[i]
            \/ i - Len(s) \in 1 .. Len(t) /\ both[i] = t[i - Len(s)]
    BY <1>1, <1>2 DEF both
<1>7. DOMAIN both = 1 .. Len(s) + Len(t)
    BY <1>3 DEF both
<1>8. ASSUME NEW x PROVE x \in Range(both) <=> x \in Range(s) \/ x \in Range(t)
  <2>1. x \in Range(both) => x \in Range(s) \/ x \in Range(t)
      BY <1>2, <1>6, <1>7 DEF Range
  <2>2. \A i \in 1 .. Len(s) : i \in 1 .. Len(s) + Len(t)
      BY <1>2
  <2>3. \A i \in 1 .. Len(t) : Len(s) + i \in 1 .. Len(s) + Len(t)
      BY <1>2
  <2>4. x \in Range(s) => x \in Range(both)
      BY <1>2, <1>4, <1>7, <2>2 DEF Range
  <2>5. x \in Range(t) => x \in Range(both)
      BY <1>2, <1>5, <1>7, <2>3 DEF Range
  <2> QED BY <2>1, <2>4, <2>5
<1> QED BY <1>1, <1>2, <1>3, <1>4, <1>5, <1>6, <1>7, <1>8 DEF both

\* Calls of other hooks do not repeat one.
LEMMA OnceAppended ==
    ASSUME NEW S, NEW s \in Seq(S), NEW t \in Seq(S), Once(s), Once(t),
           \A i \in DOMAIN s, j \in DOMAIN t : s[i][1] # t[j][1]
    PROVE  Once(s \o t)
<1> DEFINE both == s \o t
<1>1. \A i \in DOMAIN both :
            \/ i \in DOMAIN s /\ both[i] = s[i]
            \/ i - Len(s) \in DOMAIN t /\ both[i] = t[i - Len(s)]
    BY Appended
<1>2. DOMAIN both \subseteq Nat /\ Len(s) \in Nat
    BY Appended
<1> HIDE DEF both
<1> SUFFICES ASSUME NEW i \in DOMAIN both, NEW j \in DOMAIN both, both[i] = both[j]
             PROVE  i = j
    BY DEF Once, both
<1>3. CASE i \in DOMAIN s /\ both[i] = s[i] /\ j \in DOMAIN s /\ both[j] = s[j]
    BY <1>3 DEF Once
<1>4. CASE /\ i - Len(s) \in DOMAIN t /\ both[i] = t[i - Len(s)]
           /\ j - Len(s) \in DOMAIN t /\ both[j] = t[j - Len(s)]
  <2>1. i - Len(s) = j - Len(s)
      BY <1>4 DEF Once
  <2> QED BY <1>2, <2>1
<1> QED BY <1>1, <1>3, <1>4

\* Two hooks after one another.
LEMMA TwoHooks ==
    ASSUME NEW S, NEW s \in Seq(S), NEW t \in Seq(S), Once(s), Once(t),
           \A i \in DOMAIN s, j \in DOMAIN t : s[i][1] # t[j][1]
    PROVE  /\ s \o t \in Seq(S) /\ Once(s \o t)
           /\ \A i \in DOMAIN (s \o t) :
                \/ \E j \in DOMAIN s : (s \o t)[i] = s[j]
                \/ \E j \in DOMAIN t : (s \o t)[i] = t[j]
<1>1. Once(s \o t)
    BY OnceAppended
<1> DEFINE both == s \o t
<1>2. \A i \in DOMAIN both :
            \/ i \in DOMAIN s /\ both[i] = s[i]
            \/ i - Len(s) \in DOMAIN t /\ both[i] = t[i - Len(s)]
    BY Appended
<1>3. both \in Seq(S)
    BY Appended
<1> HIDE DEF both
<1>4. \A i \in DOMAIN both : \/ \E j \in DOMAIN s : both[i] = s[j]
                             \/ \E j \in DOMAIN t : both[i] = t[j]
    BY <1>2
<1> QED BY <1>1, <1>3, <1>4 DEF both

LEMMA HistoryGrows ==
    ASSUME Types, NEW r \in Requests, History(r),
           NEW calls \in Seq(Hooks \X Middlewares), Once(calls),
           log'[r] = log[r] \o calls,
           NEW hooks \in SUBSET Hooks, \A i \in DOMAIN calls : calls[i][1] \in hooks,
           \A h \in hooks : ~Reached(r, h) /\ Reached(r, h)',
           \A h \in Hooks : Reached(r, h) => Reached(r, h)'
    PROVE  History(r)'
<1> DEFINE S == Hooks \X Middlewares
           before == log[r]
           now == before \o calls
<1>1. before \in Seq(S) /\ Once(before)
      /\ \A i \in DOMAIN before : Reached(r, before[i][1])
    BY DEF Types, History
<1>2. \A i \in DOMAIN before : before[i][1] \in Hooks
  <2>1. \A i \in DOMAIN before : before[i] \in S
      BY <1>1
  <2> HIDE DEF before
  <2> QED BY <2>1
<1> HIDE DEF S
<1>3. calls \in Seq(S)
    BY DEF S
<1>4. log'[r] = now
    OBVIOUS
<1> HIDE DEF before
<1>5. \A i \in DOMAIN before, j \in DOMAIN calls : before[i][1] # calls[j][1]
    BY <1>1
<1>6. Once(now)
    BY <1>1, <1>3, <1>5, OnceAppended
<1>7. \A i \in DOMAIN now :
            \/ i \in DOMAIN before /\ now[i] = before[i]
            \/ i - Len(before) \in DOMAIN calls /\ now[i] = calls[i - Len(before)]
    BY <1>1, <1>3, Appended
<1> HIDE DEF now
<1>8. \A i \in DOMAIN now : now[i][1] \in Hooks /\ (now[i][1] \in hooks \/ Reached(r, now[i][1]))
    BY <1>1, <1>2, <1>7
<1>9. ASSUME NEW i \in DOMAIN log'[r] PROVE \A h : h = log'[r][i][1] => Reached(r, h)'
    BY <1>4, <1>8
<1> QED BY <1>4, <1>6, <1>9 DEF History, Reached

\* A request that called no hook yet, and one that calls none in a step.
Fresh(r) ==
    /\ log'[r] = << >> /\ ~req'[r].begun /\ req'[r].result = "none"
    /\ req'[r].pc \notin {"reporting", "executing", "ended"}

Still(r) ==
    /\ log'[r] = log[r]
    /\ req'[r].pc = req[r].pc /\ req'[r].begun = req[r].begun
    /\ req'[r].shape = req[r].shape /\ req'[r].result = req[r].result
    /\ req'[r].answer = req[r].answer
    /\ req[r].pc = "answered" => req'[r].stream = req[r].stream
    /\ send'[r].pc = send[r].pc \/ (send[r].pc = "trying" /\ req[r].pc = "executing"
                                        /\ send'[r].pc = "tried")

LEMMA HistoryMoves ==
    ASSUME Types, NEW r \in Requests, Progress(r), Step(r)
    PROVE  \/ Fresh(r) \/ Still(r)
           \/ Begins(r) \/ Reports(r) \/ ReportsLate(r) \/ Sends(r) \/ Sent(r)
           \/ HandlerEnds(r) \/ Replies(r)
<1>1. req[r] \in RequestStates /\ send[r] \in SendStates
    BY DEF Types
<1>2. req[r].pc \in {"idle", "arrived", "fetching", "registering", "queued", "called"} =>
            log[r] = << >> /\ ~req[r].begun /\ req[r].result = "none"
    BY DEF Progress
<1>3. CASE \E shape \in Shapes[r] : Arrive(r, shape)
  <2>1. /\ req'[r].pc = "arrived" /\ req'[r].begun = req[r].begun
        /\ req'[r].result = req[r].result /\ req[r].pc = "idle"
      BY <1>3, ArriveTyped DEF Arrive
  <2>2. log' = log
      BY <1>3 DEF Arrive, sending
  <2> QED BY <1>2, <2>1, <2>2 DEF Fresh
<1>4. CASE Before(r)
  <2>1. Turned(r) \/ Left(r) \/ Awaits(r) \/ Proceeds(r)
      BY <1>4, BeforeTyped
  <2>2. log' = log
      BY <1>4, BeforeTyped DEF sending
  <2>3. CASE Turned(r)
      BY <1>1, <1>2, <2>2, <2>3 DEF Turned, RequestStates, Fresh
  <2>4. CASE Left(r)
      BY <1>1, <1>2, <2>2, <2>4 DEF Left, RequestStates, Fresh
  <2>5. CASE Awaits(r)
      BY <1>1, <1>2, <2>2, <2>5 DEF Awaits, RequestStates, Fresh
  <2>6. CASE Proceeds(r)
      BY <1>1, <1>2, <2>2, <2>6 DEF Proceeds, RequestStates, Fresh
  <2> QED BY <2>1, <2>3, <2>4, <2>5, <2>6
<1>5. ASSUME NEW t \in Threads, StartsOnPool(r, t) PROVE Fresh(r)
  <2>1. req'[r] = [req[r] EXCEPT !.pc = "called", !.thread = t] /\ log' = log
        /\ req[r].pc = "queued"
      BY <1>5, StartsOnPoolTyped DEF sending
  <2> QED BY <1>1, <1>2, <2>1 DEF RequestStates, Fresh
<1>6. CASE Tries(r)
  <2>1. /\ send[r].pc = "trying" /\ send[r].attempts < MaxAttempts
        /\ req[r].pc = "executing" /\ req' = req /\ log' = log
      BY <1>6 DEF Tries, Attempt, Progress
  <2>2. PICK resp \in Responses \cup {Nobody}, pc \in {"trying", "tried"} :
            send'[r] = [send[r] EXCEPT !.resp = resp, !.attempts = @ + 1, !.pc = pc]
      BY <1>6, <2>1, TriesTyped
  <2>3. send'[r].pc = pc
      BY <1>1, <2>2 DEF SendStates
  <2> QED BY <2>1, <2>3 DEF Still
<1>7. CASE HangsUp(r)
  <2>1. /\ UNCHANGED sending /\ req[r].pc # "answered"
        /\ req'[r] = [req[r] EXCEPT !.stream = "gone"]
      BY <1>7, HangsUpTyped
  <2>2. /\ req'[r].pc = req[r].pc /\ req'[r].begun = req[r].begun
        /\ req'[r].shape = req[r].shape /\ req'[r].result = req[r].result
        /\ req'[r].answer = req[r].answer
      BY <1>1, <2>1 DEF RequestStates
  <2> QED BY <2>1, <2>2 DEF Still, sending
<1>8. CASE \E f \in Fetches : FetchAnswer(r, f)
    BY <1>8 DEF FetchAnswer, sending, Still
<1> QED BY <1>3, <1>4, <1>5, <1>6, <1>7, <1>8, StepKinds DEF Run

\* What the hooks around a send are called on.
LEMMA SendCalls ==
    ASSUME NEW r \in Requests, Shape(r) \in Shapes[r],
           NEW hook \in {"before_send_events", "after_send_events"}
    PROVE  LET called == Called(OfSend(r), hook, Shape(r).raises, SyncHooks(r))
           IN  /\ called.calls \in Seq(Hooks \X Middlewares)
               /\ \A i \in DOMAIN called.calls : called.calls[i][1] = hook
               /\ Once(called.calls)
<1>1. OfClient \in Seq(Middlewares) /\ OfRequest(r) \in Seq(Middlewares)
      /\ IsInjective(OfRequest(r)) /\ Len(OfRequest(r)) >= Len(OfClient)
      /\ \A i \in 1 .. Len(OfClient) : OfRequest(r)[i] = OfClient[i]
    BY ManagersTyped
<1> DEFINE mgr == OfRequest(r)
<1>2. IsInjective(OfClient)
  <2> HIDE DEF mgr
  <2>1. DOMAIN OfClient = 1 .. Len(OfClient) /\ DOMAIN mgr = 1 .. Len(mgr)
        /\ Len(OfClient) \in Nat /\ Len(mgr) \in Nat
      BY <1>1 DEF mgr
  <2>2. \A i, j \in 1 .. Len(OfClient) : OfClient[i] = OfClient[j] => i = j
      BY <1>1, <2>1 DEF IsInjective, mgr
  <2> QED BY <2>1, <2>2 DEF IsInjective
<1>3. OfSend(r) \in Seq(Middlewares) /\ IsInjective(OfSend(r))
    BY <1>1, <1>2 DEF OfSend
<1>4. hook \in Hooks
    BY DEF Hooks, BeforeHooks, AfterHooks
<1> DEFINE all == OfSend(r)
           raises == Shape(r).raises
           sync == SyncHooks(r)
<1> HIDE DEF all, raises, sync, Middlewares
<1>5. all \in Seq(Middlewares) /\ IsInjective(all)
    BY <1>3 DEF all
<1>6. LET called == Called(all, hook, raises, sync)
      IN  /\ called.calls \in Seq(Hooks \X Middlewares)
          /\ \A i \in DOMAIN called.calls : called.calls[i][1] = hook
          /\ Once(called.calls)
  <2>1. RightCalls(Called(all, hook, raises, sync), all, hook, raises, sync)
      BY <1>4, <1>5, CallsOnce
  <2> QED BY <2>1 DEF RightCalls
<1> QED BY <1>6 DEF all, raises, sync

\* What a step of a replay leaves of a request.
LEMMA BeginsFields ==
    ASSUME Types, NEW r \in Requests, Progress(r), Begins(r)
    PROVE  LET input  == Hook(r, "transform_input")
               before == IF input.error \/ Shape(r).memos THEN NoCalls
                         ELSE Hook(r, "before_execution")
           IN  /\ Shape(r) \in Shapes[r] /\ req[r].pc = "called" /\ ~req[r].begun
               /\ log[r] = << >> /\ send' = send
               /\ log'[r] = input.calls \o before.calls
               /\ req'[r].shape = req[r].shape
               /\ req'[r].begun = (~input.error /\ ~Shape(r).memos)
               /\ input.error \/ before.error =>
                        req'[r].pc = "ended" /\ req'[r].result = "error"
               /\ ~(input.error \/ before.error) =>
                        req'[r].pc \in {"reporting", "executing"}
<1>1. /\ Shape(r) \in Shapes[r] /\ req[r].pc = "called" /\ ~req[r].begun
      /\ log[r] = << >>
    BY DEF Begins, Progress, Shape
<1> DEFINE input  == Hook(r, "transform_input")
           before == IF input.error \/ Shape(r).memos THEN NoCalls
                     ELSE Hook(r, "before_execution")
           begun == ~input.error /\ ~Shape(r).memos
           pc == IF input.error \/ before.error THEN "ended"
                 ELSE IF Shape(r).memos \/ MeetsNewStep(r) THEN "reporting"
                 ELSE "executing"
           result == IF input.error \/ before.error THEN "error" ELSE req[r].result
<1>2. BeforeExecution(r) = Hook(r, "before_execution")
    BY <1>1 DEF BeforeExecution
<1>3. /\ req'[r] = [req[r] EXCEPT !.begun = begun, !.result = result, !.pc = pc]
      /\ log'[r] = log[r] \o (input.calls \o before.calls) /\ send' = send
    BY <1>1, <1>2, BeginsTyped
<1>4. input.calls \o before.calls \in Seq(Hooks \X Middlewares)
  <2>1. "transform_input" \in Hooks /\ "before_execution" \in Hooks
        /\ << >> \in Seq(Hooks \X Middlewares)
      BY DEF Hooks, BeforeHooks
  <2>2. input.calls \in Seq(Hooks \X Middlewares)
      BY <1>1, <2>1, HookTyped
  <2>3. Hook(r, "before_execution").calls \in Seq(Hooks \X Middlewares)
      BY <1>1, <2>1, HookTyped
  <2>4. before.calls \in Seq(Hooks \X Middlewares)
    <3> HIDE DEF input
    <3> QED BY <2>1, <2>3 DEF NoCalls
  <2> HIDE DEF input, before
  <2> DEFINE S == Hooks \X Middlewares
  <2> HIDE DEF S
  <2>5. \A s, t \in Seq(S) : s \o t \in Seq(S)
      BY ConcatProperties
  <2> QED BY <2>2, <2>4, <2>5 DEF S
<1> DEFINE calls == input.calls \o before.calls
<1>5. log'[r] = calls
  <2> HIDE DEF calls
  <2>1. calls \in Seq(Hooks \X Middlewares) /\ log'[r] = log[r] \o calls
      BY <1>3, <1>4 DEF calls
  <2> DEFINE S == Hooks \X Middlewares
  <2> HIDE DEF S
  <2>2. \A s \in Seq(S) : << >> \o s = s
      BY ConcatEmptySeq
  <2> QED BY <1>1, <2>1, <2>2 DEF S
<1>6. req[r] \in RequestStates
    BY DEF Types
<1> HIDE DEF input, before
<1>7. /\ input.error \/ before.error => pc = "ended" /\ result = "error"
      /\ ~(input.error \/ before.error) => pc \in {"reporting", "executing"}
    OBVIOUS
<1> HIDE DEF begun, pc, result
<1>8. req'[r].pc = pc /\ req'[r].begun = begun /\ req'[r].result = result
      /\ req'[r].shape = req[r].shape
    BY <1>3, <1>6 DEF RequestStates
<1> QED BY <1>1, <1>3, <1>5, <1>7, <1>8 DEF begun, input, before

LEMMA ReportsFields ==
    ASSUME Types, NEW r \in Requests, Progress(r), Begun(r), Reports(r) \/ ReportsLate(r)
    PROVE  /\ Shape(r) \in Shapes[r] /\ req[r].pc \in {"reporting", "executing"}
           /\ send' = send
           /\ req'[r].shape = req[r].shape /\ req'[r].result = req[r].result
           /\ req'[r].pc = "executing" /\ (req[r].begun => req'[r].begun)
           /\ \/ log'[r] = log[r]
              \/ /\ ~req[r].begun /\ req'[r].begun /\ Shape(r).memos
                 /\ log'[r] = log[r] \o Hook(r, "before_execution").calls
<1>1. Shape(r) \in Shapes[r] /\ req[r].pc \in {"reporting", "executing"}
    BY DEF Reports, ReportsLate, Progress, Shape
<1>2. PICK begun \in BOOLEAN : ReportsAs(r, begun) /\ send' = send
    BY <1>1, ReportsTyped
<1>3. /\ \/ req[r].pc = "reporting" /\ (begun <=> ~Shape(r).left)
         \/ req[r].pc = "executing" /\ begun /\ ~req[r].begun
      /\ log'[r] = log[r] \o ReportCalls(r, begun).calls
      /\ req'[r] = [req[r] EXCEPT !.pc = "executing", !.begun = begun]
    BY <1>2 DEF ReportsAs
<1>4. req[r] \in RequestStates /\ log[r] \in Seq(Hooks \X Middlewares)
    BY DEF Types
<1>5. /\ req'[r].shape = req[r].shape /\ req'[r].result = req[r].result
      /\ req'[r].pc = "executing" /\ req'[r].begun = begun
    BY <1>3, <1>4 DEF RequestStates
<1>6. Shape(r).left => Shape(r).memos
    BY <1>1, ShapesAssumption
<1>7. ~req[r].begun => Shape(r).memos
    BY <1>1, <1>6 DEF Begun
<1>8. req[r].begun => begun
    BY <1>1, <1>3, <1>6 DEF Begun
<1>9. ASSUME ReportCalls(r, begun).calls = << >> PROVE log'[r] = log[r]
  <2> DEFINE S == Hooks \X Middlewares
  <2> HIDE DEF S
  <2>1. \A s \in Seq(S) : s \o << >> = s
      BY ConcatEmptySeq
  <2> QED BY <1>3, <1>4, <1>9, <2>1 DEF S
<1>10. CASE ~begun \/ req[r].begun
  <2>1. ReportCalls(r, begun).calls = << >>
      BY <1>10 DEF ReportCalls, BeforeExecution, NoCalls
  <2> QED BY <1>1, <1>2, <1>5, <1>8, <1>9, <2>1
<1>11. CASE begun /\ ~req[r].begun
  <2>1. ReportCalls(r, begun) = Hook(r, "before_execution")
      BY <1>11 DEF ReportCalls, BeforeExecution
  <2> QED BY <1>1, <1>2, <1>3, <1>5, <1>7, <1>8, <1>11, <2>1
<1> QED BY <1>10, <1>11

LEMMA HandlerEndsFields ==
    ASSUME Types, NEW r \in Requests, Progress(r), HandlerEnds(r)
    PROVE  LET after == Hook(r, "after_execution")
           IN  /\ Shape(r) \in Shapes[r] /\ req[r].pc = "executing" /\ send' = send
               /\ req'[r].shape = req[r].shape /\ req'[r].begun = req[r].begun
               /\ req'[r].pc = "ended"
               /\ \/ log'[r] = log[r] /\ req'[r].result = Outcome(r)
                  \/ /\ log'[r] = log[r] \o after.calls
                     /\ after.error => req'[r].result = "error"
                     /\ ~after.error => req'[r].result = Outcome(r)
<1>1. Shape(r) \in Shapes[r] /\ req[r].pc = "executing"
    BY DEF HandlerEnds, Progress, Shape
<1>2. req[r] \in RequestStates
    BY DEF Types
<1> DEFINE after == Hook(r, "after_execution")
           result == IF after.error THEN "error" ELSE Outcome(r)
<1>3. /\ send' = send
      /\ \/ /\ log' = log
            /\ req'[r] = [req[r] EXCEPT !.pc = "ended", !.result = Outcome(r)]
         \/ /\ log'[r] = log[r] \o after.calls
            /\ req'[r] = [req[r] EXCEPT !.pc = "ended", !.result = result]
    BY <1>1, HandlerEndsTyped
<1> HIDE DEF after
<1>4. (after.error => result = "error") /\ (~after.error => result = Outcome(r))
    OBVIOUS
<1> HIDE DEF result
<1>5. CASE /\ log' = log
           /\ req'[r] = [req[r] EXCEPT !.pc = "ended", !.result = Outcome(r)]
    BY <1>1, <1>2, <1>3, <1>5 DEF RequestStates
<1>6. CASE /\ log'[r] = log[r] \o after.calls
           /\ req'[r] = [req[r] EXCEPT !.pc = "ended", !.result = result]
  <2>1. /\ req'[r].pc = "ended" /\ req'[r].result = result
        /\ req'[r].shape = req[r].shape /\ req'[r].begun = req[r].begun
      BY <1>2, <1>6 DEF RequestStates
  <2> QED BY <1>1, <1>3, <1>4, <1>6, <2>1 DEF after
<1> QED BY <1>3, <1>5, <1>6

LEMMA RepliesFields ==
    ASSUME Types, NEW r \in Requests, Progress(r), Replies(r)
    PROVE  LET output   == Transformed(r)
               response == Hook(r, "before_response")
               last     == IF output.error THEN << >> ELSE response.calls
               result   == req'[r].result
           IN  /\ Shape(r) \in Shapes[r] /\ req[r].pc = "ended" /\ send' = send
               /\ req'[r].shape = req[r].shape /\ req'[r].begun = req[r].begun
               /\ req'[r].pc = "answered"
               /\ log'[r] = log[r] \o (output.calls \o last)
               /\ output.error \/ response.error => result = "error"
               /\ ~(output.error \/ response.error) => result = req[r].result
               /\ req'[r].stream # "gone" =>
                    /\ req'[r].answer.body = IF result = "unserializable" THEN "error"
                                             ELSE result
                    /\ req'[r].answer.status = IF result \in Interrupts THEN 206
                                    ELSE IF result = "output" THEN 200 ELSE 500
                    /\ req'[r].answer.noRetry = (result \in {"non-retriable", "failed step"})
                    /\ req'[r].answer.retryAfter = (result = "retry after")
<1>1. Shape(r) \in Shapes[r] /\ req[r].pc = "ended" /\ req[r].result # "none"
      /\ req[r].stream # "done"
    BY DEF Replies, Progress, Shape
<1>2. req[r] \in RequestStates
    BY DEF Types
<1> DEFINE output   == Transformed(r)
           response == Hook(r, "before_response")
           last     == IF output.error THEN << >> ELSE response.calls
           result   == IF output.error \/ response.error THEN "error" ELSE req[r].result
           stream   == IF req[r].stream = "open" THEN "done" ELSE req[r].stream
           answer   == Delivered(r, FromCallResult(r, result))
<1>3. /\ log'[r] = log[r] \o (output.calls \o last)
      /\ req'[r] = [req[r] EXCEPT !.pc = "answered", !.thread = Nobody,
                        !.result = result, !.stream = stream, !.answer = answer]
      /\ send' = send /\ result \in Endings
    BY <1>1, RepliesTyped
<1> HIDE DEF output, response
<1>4. /\ output.error \/ response.error => result = "error"
      /\ ~(output.error \/ response.error) => result = req[r].result
    OBVIOUS
<1>5. req[r].stream \in {"no", "open", "gone"} /\ (stream # "gone" => req[r].stream # "gone")
    BY <1>1, <1>2 DEF RequestStates
<1> HIDE DEF result, stream, last
<1>6. ASSUME stream # "gone"
      PROVE  /\ answer.body = IF result = "unserializable" THEN "error" ELSE result
             /\ answer.status = IF result \in Interrupts THEN 206
                                ELSE IF result = "output" THEN 200 ELSE 500
    BY <1>3, <1>5, <1>6, DeliveredTyped
<1>7. ASSUME stream # "gone"
      PROVE  /\ answer.noRetry = (result \in {"non-retriable", "failed step"})
             /\ answer.retryAfter = (result = "retry after")
  <2>1. req[r].stream \in {"no", "open"}
      BY <1>5, <1>7
  <2> QED BY <1>3, <2>1, DeliveredRetries
<1> HIDE DEF answer
<1>8. /\ req'[r].pc = "answered" /\ req'[r].result = result
      /\ req'[r].stream = stream /\ req'[r].answer = answer
      /\ req'[r].shape = req[r].shape /\ req'[r].begun = req[r].begun
    BY <1>2, <1>3 DEF RequestStates
<1> QED BY <1>1, <1>3, <1>4, <1>6, <1>7, <1>8 DEF output, response, last

LEMMA HistoryKept ==
    ASSUME Types, NEW r \in Requests, Progress(r), Begun(r), History(r), Step(r)
    PROVE  History(r)'
<1>1. {"transform_input", "before_execution", "before_send_events", "after_send_events",
       "after_execution", "transform_output", "before_response"} \subseteq Hooks
    BY DEF Hooks, BeforeHooks, AfterHooks
<1>2. Once(<< >>) /\ << >> \in Seq(Hooks \X Middlewares)
    BY DEF Once
<1>3. CASE Fresh(r)
    BY <1>3 DEF Fresh, History, Once
<1>4. ASSUME log'[r] = log[r], \A h \in Hooks : Reached(r, h) => Reached(r, h)'
      PROVE  History(r)'
  <2> DEFINE S == Hooks \X Middlewares
  <2>1. log[r] \in Seq(S)
      BY DEF Types
  <2>2. \A i \in DOMAIN log[r] : log[r][i] \in S
      BY <2>1
  <2>3. \A i \in DOMAIN log[r] : log[r][i][1] \in Hooks
      BY <2>2
  <2> QED BY <1>4, <2>3 DEF History, Reached
<1>5. CASE Still(r)
  <2>1. \A h \in Hooks : Reached(r, h) => Reached(r, h)'
      BY <1>5 DEF Still, Reached, SendEnded, Answered
  <2> QED BY <1>4, <1>5, <2>1 DEF Still
<1>6. CASE Begins(r)
  <2> DEFINE input  == Hook(r, "transform_input")
             before == IF input.error \/ Shape(r).memos THEN NoCalls
                       ELSE Hook(r, "before_execution")
             calls == input.calls \o before.calls
             hooks == IF before.calls = << >> THEN {"transform_input"}
                      ELSE {"transform_input", "before_execution"}
  <2>1. /\ Shape(r) \in Shapes[r] /\ req[r].pc = "called" /\ ~req[r].begun
        /\ log[r] = << >> /\ send' = send /\ log'[r] = calls
        /\ req'[r].begun = (~input.error /\ ~Shape(r).memos)
        /\ req'[r].pc \in {"ended", "reporting", "executing"}
      BY <1>6, BeginsFields
  <2>2. /\ input.calls \in Seq(Hooks \X Middlewares) /\ Once(input.calls)
        /\ \A i \in DOMAIN input.calls : input.calls[i][1] = "transform_input"
      BY <1>1, <2>1, HookCalls
  <2>3. /\ Hook(r, "before_execution").calls \in Seq(Hooks \X Middlewares)
        /\ Once(Hook(r, "before_execution").calls)
        /\ \A i \in DOMAIN Hook(r, "before_execution").calls :
                Hook(r, "before_execution").calls[i][1] = "before_execution"
      BY <1>1, <2>1, HookCalls
  <2>4. /\ before = NoCalls \/ (before = Hook(r, "before_execution") /\ req'[r].begun)
        /\ NoCalls.calls = << >> /\ DOMAIN NoCalls.calls = {}
    <3>1. NoCalls.calls = << >> /\ DOMAIN NoCalls.calls = {}
        BY DEF NoCalls
    <3> HIDE DEF input
    <3>2. CASE input.error \/ Shape(r).memos
        BY <3>1, <3>2
    <3>3. CASE ~(input.error \/ Shape(r).memos)
        BY <2>1, <3>1, <3>3
    <3> QED BY <3>2, <3>3
  <2> HIDE DEF before
  <2>5. /\ before.calls \in Seq(Hooks \X Middlewares) /\ Once(before.calls)
        /\ \A i \in DOMAIN before.calls : before.calls[i][1] = "before_execution"
      BY <1>2, <2>3, <2>4
  <2> DEFINE S == Hooks \X Middlewares
  <2> HIDE DEF input, S
  <2>6. /\ calls \in Seq(S) /\ Once(calls)
        /\ \A i \in DOMAIN calls : \/ calls[i][1] = "transform_input"
                                   \/ calls[i][1] = "before_execution" /\ before.calls # << >>
    <3>1. input.calls \in Seq(S) /\ before.calls \in Seq(S)
        BY <2>2, <2>5 DEF S
    <3>2. \A i \in DOMAIN input.calls, j \in DOMAIN before.calls :
                input.calls[i][1] # before.calls[j][1]
        BY <2>2, <2>5
    <3>3. /\ calls \in Seq(S) /\ Once(calls)
          /\ \A i \in DOMAIN calls : \/ \E j \in DOMAIN input.calls : calls[i] = input.calls[j]
                                    \/ \E j \in DOMAIN before.calls : calls[i] = before.calls[j]
      <4> DEFINE one == input.calls
                 two == before.calls
      <4>1. /\ one \in Seq(S) /\ two \in Seq(S) /\ Once(one) /\ Once(two)
            /\ \A i \in DOMAIN one, j \in DOMAIN two : one[i][1] # two[j][1]
          BY <2>2, <2>5, <3>1, <3>2
      <4> HIDE DEF one, two
      <4>2. /\ one \o two \in Seq(S) /\ Once(one \o two)
            /\ \A i \in DOMAIN (one \o two) :
                    \/ \E j \in DOMAIN one : (one \o two)[i] = one[j]
                    \/ \E j \in DOMAIN two : (one \o two)[i] = two[j]
          BY <4>1, TwoHooks
      <4> QED BY <4>2 DEF one, two
    <3>4. \A j \in DOMAIN before.calls : before.calls # << >>
        OBVIOUS
    <3> HIDE DEF calls
    <3> QED BY <2>2, <2>5, <3>3, <3>4
  <2>7. before.calls # << >> => req'[r].begun
      BY <2>4
  <2>8. \A h \in hooks : ~Reached(r, h) /\ Reached(r, h)'
      BY <2>1, <2>7 DEF Reached
  <2>9. /\ \A i \in DOMAIN calls : calls[i][1] \in hooks
        /\ \A h \in hooks : Reached(r, h)'
      BY <2>6, <2>8
  <2>10. hooks \subseteq Hooks
      BY <1>1
  <2> HIDE DEF calls, hooks
  <2>11. ASSUME NEW i \in DOMAIN log'[r]
         PROVE  \A h : h = log'[r][i][1] => Reached(r, h)'
      BY <2>1, <2>9
  <2> QED BY <2>1, <2>6, <2>11 DEF History, Reached
<1>7. CASE Reports(r) \/ ReportsLate(r)
  <2>1. /\ Shape(r) \in Shapes[r] /\ req[r].pc \in {"reporting", "executing"}
        /\ send' = send /\ req'[r].pc = "executing" /\ (req[r].begun => req'[r].begun)
        /\ \/ log'[r] = log[r]
           \/ /\ ~req[r].begun /\ req'[r].begun
              /\ log'[r] = log[r] \o Hook(r, "before_execution").calls
      BY <1>7, ReportsFields
  <2>2. \A h \in Hooks : Reached(r, h) => Reached(r, h)'
      BY <2>1 DEF Reached, SendEnded, Answered
  <2>3. CASE log'[r] = log[r]
      BY <1>4, <2>2, <2>3
  <2>4. CASE /\ ~req[r].begun /\ req'[r].begun
             /\ log'[r] = log[r] \o Hook(r, "before_execution").calls
    <3> DEFINE calls == Hook(r, "before_execution").calls
               hooks == {"before_execution"}
    <3>1. /\ calls \in Seq(Hooks \X Middlewares) /\ Once(calls)
          /\ \A i \in DOMAIN calls : calls[i][1] = "before_execution"
        BY <1>1, <2>1, HookCalls
    <3>2. /\ \A i \in DOMAIN calls : calls[i][1] \in hooks
          /\ \A h \in hooks : ~Reached(r, h) /\ Reached(r, h)'
        BY <2>1, <2>4, <3>1 DEF Reached
    <3>3. hooks \in SUBSET Hooks /\ log'[r] = log[r] \o calls
        BY <1>1, <2>4
    <3> HIDE DEF calls, hooks
    <3> QED BY <2>2, <3>1, <3>2, <3>3, HistoryGrows
  <2> QED BY <2>1, <2>3, <2>4
<1>8. CASE Sends(r)
  <2> DEFINE before == Called(OfSend(r), "before_send_events",
                              Shape(r).raises, SyncHooks(r))
             after  == Called(OfSend(r), "after_send_events",
                              Shape(r).raises, SyncHooks(r))
             both == before.calls \o after.calls
             S == Hooks \X Middlewares
  <2>1. Shape(r) \in Shapes[r] /\ send[r] \in SendStates
      BY <1>8 DEF Sends, Progress, Shape, Types
  <2>2. /\ req' = req /\ send[r].pc = "unsent"
        /\ \/ /\ send'[r] = [send[r] EXCEPT !.pc = "raised"]
              /\ log'[r] = log[r] \o before.calls \/ log'[r] = log[r] \o both
           \/ /\ send'[r] = [send[r] EXCEPT !.pc = "trying", !.seed = 1]
              /\ log'[r] = log[r] \o before.calls
      BY <1>8, <2>1, SendsTyped
  <2>3. /\ before.calls \in Seq(S) /\ Once(before.calls)
        /\ \A i \in DOMAIN before.calls : before.calls[i][1] = "before_send_events"
      BY <2>1, SendCalls
  <2>4. /\ after.calls \in Seq(S) /\ Once(after.calls)
        /\ \A i \in DOMAIN after.calls : after.calls[i][1] = "after_send_events"
      BY <2>1, SendCalls
  <2> HIDE DEF before, after, S
  <2>5. /\ both \in Seq(S) /\ Once(both)
        /\ \A i \in DOMAIN both : both[i][1] \in {"before_send_events", "after_send_events"}
    <3>1. \A i \in DOMAIN before.calls, j \in DOMAIN after.calls :
                before.calls[i][1] # after.calls[j][1]
        BY <2>3, <2>4
    <3>2. /\ both \in Seq(S) /\ Once(both)
          /\ \A i \in DOMAIN both : \/ \E j \in DOMAIN before.calls : both[i] = before.calls[j]
                                   \/ \E j \in DOMAIN after.calls : both[i] = after.calls[j]
      <4> DEFINE one == before.calls
                 two == after.calls
      <4>1. /\ one \in Seq(S) /\ two \in Seq(S) /\ Once(one) /\ Once(two)
            /\ \A i \in DOMAIN one, j \in DOMAIN two : one[i][1] # two[j][1]
          BY <2>3, <2>4, <3>1
      <4> HIDE DEF one, two
      <4>2. /\ one \o two \in Seq(S) /\ Once(one \o two)
            /\ \A i \in DOMAIN (one \o two) :
                    \/ \E j \in DOMAIN one : (one \o two)[i] = one[j]
                    \/ \E j \in DOMAIN two : (one \o two)[i] = two[j]
          BY <4>1, TwoHooks
      <4> QED BY <4>2 DEF one, two
    <3> HIDE DEF both
    <3> QED BY <2>3, <2>4, <3>2
  <2> HIDE DEF both
  <2>6. /\ send'[r].pc # "unsent"
        /\ log'[r] = log[r] \o before.calls
            \/ (log'[r] = log[r] \o both /\ send'[r].pc = "raised")
    <3>1. CASE send'[r] = [send[r] EXCEPT !.pc = "raised"]
      <4>1. send'[r].pc = "raised"
          BY <2>1, <3>1 DEF SendStates
      <4> QED BY <2>2, <4>1
    <3>2. CASE /\ send'[r] = [send[r] EXCEPT !.pc = "trying", !.seed = 1]
               /\ log'[r] = log[r] \o before.calls
      <4>1. send'[r].pc = "trying"
          BY <2>1, <3>2 DEF SendStates
      <4> QED BY <3>2, <4>1
    <3> QED BY <2>2, <3>1, <3>2
  <2>7. \A h \in Hooks : Reached(r, h) => Reached(r, h)'
      BY <2>2, <2>6 DEF Reached, SendEnded, Answered
  <2>8. CASE log'[r] = log[r] \o before.calls
    <3> DEFINE hooks == {"before_send_events"}
               calls == before.calls
    <3>1. /\ \A i \in DOMAIN calls : calls[i][1] \in hooks
          /\ calls \in Seq(Hooks \X Middlewares)
        BY <2>3 DEF S
    <3>2. \A h \in hooks : ~Reached(r, h) /\ Reached(r, h)'
        BY <2>2, <2>6 DEF Reached
    <3>3. hooks \in SUBSET Hooks /\ log'[r] = log[r] \o calls /\ Once(calls)
        BY <1>1, <2>3, <2>8
    <3> HIDE DEF hooks, calls
    <3> QED BY <2>7, <3>1, <3>2, <3>3, HistoryGrows
  <2>9. CASE log'[r] = log[r] \o both /\ send'[r].pc = "raised"
    <3> DEFINE hooks == {"before_send_events", "after_send_events"}
    <3>1. /\ \A i \in DOMAIN both : both[i][1] \in hooks
          /\ both \in Seq(Hooks \X Middlewares)
        BY <2>5 DEF S
    <3>2. \A h \in hooks : ~Reached(r, h) /\ Reached(r, h)'
        BY <2>2, <2>9 DEF Reached, SendEnded
    <3>3. hooks \in SUBSET Hooks
        BY <1>1
    <3> HIDE DEF hooks
    <3> QED BY <2>5, <2>7, <2>9, <3>1, <3>2, <3>3, HistoryGrows
  <2> QED BY <2>6, <2>8, <2>9
<1>9. CASE Sent(r)
  <2> DEFINE calls == Called(OfSend(r), "after_send_events",
                             Shape(r).raises, SyncHooks(r)).calls
             hooks == {"after_send_events"}
  <2>1. /\ Shape(r) \in Shapes[r] /\ send[r] \in SendStates
    <3>1. req[r].pc = "executing"
        BY <1>9 DEF Sent, FinishSend, Progress
    <3> QED BY <3>1 DEF Progress, Shape, Types
  <2>2. /\ req' = req /\ send[r].pc = "tried"
        /\ \E pc \in {"returned", "raised"} : send'[r] = [send[r] EXCEPT !.pc = pc]
        /\ log' = log \/ log'[r] = log[r] \o calls
      BY <1>9, <2>1, SentTyped
  <2>3. send'[r].pc \in {"returned", "raised"}
      BY <2>1, <2>2 DEF SendStates
  <2>4. /\ calls \in Seq(Hooks \X Middlewares) /\ Once(calls)
        /\ \A i \in DOMAIN calls : calls[i][1] = "after_send_events"
      BY <2>1, SendCalls
  <2> HIDE DEF calls
  <2>5. \A h \in Hooks : Reached(r, h) => Reached(r, h)'
      BY <2>2, <2>3 DEF Reached, SendEnded, Answered
  <2>6. /\ \A i \in DOMAIN calls : calls[i][1] \in hooks
        /\ \A h \in hooks : ~Reached(r, h) /\ Reached(r, h)'
      BY <2>2, <2>3, <2>4 DEF Reached, SendEnded
  <2>7. hooks \in SUBSET Hooks
      BY <1>1
  <2> HIDE DEF hooks
  <2>8. CASE log'[r] = log[r] \o calls
      BY <2>4, <2>5, <2>6, <2>7, <2>8, HistoryGrows
  <2>9. CASE log' = log
      BY <1>4, <2>5, <2>9
  <2> QED BY <2>2, <2>8, <2>9
<1>10. CASE HandlerEnds(r)
  <2> DEFINE calls == Hook(r, "after_execution").calls
             hooks == {"after_execution"}
  <2>1. /\ Shape(r) \in Shapes[r] /\ req[r].pc = "executing" /\ send' = send
        /\ req'[r].begun = req[r].begun /\ req'[r].pc = "ended"
        /\ log'[r] = log[r] \/ log'[r] = log[r] \o calls
      BY <1>10, HandlerEndsFields
  <2>2. /\ calls \in Seq(Hooks \X Middlewares) /\ Once(calls)
        /\ \A i \in DOMAIN calls : calls[i][1] = "after_execution"
      BY <1>1, <2>1, HookCalls
  <2> HIDE DEF calls
  <2>3. \A h \in Hooks : Reached(r, h) => Reached(r, h)'
      BY <2>1 DEF Reached, SendEnded, Answered
  <2>4. /\ \A i \in DOMAIN calls : calls[i][1] \in hooks
        /\ \A h \in hooks : ~Reached(r, h) /\ Reached(r, h)'
      BY <2>1, <2>2 DEF Reached
  <2>5. hooks \in SUBSET Hooks
      BY <1>1
  <2> HIDE DEF hooks
  <2>6. CASE log'[r] = log[r] \o calls
      BY <2>2, <2>3, <2>4, <2>5, <2>6, HistoryGrows
  <2>7. CASE log'[r] = log[r]
      BY <1>4, <2>3, <2>7
  <2> QED BY <2>1, <2>6, <2>7
<1>11. CASE Replies(r)
  <2> DEFINE output   == Transformed(r)
             response == Hook(r, "before_response")
             last     == IF output.error THEN << >> ELSE response.calls
             calls    == output.calls \o last
             hooks    == {"transform_output", "before_response"}
             S        == Hooks \X Middlewares
  <2>1. /\ Shape(r) \in Shapes[r] /\ req[r].pc = "ended" /\ send' = send
        /\ req'[r].begun = req[r].begun /\ req'[r].pc = "answered"
        /\ log'[r] = log[r] \o calls
      BY <1>11, RepliesFields
  <2>2. /\ Hook(r, "transform_output").calls \in Seq(S)
        /\ Once(Hook(r, "transform_output").calls)
        /\ \A i \in DOMAIN Hook(r, "transform_output").calls :
                Hook(r, "transform_output").calls[i][1] = "transform_output"
      BY <1>1, <2>1, HookCalls
  <2>3. /\ response.calls \in Seq(S) /\ Once(response.calls)
        /\ \A i \in DOMAIN response.calls : response.calls[i][1] = "before_response"
      BY <1>1, <2>1, HookCalls
  <2>4. NoCalls.calls = << >> /\ DOMAIN NoCalls.calls = {}
        /\ DOMAIN << >> = {} /\ << >> \in Seq(S)
      BY DEF NoCalls
  <2>5. output = NoCalls \/ output = Hook(r, "transform_output")
      BY DEF Transformed
  <2> HIDE DEF output, response, S
  <2>6. /\ output.calls \in Seq(S) /\ Once(output.calls)
        /\ \A i \in DOMAIN output.calls : output.calls[i][1] = "transform_output"
      BY <1>2, <2>2, <2>4, <2>5
  <2>7. /\ last \in Seq(S) /\ Once(last)
        /\ \A i \in DOMAIN last : last[i][1] = "before_response"
      BY <1>2, <2>3, <2>4
  <2> HIDE DEF last
  <2>8. calls \in Seq(S) /\ Once(calls) /\ \A i \in DOMAIN calls : calls[i][1] \in hooks
    <3>1. \A i \in DOMAIN output.calls, j \in DOMAIN last : output.calls[i][1] # last[j][1]
        BY <2>6, <2>7
    <3>2. /\ calls \in Seq(S) /\ Once(calls)
          /\ \A i \in DOMAIN calls : \/ \E j \in DOMAIN output.calls : calls[i] = output.calls[j]
                                    \/ \E j \in DOMAIN last : calls[i] = last[j]
        BY <2>6, <2>7, <3>1, TwoHooks
    <3> HIDE DEF calls
    <3> QED BY <2>6, <2>7, <3>2
  <2> HIDE DEF calls
  <2>9. \A h \in Hooks : Reached(r, h) => Reached(r, h)'
      BY <2>1 DEF Reached, SendEnded, Answered
  <2>10. \A h \in hooks : ~Reached(r, h) /\ Reached(r, h)'
      BY <2>1 DEF Reached, Answered
  <2>11. hooks \in SUBSET Hooks /\ calls \in Seq(Hooks \X Middlewares)
      BY <1>1, <2>8 DEF S
  <2> HIDE DEF hooks
  <2> QED BY <2>1, <2>8, <2>9, <2>10, <2>11, HistoryGrows
<1> QED BY <1>3, <1>5, <1>6, <1>7, <1>8, <1>9, <1>10, <1>11, HistoryMoves

LEMMA HistoryElsewhere ==
    ASSUME NEW q \in Requests, req'[q] = req[q], send'[q] = send[q], log'[q] = log[q],
           History(q)
    PROVE  History(q)'
    BY DEF History, Reached, SendEnded, Answered

THEOREM HistoryAlways == Spec => [](\A r \in Requests : History(r))
<1>1. Init => \A r \in Requests : History(r)
  <2> SUFFICES ASSUME Init, NEW r \in Requests PROVE History(r)
      OBVIOUS
  <2>1. log[r] = << >>
      BY ServeAssumption DEF Init, SendInit
  <2> QED BY <2>1 DEF History, Once
<1>2. ASSUME Handled, \A r \in Requests : Begun(r), \A r \in Requests : History(r),
             [Next]_vars
      PROVE  (\A r \in Requests : History(r))'
  <2>1. CASE UNCHANGED vars
      BY <1>2, <2>1, HistoryElsewhere DEF vars
  <2>2. ASSUME NEW r \in Requests, Step(r), Others(r)
        PROVE  (\A q \in Requests : History(q))'
    <3>1. Types /\ Progress(r)
        BY <1>2 DEF Handled
    <3>2. History(r)'
        BY <1>2, <2>2, <3>1, HistoryKept
    <3> QED BY <1>2, <2>2, <3>2, HistoryElsewhere DEF Others
  <2> QED BY <1>2, <2>1, <2>2, HandledKept
<1> QED BY <1>1, <1>2, HandledAlways, BegunAlways, PTL DEF Spec

-----------------------------------------------------------------------------
(* The hooks that fail.                                                     *)

\* Whether an error of the hook that raises ends the call.
Counts(r) ==
    /\ Shape(r).raises[1] \notin {"before_send_events", "after_send_events"}
    /\ ~(Shape(r).raises[1] = "before_execution" /\ Shape(r).memos)

LEMMA FailedThen ==
    ASSUME NEW r \in Requests, req'[r].shape = req[r].shape
    PROVE  HookFailed(r)' <=>
                ~Matched(r) \/ (Shape(r).raises \in Range(log'[r]) /\ Counts(r))
<1>1. Shape(r)' = Shape(r)
    BY DEF Shape
<1>2. OfRequest(r)' = OfRequest(r) /\ SyncHooks(r)' = SyncHooks(r)
    BY <1>1 DEF OfRequest, SyncHooks
<1> QED BY <1>1, <1>2 DEF HookFailed, Counts, Matched

LEMMA FailedSame ==
    ASSUME NEW r \in Requests, log'[r] = log[r], req'[r].shape = req[r].shape
    PROVE  HookFailed(r)' <=> HookFailed(r)
    BY DEF HookFailed, OfRequest, SyncHooks, Shape, Range

LEMMA FailedGrows ==
    ASSUME Types, NEW r \in Requests, NEW calls \in Seq(Hooks \X Middlewares),
           log'[r] = log[r] \o calls, req'[r].shape = req[r].shape
    PROVE  HookFailed(r)' <=>
                HookFailed(r) \/ (Shape(r).raises \in Range(calls) /\ Counts(r))
<1> DEFINE S == Hooks \X Middlewares
           raises == Shape(r).raises
<1>1. log[r] \in Seq(S) /\ calls \in Seq(S)
    BY DEF Types
<1> HIDE DEF S
<1>2. \A x : x \in Range(log[r] \o calls) <=> x \in Range(log[r]) \/ x \in Range(calls)
    BY <1>1, Appended
<1>3. raises \in Range(log'[r]) <=> raises \in Range(log[r]) \/ raises \in Range(calls)
    BY <1>2
<1>4. HookFailed(r) <=> ~Matched(r) \/ (raises \in Range(log[r]) /\ Counts(r))
    BY DEF HookFailed, Counts, Matched
<1>5. HookFailed(r)' <=> ~Matched(r) \/ (raises \in Range(log'[r]) /\ Counts(r))
    BY FailedThen DEF raises
<1> QED BY <1>3, <1>4, <1>5

LEMMA RaisesOfHook ==
    ASSUME NEW r \in Requests, NEW calls, NEW hook,
           \A i \in DOMAIN calls : calls[i][1] = hook,
           Shape(r).raises \in Range(calls)
    PROVE  Shape(r).raises[1] = hook
<1>1. PICK i \in DOMAIN calls : Shape(r).raises = calls[i]
    BY DEF Range
<1> QED BY <1>1

\* The error of transform_output or of before_response is that of the hook.
LEMMA RepliesFails ==
    ASSUME Types, NEW r \in Requests, Progress(r), Replies(r)
    PROVE  LET failed == Transformed(r).error \/ Hook(r, "before_response").error
           IN  /\ failed => HookFailed(r)'
               /\ ~failed => (HookFailed(r)' <=> HookFailed(r))
<1> DEFINE output   == Transformed(r)
           response == Hook(r, "before_response")
           last     == IF output.error THEN << >> ELSE response.calls
           calls    == output.calls \o last
           S        == Hooks \X Middlewares
           raises   == Shape(r).raises
<1>1. /\ Shape(r) \in Shapes[r] /\ req'[r].shape = req[r].shape
      /\ log'[r] = log[r] \o calls
    BY RepliesFields
<1> SUFFICES ASSUME Matched(r)
             PROVE  LET failed == output.error \/ response.error
                    IN  /\ failed => HookFailed(r)'
                        /\ ~failed => (HookFailed(r)' <=> HookFailed(r))
  <2>1. ~Matched(r) => HookFailed(r) /\ HookFailed(r)'
      BY <1>1, FailedThen DEF HookFailed, Matched
  <2> QED BY <2>1
<1>2. Matched(r)
    OBVIOUS
<1>3. "transform_output" \in Hooks /\ "before_response" \in Hooks
    BY DEF Hooks, BeforeHooks, AfterHooks
<1>4. LET hooked == Hook(r, "transform_output")
      IN  /\ hooked.calls \in Seq(S)
          /\ \A i \in DOMAIN hooked.calls : hooked.calls[i][1] = "transform_output"
          /\ hooked.error => raises \in Range(hooked.calls)
          /\ ~hooked.error => raises \notin Range(hooked.calls)
    BY <1>1, <1>2, <1>3, HookCalls
<1>5. /\ response.calls \in Seq(S)
      /\ \A i \in DOMAIN response.calls : response.calls[i][1] = "before_response"
      /\ response.error => raises \in Range(response.calls)
      /\ ~response.error => raises \notin Range(response.calls)
    BY <1>1, <1>2, <1>3, HookCalls
<1>6. /\ NoCalls.calls \in Seq(S) /\ DOMAIN NoCalls.calls = {}
      /\ ~NoCalls.error /\ << >> \in Seq(S)
    BY DEF NoCalls
<1>7. output = NoCalls \/ output = Hook(r, "transform_output")
    BY DEF Transformed
<1> HIDE DEF output, response, S, raises
<1>8. /\ output.calls \in Seq(S)
      /\ \A i \in DOMAIN output.calls : output.calls[i][1] = "transform_output"
      /\ output.error => raises \in Range(output.calls)
      /\ ~output.error => raises \notin Range(output.calls)
    BY <1>4, <1>6, <1>7 DEF Range
<1>9. /\ last \in Seq(S)
      /\ ~output.error /\ response.error => raises \in Range(last)
      /\ ~output.error /\ ~response.error => raises \notin Range(last)
      /\ \A i \in DOMAIN last : last[i][1] = "before_response"
    BY <1>5, <1>6
<1> HIDE DEF last
<1>10. /\ calls \in Seq(S)
       /\ \A x : x \in Range(calls) <=> x \in Range(output.calls) \/ x \in Range(last)
    BY <1>8, <1>9, Appended
<1> HIDE DEF calls
<1>11. HookFailed(r)' <=> HookFailed(r) \/ (raises \in Range(calls) /\ Counts(r))
    BY <1>1, <1>10, FailedGrows DEF S, raises
<1>12. /\ raises \in Range(output.calls) => Counts(r)
       /\ raises \in Range(last) => Counts(r)
  <2>1. raises \in Range(output.calls) => raises[1] = "transform_output"
      BY <1>8, RaisesOfHook DEF raises
  <2>2. raises \in Range(last) => raises[1] = "before_response"
      BY <1>9, RaisesOfHook DEF raises
  <2> QED BY <2>1, <2>2 DEF Counts, raises
<1>13. output.error \/ response.error =>
            raises \in Range(output.calls) \/ raises \in Range(last)
    BY <1>8, <1>9
<1>14. ~(output.error \/ response.error) =>
            raises \notin Range(output.calls) /\ raises \notin Range(last)
    BY <1>8, <1>9
<1>15. output.error \/ response.error => HookFailed(r)'
    BY <1>10, <1>11, <1>12, <1>13
<1>16. ~(output.error \/ response.error) => (HookFailed(r)' <=> HookFailed(r))
    BY <1>10, <1>11, <1>14
<1> QED BY <1>15, <1>16 DEF output, response

\* The replay goes on if no hook failed, and ends with the error of one that did.
LEMMA BeginsFails ==
    ASSUME Types, NEW r \in Requests, Progress(r), Begins(r)
    PROVE  /\ req'[r].pc \in {"reporting", "executing"} => ~HookFailed(r)'
           /\ req'[r].pc = "ended" => HookFailed(r)' /\ req'[r].result = "error"
           /\ req'[r].pc # "answered"
<1> DEFINE input  == Hook(r, "transform_input")
           before == IF input.error \/ Shape(r).memos THEN NoCalls
                     ELSE Hook(r, "before_execution")
           first  == input.calls
           second == before.calls
           S      == Hooks \X Middlewares
           raises == Shape(r).raises
<1>1. /\ Shape(r) \in Shapes[r] /\ req'[r].shape = req[r].shape
      /\ log'[r] = first \o second
      /\ input.error \/ before.error =>
                req'[r].pc = "ended" /\ req'[r].result = "error"
      /\ ~(input.error \/ before.error) => req'[r].pc \in {"reporting", "executing"}
    BY BeginsFields
<1>2. "transform_input" \in Hooks /\ "before_execution" \in Hooks
    BY DEF Hooks, BeforeHooks
<1>3. /\ first \in Seq(S)
      /\ \A i \in DOMAIN first : first[i][1] = "transform_input"
      /\ ~input.error => raises \notin Range(first) /\ Matched(r)
      /\ Matched(r) /\ input.error => raises \in Range(first)
    BY <1>1, <1>2, HookCalls
<1>4. LET hooked == Hook(r, "before_execution")
      IN  /\ hooked.calls \in Seq(S)
          /\ \A i \in DOMAIN hooked.calls : hooked.calls[i][1] = "before_execution"
          /\ ~hooked.error => raises \notin Range(hooked.calls)
          /\ Matched(r) /\ hooked.error => raises \in Range(hooked.calls)
    BY <1>1, <1>2, HookCalls
<1>5. raises \notin Range(<< >>) /\ NoCalls.calls = << >> /\ NoCalls.error = FALSE
    BY DEF Range, NoCalls
<1>6. /\ second \in Seq(S)
      /\ ~before.error => raises \notin Range(second)
      /\ before.error => ~input.error /\ ~Shape(r).memos
      /\ before.error /\ Matched(r) => raises \in Range(second)
      /\ \A i \in DOMAIN second : second[i][1] = "before_execution"
  <2> HIDE DEF input, S, raises
  <2>1. CASE input.error \/ Shape(r).memos
    <3>1. before = NoCalls
        BY <2>1
    <3> HIDE DEF before
    <3>2. second = << >> /\ before.error = FALSE
        BY <1>5, <3>1
    <3> HIDE DEF second
    <3>3. second \in Seq(S) /\ raises \notin Range(second) /\ DOMAIN second = {}
        BY <1>5, <3>2
    <3> QED BY <3>2, <3>3
  <2>2. CASE ~(input.error \/ Shape(r).memos)
      BY <1>4, <2>2
  <2> QED BY <2>1, <2>2
<1>7. HookFailed(r)' <=> ~Matched(r) \/ (raises \in Range(log'[r]) /\ Counts(r))
    BY <1>1, FailedThen
<1> HIDE DEF input, before, S, first, second
<1>8. raises \in Range(first \o second) <=> raises \in Range(first) \/ raises \in Range(second)
    BY <1>3, <1>6, Appended
<1>9. ~(input.error \/ before.error) => ~HookFailed(r)'
    BY <1>1, <1>3, <1>6, <1>7, <1>8
<1>10. before.error => HookFailed(r)'
  <2> SUFFICES ASSUME before.error PROVE HookFailed(r)'
      OBVIOUS
  <2>1. raises \in Range(second)
      BY <1>3, <1>6
  <2>2. Shape(r).raises[1] = "before_execution"
      BY <1>6, <2>1, RaisesOfHook
  <2>3. Counts(r)
      BY <1>6, <2>2 DEF Counts
  <2> QED BY <1>1, <1>7, <1>8, <2>1, <2>3
<1>11. input.error => HookFailed(r)'
  <2> SUFFICES ASSUME input.error, Matched(r) PROVE HookFailed(r)'
      BY <1>7
  <2>1. raises \in Range(first)
      BY <1>3
  <2>2. Shape(r).raises[1] = "transform_input"
      BY <1>3, <2>1, RaisesOfHook
  <2>3. Counts(r)
      BY <2>2 DEF Counts
  <2> QED BY <1>1, <1>7, <1>8, <2>1, <2>3
<1> HIDE DEF raises
<1> QED BY <1>1, <1>9, <1>10, <1>11

-----------------------------------------------------------------------------
(* The order of the transforms.                                             *)

\* What a request has called stays called.
LEMMA InputKept ==
    ASSUME Types, NEW r \in Requests, InputCalled(r), req'[r].shape = req[r].shape,
           \/ log'[r] = log[r]
           \/ \E calls \in Seq(Hooks \X Middlewares) : log'[r] = log[r] \o calls
    PROVE  InputCalled(r)'
<1> DEFINE mgr == OfRequest(r)
           S   == Hooks \X Middlewares
<1>1. OfRequest(r)' = mgr
    BY DEF OfRequest, Shape
<1>2. log[r] \in Seq(S)
    BY DEF Types
<1>3. Len(mgr) <= Len(log[r])
      /\ \A i \in 1 .. Len(mgr) : log[r][i] = <<"transform_input", mgr[i]>>
    BY DEF InputCalled
<1> HIDE DEF mgr
<1>4. CASE log'[r] = log[r]
    BY <1>1, <1>3, <1>4 DEF InputCalled
<1>5. ASSUME NEW calls \in Seq(S), log'[r] = log[r] \o calls
      PROVE  InputCalled(r)'
  <2> HIDE DEF S
  <2>1. /\ Len(log[r] \o calls) = Len(log[r]) + Len(calls)
        /\ Len(log[r]) \in Nat /\ Len(calls) \in Nat
        /\ \A i \in 1 .. Len(log[r]) : (log[r] \o calls)[i] = log[r][i]
      BY <1>2, Appended
  <2>2. Len(mgr) <= Len(log'[r])
        /\ \A i \in 1 .. Len(log[r]) : log'[r][i] = log[r][i]
    <3>1. Len(mgr) \in Nat \/ Len(mgr) \notin Nat
        OBVIOUS
    <3> QED BY <1>3, <1>5, <2>1
  <2>3. \A i \in 1 .. Len(mgr) : i \in 1 .. Len(log[r])
      BY <1>3, <2>1
  <2> QED BY <1>1, <1>3, <2>2, <2>3 DEF InputCalled
<1> QED BY <1>4, <1>5

LEMMA BeginsTransforms ==
    ASSUME Types, NEW r \in Requests, Progress(r), Begins(r)
    PROVE  req'[r].pc \in {"reporting", "executing"} => InputCalled(r)'
<1> DEFINE input  == Hook(r, "transform_input")
           before == IF input.error \/ Shape(r).memos THEN NoCalls
                     ELSE Hook(r, "before_execution")
           mgr    == OfRequest(r)
           S      == Hooks \X Middlewares
<1>1. /\ Shape(r) \in Shapes[r] /\ req'[r].shape = req[r].shape
      /\ log'[r] = input.calls \o before.calls
      /\ input.error => req'[r].pc = "ended"
    BY BeginsFields
<1>2. "transform_input" \in Hooks /\ "before_execution" \in Hooks
      /\ "transform_input" \in BeforeHooks
    BY DEF Hooks, BeforeHooks
<1>3. input.calls \in Seq(S)
      /\ (~input.error => /\ Len(input.calls) = Len(mgr)
                          /\ \A i \in 1 .. Len(mgr) :
                                input.calls[i] = <<"transform_input", mgr[i]>>)
    BY <1>1, <1>2, HookCalls
<1>4. Hook(r, "before_execution").calls \in Seq(S) /\ NoCalls.calls \in Seq(S)
    BY <1>1, <1>2, HookTyped DEF NoCalls
<1>5. OfRequest(r)' = mgr
    BY <1>1 DEF OfRequest, Shape
<1> HIDE DEF input, mgr, S
<1>6. before.calls \in Seq(S)
    BY <1>4
<1> HIDE DEF before
<1> DEFINE first == input.calls
           second == before.calls
<1>7. first \in Seq(S) /\ second \in Seq(S) /\ log'[r] = first \o second
    BY <1>1, <1>3, <1>6
<1> HIDE DEF first, second
<1>8. /\ Len(first \o second) = Len(first) + Len(second)
      /\ Len(first) \in Nat /\ Len(second) \in Nat
      /\ \A i \in 1 .. Len(first) : (first \o second)[i] = first[i]
    BY <1>7, Appended
<1>9. ASSUME ~input.error PROVE InputCalled(r)'
  <2>1. /\ Len(first) = Len(mgr)
        /\ \A i \in 1 .. Len(mgr) : first[i] = <<"transform_input", mgr[i]>>
      BY <1>3, <1>9 DEF first
  <2>2. Len(log'[r]) >= Len(mgr) /\ \A i \in 1 .. Len(mgr) : log'[r][i] = first[i]
      BY <1>7, <1>8, <2>1
  <2> QED BY <1>5, <2>1, <2>2 DEF InputCalled
<1> QED BY <1>1, <1>9

LEMMA RepliesTransforms ==
    ASSUME Types, NEW r \in Requests, Progress(r), Replies(r),
           ~HookFailed(r)', req'[r].result # "plan"
    PROVE  OutputCalled(r)'
<1> DEFINE output   == Transformed(r)
           response == Hook(r, "before_response")
           last     == IF output.error THEN << >> ELSE response.calls
           mgr      == OfRequest(r)
           S        == Hooks \X Middlewares
<1>1. /\ Shape(r) \in Shapes[r] /\ req'[r].shape = req[r].shape
      /\ log'[r] = log[r] \o (output.calls \o last)
      /\ ~(output.error \/ response.error) => req'[r].result = req[r].result
    BY RepliesFields
<1>2. ~output.error /\ ~response.error
    BY RepliesFails
<1>3. output = Hook(r, "transform_output")
    BY <1>1, <1>2 DEF Transformed
<1>4. "transform_output" \in Hooks /\ "transform_output" \in AfterHooks
      /\ "before_response" \in Hooks
    BY DEF Hooks, BeforeHooks, AfterHooks
<1>5. LET hooked == Hook(r, "transform_output")
      IN  /\ hooked.calls \in Seq(S)
          /\ ~hooked.error => /\ Len(hooked.calls) = Len(mgr)
                              /\ \A i \in 1 .. Len(mgr) : hooked.calls[i] =
                                    <<"transform_output", mgr[Len(mgr) - i + 1]>>
    BY <1>1, <1>4, HookCalls
<1>6. response.calls \in Seq(S)
    BY <1>1, <1>4, HookTyped
<1>7. OfRequest(r)' = mgr /\ log[r] \in Seq(S)
    BY <1>1 DEF OfRequest, Shape, Types
<1> DEFINE first == output.calls
           second == response.calls
           before == log[r]
<1> HIDE DEF output, response, mgr, S
<1>8. /\ first \in Seq(S) /\ second \in Seq(S) /\ before \in Seq(S)
      /\ log'[r] = before \o (first \o second)
      /\ Len(first) = Len(mgr)
      /\ \A i \in 1 .. Len(mgr) : first[i] = <<"transform_output", mgr[Len(mgr) - i + 1]>>
    BY <1>1, <1>2, <1>3, <1>5, <1>6, <1>7
<1> HIDE DEF first, second, before, last
<1> DEFINE both == first \o second
           now  == before \o both
<1>9. /\ both \in Seq(S) /\ Len(both) = Len(first) + Len(second)
      /\ Len(first) \in Nat /\ Len(second) \in Nat
      /\ \A i \in 1 .. Len(first) : both[i] = first[i]
  <2>1. first \in Seq(S) /\ second \in Seq(S)
      BY <1>8
  <2> QED BY <2>1, Appended
<1> HIDE DEF both
<1>10. /\ Len(now) = Len(before) + Len(both) /\ Len(before) \in Nat /\ Len(both) \in Nat
       /\ \A i \in 1 .. Len(both) : now[Len(before) + i] = both[i]
  <2>1. before \in Seq(S) /\ both \in Seq(S)
      BY <1>8, <1>9
  <2> QED BY <2>1, Appended
<1>11. log'[r] = now
    BY <1>8 DEF both
<1> HIDE DEF now
<1>12. Len(before) + Len(mgr) <= Len(now)
       /\ \A i \in 1 .. Len(mgr) : now[Len(before) + i] =
                <<"transform_output", mgr[Len(mgr) - i + 1]>>
  <2>1. \A i \in 1 .. Len(mgr) : i \in 1 .. Len(both) /\ i \in 1 .. Len(first)
      BY <1>8, <1>9
  <2>2. Len(before) + Len(mgr) <= Len(now)
      BY <1>8, <1>9, <1>10
  <2> QED BY <1>8, <1>9, <1>10, <2>1, <2>2
<1> DEFINE k == Len(before)
<1>13. k \in Nat
    BY <1>10
<1> HIDE DEF k
<1>14. k + Len(mgr) <= Len(log'[r])
       /\ \A i \in 1 .. Len(mgr) : log'[r][k + i] =
                <<"transform_output", mgr[Len(mgr) - i + 1]>>
    BY <1>11, <1>12 DEF k
<1> QED BY <1>7, <1>13, <1>14 DEF OutputCalled

\* The events of a send are sent by the running handler.
LEMMA SendsFields ==
    ASSUME Types, NEW r \in Requests, Progress(r), Sends(r) \/ Sent(r)
    PROVE  /\ Shape(r) \in Shapes[r] /\ req' = req /\ req[r].pc = "executing"
           /\ \/ log'[r] = log[r]
              \/ \E calls \in Seq(Hooks \X Middlewares) :
                    /\ log'[r] = log[r] \o calls
                    /\ \A i \in DOMAIN calls :
                            calls[i][1] \in {"before_send_events", "after_send_events"}
<1>1. req[r].pc = "executing" /\ Shape(r) \in Shapes[r]
  <2>1. req[r].pc = "executing"
      BY DEF Sends, Sent, FinishSend, Progress
  <2> QED BY <2>1 DEF Progress, Shape
<1> DEFINE before == Called(OfSend(r), "before_send_events",
                            Shape(r).raises, SyncHooks(r)).calls
           after  == Called(OfSend(r), "after_send_events",
                            Shape(r).raises, SyncHooks(r)).calls
           S == Hooks \X Middlewares
           both == before \o after
           Is(calls) == /\ calls \in Seq(S)
                        /\ \A i \in DOMAIN calls :
                            calls[i][1] \in {"before_send_events", "after_send_events"}
<1>2. before \in Seq(S) /\ \A i \in DOMAIN before : before[i][1] = "before_send_events"
    BY <1>1, SendCalls
<1>3. after \in Seq(S) /\ \A i \in DOMAIN after : after[i][1] = "after_send_events"
    BY <1>1, SendCalls
<1>4. CASE Sends(r)
  <2>1. /\ req' = req
        /\ log'[r] = log[r] \o before \/ log'[r] = log[r] \o both
      BY <1>1, <1>4, SendsTyped
  <2>2. Is(both)
    <3> HIDE DEF before, after, S
    <3>1. /\ both \in Seq(S)
          /\ \A i \in DOMAIN both :
                \/ i \in DOMAIN before /\ both[i] = before[i]
                \/ i - Len(before) \in DOMAIN after /\ both[i] = after[i - Len(before)]
        BY <1>2, <1>3, Appended
    <3> HIDE DEF both
    <3> QED BY <1>2, <1>3, <3>1
  <2> HIDE DEF before, after, both
  <2>3. Is(before)
      BY <1>2
  <2> QED BY <1>1, <2>1, <2>2, <2>3
<1>5. CASE Sent(r)
  <2>1. /\ req' = req
        /\ log' = log \/ log'[r] = log[r] \o after
      BY <1>1, <1>5, SentTyped
  <2> HIDE DEF after
  <2> QED BY <1>1, <1>3, <2>1
<1> QED BY <1>4, <1>5

LEMMA TransformsKept ==
    ASSUME Types, NEW r \in Requests, Progress(r), Begun(r), Transforms(r), Step(r)
    PROVE  Transforms(r)'
<1>1. CASE Fresh(r)
    BY <1>1 DEF Fresh, Transforms, Answered
<1>2. CASE Still(r)
  <2>1. InputCalled(r) => InputCalled(r)'
      BY <1>2, InputKept DEF Still
  <2>2. HookFailed(r)' <=> HookFailed(r)
      BY <1>2, FailedSame DEF Still
  <2>3. OutputCalled(r) => OutputCalled(r)'
      BY <1>2 DEF Still, OutputCalled, OfRequest, Shape
  <2> QED BY <1>2, <2>1, <2>2, <2>3 DEF Still, Transforms, Answered
<1>3. CASE Begins(r)
  <2>1. /\ req'[r].pc # "answered"
        /\ req'[r].pc = "ended" => HookFailed(r)'
      BY <1>3, BeginsFails
  <2> QED BY <1>3, <2>1, BeginsTransforms DEF Transforms, Answered
<1>4. CASE Reports(r) \/ ReportsLate(r)
  <2>1. /\ Shape(r) \in Shapes[r] /\ req[r].pc \in {"reporting", "executing"}
        /\ req'[r].shape = req[r].shape /\ req'[r].pc = "executing"
        /\ \/ log'[r] = log[r]
           \/ log'[r] = log[r] \o Hook(r, "before_execution").calls
      BY <1>4, ReportsFields
  <2>2. "before_execution" \in Hooks
      BY DEF Hooks, BeforeHooks
  <2>3. Hook(r, "before_execution").calls \in Seq(Hooks \X Middlewares)
      BY <2>1, <2>2, HookTyped
  <2>4. InputCalled(r)
      BY <2>1 DEF Transforms
  <2>5. InputCalled(r)'
      BY <2>1, <2>3, <2>4, InputKept
  <2> QED BY <2>1, <2>5 DEF Transforms, Answered
<1>5. CASE Sends(r) \/ Sent(r)
  <2>1. /\ req' = req /\ req[r].pc = "executing"
        /\ \/ log'[r] = log[r]
           \/ \E calls \in Seq(Hooks \X Middlewares) : log'[r] = log[r] \o calls
      BY <1>5, SendsFields
  <2>2. InputCalled(r)'
      BY <2>1, InputKept DEF Transforms
  <2> QED BY <2>1, <2>2 DEF Transforms, Answered
<1>6. CASE HandlerEnds(r)
  <2>1. /\ Shape(r) \in Shapes[r] /\ req[r].pc = "executing"
        /\ req'[r].shape = req[r].shape /\ req'[r].pc = "ended"
        /\ log'[r] = log[r] \/ log'[r] = log[r] \o Hook(r, "after_execution").calls
      BY <1>6, HandlerEndsFields
  <2>2. "after_execution" \in Hooks
      BY DEF Hooks, AfterHooks
  <2>3. Hook(r, "after_execution").calls \in Seq(Hooks \X Middlewares)
      BY <2>1, <2>2, HookTyped
  <2>4. InputCalled(r)'
      BY <2>1, <2>3, InputKept DEF Transforms
  <2> QED BY <2>1, <2>4 DEF Transforms, Answered
<1>7. CASE Replies(r)
  <2> DEFINE output   == Transformed(r)
             response == Hook(r, "before_response")
             last     == IF output.error THEN << >> ELSE response.calls
             calls    == output.calls \o last
  <2>1. /\ Shape(r) \in Shapes[r] /\ req[r].pc = "ended"
        /\ req'[r].shape = req[r].shape /\ req'[r].begun = req[r].begun
        /\ req'[r].pc = "answered" /\ log'[r] = log[r] \o calls
        /\ ~(output.error \/ response.error) => req'[r].result = req[r].result
      BY <1>7, RepliesFields
  <2>2. calls \in Seq(Hooks \X Middlewares)
    <3> DEFINE S == Hooks \X Middlewares
    <3>1. "transform_output" \in Hooks /\ "before_response" \in Hooks
        BY DEF Hooks, BeforeHooks, AfterHooks
    <3>2. output.calls \in Seq(S) /\ response.calls \in Seq(S) /\ << >> \in Seq(S)
        BY <2>1, <3>1, HookTyped DEF Transformed, NoCalls
    <3> HIDE DEF output, response, S
    <3>3. last \in Seq(S)
        BY <3>2
    <3> HIDE DEF last
    <3>4. \A s, t \in Seq(S) : s \o t \in Seq(S)
        BY ConcatProperties
    <3> QED BY <3>2, <3>3, <3>4 DEF S
  <2>3. ASSUME ~HookFailed(r)' PROVE InputCalled(r)'
    <3>1. ~HookFailed(r)
        BY <1>7, <2>3, RepliesFails
    <3>2. InputCalled(r)
        BY <2>1, <3>1 DEF Transforms
    <3> HIDE DEF calls
    <3> QED BY <2>1, <2>2, <3>2, InputKept
  <2>4. ASSUME ~HookFailed(r)', req'[r].result # "plan"
        PROVE  OutputCalled(r)'
      BY <1>7, <2>4, RepliesTransforms
  <2> QED BY <2>1, <2>3, <2>4 DEF Transforms, Answered
<1> QED BY <1>1, <1>2, <1>3, <1>4, <1>5, <1>6, <1>7, HistoryMoves

LEMMA TransformsElsewhere ==
    ASSUME NEW q \in Requests, req'[q] = req[q], log'[q] = log[q], Transforms(q)
    PROVE  Transforms(q)'
<1>1. HookFailed(q)' <=> HookFailed(q)
    BY FailedSame
<1>2. InputCalled(q) => InputCalled(q)'
    BY DEF InputCalled, OfRequest, Shape
<1>3. OutputCalled(q) => OutputCalled(q)'
    BY DEF OutputCalled, OfRequest, Shape
<1> QED BY <1>1, <1>2, <1>3 DEF Transforms, Answered

THEOREM TransformsAlways == Spec => [](\A r \in Requests : Transforms(r))
<1>1. Init => \A r \in Requests : Transforms(r)
    BY DEF Init, Transforms, Answered
<1>2. ASSUME Handled, \A r \in Requests : Begun(r), \A r \in Requests : Transforms(r),
             [Next]_vars
      PROVE  (\A r \in Requests : Transforms(r))'
  <2>1. CASE UNCHANGED vars
      BY <1>2, <2>1, TransformsElsewhere DEF vars
  <2>2. ASSUME NEW r \in Requests, Step(r), Others(r)
        PROVE  (\A q \in Requests : Transforms(q))'
    <3>1. Types /\ Progress(r)
        BY <1>2 DEF Handled
    <3>2. Transforms(r)'
        BY <1>2, <2>2, <3>1, TransformsKept
    <3> QED BY <1>2, <2>2, <3>2, TransformsElsewhere DEF Others
  <2> QED BY <1>2, <2>1, <2>2, HandledKept
<1> QED BY <1>1, <1>2, HandledAlways, BegunAlways, PTL DEF Spec

\* A hook that is called once for each of two middleware is called in the order
\* of the positions of the calls.
LEMMA OrderOfCalls ==
    ASSUME NEW r \in Requests, Once(log[r]), NEW hook, NEW one, NEW other,
           NEW i \in DOMAIN log[r], NEW j \in DOMAIN log[r],
           log[r][i] = <<hook, one>>, log[r][j] = <<hook, other>>
    PROVE  CalledInOrder(r, hook, one, other) <=> i < j
<1>1. \A p \in DOMAIN log[r] : /\ log[r][p] = <<hook, one>> => p = i
                               /\ log[r][p] = <<hook, other>> => p = j
    BY DEF Once
<1> QED BY <1>1 DEF CalledInOrder

\* What was transformed first to last is transformed back last to first.
LEMMA Undone ==
    ASSUME Types, NEW r \in Requests, Shape(r) \in Shapes[r], Once(log[r]),
           InputCalled(r), OutputCalled(r),
           NEW m \in Range(OfRequest(r)), NEW n \in Range(OfRequest(r))
    PROVE  /\ <<"transform_output", m>> \in Range(log[r])
           /\ <<"transform_input", m>> \in Range(log[r])
           /\ CalledInOrder(r, "transform_output", m, n)
                <=> CalledInOrder(r, "transform_input", n, m)
<1> DEFINE mgr == OfRequest(r)
           N == Len(mgr)
           calls == log[r]
<1>1. DOMAIN mgr = 1 .. N /\ N \in Nat
  <2>1. mgr \in Seq(Middlewares)
      BY ManagersTyped
  <2> HIDE DEF mgr
  <2> QED BY <2>1
<1>2. DOMAIN calls = 1 .. Len(calls) /\ Len(calls) \in Nat
  <2>1. calls \in Seq(Hooks \X Middlewares)
      BY DEF Types
  <2> HIDE DEF calls
  <2> QED BY <2>1
<1>3. N <= Len(calls) /\ \A i \in 1 .. N : calls[i] = <<"transform_input", mgr[i]>>
    BY DEF InputCalled
<1>4. PICK k \in Nat :
        /\ k + N <= Len(calls)
        /\ \A i \in 1 .. N : calls[k + i] = <<"transform_output", mgr[N - i + 1]>>
    BY DEF OutputCalled
<1>5. PICK a \in 1 .. N : mgr[a] = m
    BY <1>1 DEF Range
<1>6. PICK b \in 1 .. N : mgr[b] = n
    BY <1>1 DEF Range
<1> HIDE DEF mgr, N, calls
<1> DEFINE place(i) == k + (N - i + 1)
<1>7. ASSUME NEW i \in 1 .. N
      PROVE  /\ i \in DOMAIN calls /\ calls[i] = <<"transform_input", mgr[i]>>
             /\ place(i) \in DOMAIN calls
             /\ calls[place(i)] = <<"transform_output", mgr[i]>>
  <2>1. i \in DOMAIN calls /\ calls[i] = <<"transform_input", mgr[i]>>
      BY <1>1, <1>2, <1>3
  <2> DEFINE j == N - i + 1
  <2>2. j \in 1 .. N /\ N - j + 1 = i
      BY <1>1
  <2> HIDE DEF j
  <2>3. k + j \in DOMAIN calls /\ calls[k + j] = <<"transform_output", mgr[i]>>
    <3>1. k + j \in 1 .. Len(calls)
        BY <1>1, <1>2, <1>4, <2>2
    <3>2. calls[k + j] = <<"transform_output", mgr[N - j + 1]>>
        BY <1>4, <2>2
    <3> QED BY <1>2, <2>2, <3>1, <3>2
  <2> QED BY <2>1, <2>3 DEF j
<1>8. place(a) < place(b) <=> b < a
    BY <1>1
<1> HIDE DEF place
<1>9. CalledInOrder(r, "transform_output", m, n) <=> place(a) < place(b)
  <2>1. /\ place(a) \in DOMAIN log[r] /\ log[r][place(a)] = <<"transform_output", m>>
        /\ place(b) \in DOMAIN log[r] /\ log[r][place(b)] = <<"transform_output", n>>
      BY <1>5, <1>6, <1>7 DEF calls
  <2> QED BY <2>1, OrderOfCalls
<1>10. CalledInOrder(r, "transform_input", n, m) <=> b < a
  <2>1. /\ a \in DOMAIN log[r] /\ log[r][a] = <<"transform_input", m>>
        /\ b \in DOMAIN log[r] /\ log[r][b] = <<"transform_input", n>>
      BY <1>5, <1>6, <1>7 DEF calls
  <2> QED BY <2>1, OrderOfCalls
<1>11. <<"transform_output", m>> \in Range(calls) /\ <<"transform_input", m>> \in Range(calls)
    BY <1>5, <1>7 DEF Range
<1> QED BY <1>8, <1>9, <1>10, <1>11 DEF calls

\* HooksPaired: no hook of a middleware is called twice in a request; when no
\* hook failed, what the transform_inputs made of the input is undone in the
\* opposite order on what a step or the function returned, for every client's and
\* function's middleware; no handler runs beside a mismatched one
\* (MiddlewareManager). Nothing is said of transform_output on errors.
THEOREM HooksArePaired == Spec => []HooksPaired
<1> DEFINE Kept == /\ \A r \in Requests : Begun(r)
                   /\ \A r \in Requests : History(r)
                   /\ \A r \in Requests : Transforms(r)
<1>1. ASSUME Handled, Kept PROVE HooksPaired
  <2>1. ASSUME NEW r \in Requests
        PROVE  /\ \A i, j \in DOMAIN log[r] : log[r][i] = log[r][j] => i = j
               /\ req[r].pc = "executing" =>
                    \A m \in Range(OfRequest(r)) : ~Mismatched(m, SyncHooks(r))
      BY <1>1 DEF History, Once, Begun, Matched
  <2>2. ASSUME NEW r \in Requests, Answered(r), ~HookFailed(r),
               req[r].result \in Values,
               NEW m \in Range(OfRequest(r)), NEW n \in Range(OfRequest(r))
        PROVE  /\ <<"transform_output", m>> \in Range(log[r])
                    <=> <<"transform_input", m>> \in Range(log[r])
               /\ CalledInOrder(r, "transform_output", m, n)
                    <=> CalledInOrder(r, "transform_input", n, m)
    <3>1. Types /\ Shape(r) \in Shapes[r]
        BY <1>1, <2>2 DEF Handled, Progress, Answered, Shape
    <3>2. Once(log[r]) /\ InputCalled(r) /\ OutputCalled(r)
        BY <1>1, <2>2 DEF History, Transforms, Values
    <3> QED BY <3>1, <3>2, <2>2, Undone
  <2> QED BY <2>1, <2>2 DEF HooksPaired
<1> QED BY <1>1, HandledAlways, BegunAlways, HistoryAlways, TransformsAlways, PTL

-----------------------------------------------------------------------------
(* What a hook that failed decides.                                         *)

\* The outcome is that of the function's shape and of its send.
LEMMA OutcomeSame ==
    ASSUME NEW r \in Requests, req'[r].shape = req[r].shape,
           send'[r].pc = "raised" <=> send[r].pc = "raised"
    PROVE  Outcome(r)' = Outcome(r)
    BY DEF Outcome, Shape

\* The errors that report_step drops, and those of a send's hooks, decide nothing.
LEMMA ReportsFails ==
    ASSUME Types, NEW r \in Requests, Progress(r), Begun(r), Reports(r) \/ ReportsLate(r)
    PROVE  HookFailed(r)' <=> HookFailed(r)
<1> DEFINE calls == Hook(r, "before_execution").calls
<1>1. /\ Shape(r) \in Shapes[r] /\ req'[r].shape = req[r].shape
      /\ log'[r] = log[r] \/ (Shape(r).memos /\ log'[r] = log[r] \o calls)
    BY ReportsFields
<1>2. CASE log'[r] = log[r]
    BY <1>1, <1>2, FailedSame
<1>3. CASE Shape(r).memos /\ log'[r] = log[r] \o calls
  <2>1. "before_execution" \in Hooks
      BY DEF Hooks, BeforeHooks
  <2>2. /\ calls \in Seq(Hooks \X Middlewares)
        /\ \A i \in DOMAIN calls : calls[i][1] = "before_execution"
      BY <1>1, <2>1, HookCalls
  <2> HIDE DEF calls
  <2>3. Shape(r).raises \in Range(calls) => ~Counts(r)
      BY <1>3, <2>2, RaisesOfHook DEF Counts
  <2> QED BY <1>1, <1>3, <2>2, <2>3, FailedGrows
<1> QED BY <1>1, <1>2, <1>3

LEMMA SendsFails ==
    ASSUME Types, NEW r \in Requests, Progress(r), Sends(r) \/ Sent(r)
    PROVE  HookFailed(r)' <=> HookFailed(r)
<1>1. /\ req' = req
      /\ \/ log'[r] = log[r]
         \/ \E calls \in Seq(Hooks \X Middlewares) :
               /\ log'[r] = log[r] \o calls
               /\ \A i \in DOMAIN calls :
                       calls[i][1] \in {"before_send_events", "after_send_events"}
    BY SendsFields
<1>2. CASE log'[r] = log[r]
    BY <1>1, <1>2, FailedSame
<1>3. ASSUME NEW calls \in Seq(Hooks \X Middlewares), log'[r] = log[r] \o calls,
             \A i \in DOMAIN calls :
                calls[i][1] \in {"before_send_events", "after_send_events"}
      PROVE  HookFailed(r)' <=> HookFailed(r)
  <2>1. Shape(r).raises \in Range(calls) => ~Counts(r)
      BY <1>3 DEF Counts, Range
  <2> QED BY <1>1, <1>3, <2>1, FailedGrows
<1> QED BY <1>1, <1>2, <1>3

\* An error of after_execution is the result.
LEMMA HandlerEndsFails ==
    ASSUME Types, NEW r \in Requests, Progress(r), Begun(r), ~HookFailed(r), HandlerEnds(r)
    PROVE  req'[r].result = IF HookFailed(r)' THEN "error" ELSE Outcome(r)
<1> DEFINE after == Hook(r, "after_execution")
           calls == after.calls
<1>1. /\ Shape(r) \in Shapes[r] /\ req[r].pc = "executing"
      /\ req'[r].shape = req[r].shape
      /\ \/ log'[r] = log[r] /\ req'[r].result = Outcome(r)
         \/ /\ log'[r] = log[r] \o calls
            /\ after.error => req'[r].result = "error"
            /\ ~after.error => req'[r].result = Outcome(r)
    BY HandlerEndsFields
<1>2. Matched(r)
    BY <1>1 DEF Begun
<1>3. "after_execution" \in Hooks
    BY DEF Hooks, AfterHooks
<1>4. /\ calls \in Seq(Hooks \X Middlewares) /\ after.error \in BOOLEAN
      /\ \A i \in DOMAIN calls : calls[i][1] = "after_execution"
      /\ after.error => Shape(r).raises \in Range(calls)
      /\ ~after.error => Shape(r).raises \notin Range(calls)
    BY <1>1, <1>2, <1>3, HookCalls
<1> HIDE DEF after, calls
<1>5. CASE log'[r] = log[r] /\ req'[r].result = Outcome(r)
    BY <1>1, <1>5, FailedSame
<1>6. CASE /\ log'[r] = log[r] \o calls
           /\ after.error => req'[r].result = "error"
           /\ ~after.error => req'[r].result = Outcome(r)
  <2>1. after.error => Counts(r)
    <3> SUFFICES ASSUME after.error PROVE Counts(r)
        OBVIOUS
    <3>1. Shape(r).raises[1] = "after_execution"
        BY <1>4, RaisesOfHook
    <3> QED BY <3>1 DEF Counts
  <2>2. HookFailed(r)' <=> after.error
      BY <1>1, <1>4, <1>6, <2>1, FailedGrows
  <2> QED BY <1>6, <2>2
<1> QED BY <1>1, <1>5, <1>6

\* The answer says what the run ended with, or the error of a hook.
LEMMA RepliesDecides ==
    ASSUME Types, NEW r \in Requests, Progress(r), Replies(r),
           req[r].result = IF HookFailed(r) THEN "error" ELSE Outcome(r),
           req'[r].stream # "gone"
    PROVE  Tells(r)'
<1> DEFINE failed  == Transformed(r).error \/ Hook(r, "before_response").error
           result  == req'[r].result
           answer  == req'[r].answer
           outcome == Outcome(r)
<1>1. /\ req'[r].shape = req[r].shape /\ send' = send
      /\ failed => result = "error"
      /\ ~failed => result = req[r].result
      /\ answer.body = IF result = "unserializable" THEN "error" ELSE result
      /\ answer.status = IF result \in Interrupts THEN 206
                         ELSE IF result = "output" THEN 200 ELSE 500
      /\ answer.noRetry = (result \in {"non-retriable", "failed step"})
      /\ answer.retryAfter = (result = "retry after")
  <2>1. /\ req'[r].shape = req[r].shape /\ send' = send
        /\ failed => result = "error"
        /\ ~failed => result = req[r].result
      BY RepliesFields
  <2>2. /\ answer.body = IF result = "unserializable" THEN "error" ELSE result
        /\ answer.status = IF result \in Interrupts THEN 206
                           ELSE IF result = "output" THEN 200 ELSE 500
      BY RepliesFields
  <2>3. /\ answer.noRetry = (result \in {"non-retriable", "failed step"})
        /\ answer.retryAfter = (result = "retry after")
      BY RepliesFields, Zenon
  <2> HIDE DEF failed, result, answer
  <2> QED BY <2>1, <2>2, <2>3
<1>2. (failed => HookFailed(r)') /\ (~failed => (HookFailed(r)' <=> HookFailed(r)))
    BY RepliesFails
<1>3. Outcome(r)' = outcome
    BY <1>1, OutcomeSame
<1>4. req[r].result = IF HookFailed(r) THEN "error" ELSE outcome
    OBVIOUS
<1>5. "error" \notin Interrupts
    BY DEF Interrupts
<1> HIDE DEF failed, result, answer, outcome
<1>6. CASE HookFailed(r)'
  <2>1. result = "error"
      BY <1>1, <1>2, <1>4, <1>6
  <2>2. answer.status = 500 /\ answer.body = "error"
      BY <1>1, <1>5, <2>1
  <2>3. /\ (result \in {"non-retriable", "failed step"}) = FALSE
        /\ (result = "retry after") = FALSE
      BY <2>1
  <2>4. ~answer.noRetry /\ ~answer.retryAfter
      BY <1>1, <2>3
  <2> QED BY <1>6, <2>2, <2>4 DEF answer, Tells
<1>7. CASE ~HookFailed(r)'
  <2>1. result = outcome
      BY <1>1, <1>2, <1>4, <1>7
  <2>2. /\ answer.noRetry = (outcome \in {"non-retriable", "failed step"})
        /\ answer.retryAfter = (outcome = "retry after")
      BY <1>1, <2>1
  <2> QED BY <1>3, <1>7, <2>2, Zenon DEF answer, Tells
<1> QED BY <1>6, <1>7

LEMMA TellsSame ==
    ASSUME NEW r \in Requests, req'[r].answer = req[r].answer,
           HookFailed(r)' <=> HookFailed(r), Outcome(r)' = Outcome(r), Tells(r)
    PROVE  Tells(r)'
<1> DEFINE failed == HookFailed(r)
           outcome == Outcome(r)
           answer == req[r].answer
<1>1. IF failed THEN /\ answer.status = 500 /\ answer.body = "error"
                     /\ ~answer.noRetry /\ ~answer.retryAfter
      ELSE outcome # "unserializable" =>
           /\ answer.noRetry = (outcome \in {"non-retriable", "failed step"})
           /\ answer.retryAfter = (outcome = "retry after")
    BY DEF Tells
<1>2. HookFailed(r)' = failed /\ Outcome(r)' = outcome /\ req'[r].answer = answer
    BY DEF HookFailed
<1> HIDE DEF failed, outcome, answer
<1> QED BY <1>1, <1>2, Zenon DEF Tells

LEMMA DecidedKept ==
    ASSUME Types, NEW r \in Requests, Progress(r), Begun(r), Decided(r), Step(r)
    PROVE  Decided(r)'
<1>1. CASE Fresh(r)
    BY <1>1 DEF Fresh, Decided, Answered
<1>2. CASE Still(r)
  <2>1. HookFailed(r)' <=> HookFailed(r)
      BY <1>2, FailedSame DEF Still
  <2>2. Outcome(r)' = Outcome(r)
      BY <1>2, OutcomeSame DEF Still
  <2>3. /\ req'[r].pc = req[r].pc /\ req'[r].begun = req[r].begun
        /\ req'[r].result = req[r].result /\ req'[r].answer = req[r].answer
        /\ Answered(r) => req'[r].stream = req[r].stream
      BY <1>2 DEF Still, Answered
  <2>4. Tells(r) => Tells(r)'
      BY <2>1, <2>2, <2>3, TellsSame
  <2> QED BY <2>1, <2>2, <2>3, <2>4 DEF Decided, Answered
<1>3. CASE Begins(r)
  <2>1. /\ req'[r].pc \in {"reporting", "executing"} => ~HookFailed(r)'
        /\ req'[r].pc = "ended" => HookFailed(r)' /\ req'[r].result = "error"
        /\ req'[r].pc # "answered"
      BY <1>3, BeginsFails
  <2> QED BY <2>1 DEF Decided, Answered
<1>4. CASE Reports(r) \/ ReportsLate(r) \/ Sends(r) \/ Sent(r)
  <2>1. /\ HookFailed(r)' <=> HookFailed(r)
        /\ req[r].pc \in {"reporting", "executing"} /\ req'[r].pc = "executing"
      BY <1>4, ReportsFails, SendsFails, ReportsFields, SendsFields
  <2> QED BY <2>1 DEF Decided, Answered
<1>5. CASE HandlerEnds(r)
  <2>1. /\ req[r].pc = "executing" /\ req'[r].pc = "ended" /\ send' = send
        /\ req'[r].shape = req[r].shape
      BY <1>5, HandlerEndsFields
  <2>2. ~HookFailed(r)
      BY <2>1 DEF Decided
  <2>3. req'[r].result = IF HookFailed(r)' THEN "error" ELSE Outcome(r)
      BY <1>5, <2>2, HandlerEndsFails
  <2>4. Outcome(r)' = Outcome(r)
      BY <2>1, OutcomeSame
  <2> QED BY <2>1, <2>3, <2>4 DEF Decided, Answered
<1>6. CASE Replies(r)
  <2>1. req[r].pc = "ended" /\ req'[r].pc = "answered"
      BY <1>6, RepliesFields
  <2>2. req[r].result = IF HookFailed(r) THEN "error" ELSE Outcome(r)
      BY <2>1 DEF Decided
  <2>3. ASSUME req'[r].stream # "gone"
        PROVE  Tells(r)'
      BY <1>6, <2>2, <2>3, RepliesDecides
  <2> QED BY <2>1, <2>3 DEF Decided
<1> QED BY <1>1, <1>2, <1>3, <1>4, <1>5, <1>6, HistoryMoves

LEMMA DecidedElsewhere ==
    ASSUME NEW q \in Requests, req'[q] = req[q], log'[q] = log[q], send'[q] = send[q],
           Decided(q)
    PROVE  Decided(q)'
<1>1. (HookFailed(q)' <=> HookFailed(q)) /\ Outcome(q)' = Outcome(q)
    BY FailedSame, OutcomeSame
<1>2. Tells(q) => Tells(q)'
    BY <1>1, TellsSame
<1> QED BY <1>1, <1>2 DEF Decided, Answered

THEOREM DecidedAlways == Spec => [](\A r \in Requests : Decided(r))
<1>1. Init => \A r \in Requests : Decided(r)
    BY DEF Init, Decided, Answered
<1>2. ASSUME Handled, \A r \in Requests : Begun(r), \A r \in Requests : Decided(r),
             [Next]_vars
      PROVE  (\A r \in Requests : Decided(r))'
  <2>1. CASE UNCHANGED vars
      BY <1>2, <2>1, DecidedElsewhere DEF vars
  <2>2. ASSUME NEW r \in Requests, Step(r), Others(r)
        PROVE  (\A q \in Requests : Decided(q))'
    <3>1. Types /\ Progress(r)
        BY <1>2 DEF Handled
    <3>2. Decided(r)'
        BY <1>2, <2>2, <3>1, DecidedKept
    <3> QED BY <1>2, <2>2, <3>2, DecidedElsewhere DEF Others
  <2> QED BY <1>2, <2>1, <2>2, HandledKept
<1> QED BY <1>1, <1>2, HandledAlways, BegunAlways, PTL DEF Spec

\* AnsweredAsEnded: if a hook failed, other than a before_execution whose error
\* report_step drops (v0.py:69), the answer is an error that may be retried;
\* otherwise it has the retry headers of how the function ended, unless its output
\* cannot be encoded (Function.call, CommResponse.from_call_result).
THEOREM AnswersAreTrue == Spec => []AnsweredAsEnded
<1>1. (\A r \in Requests : Decided(r)) => AnsweredAsEnded
  <2>1. ASSUME NEW r \in Requests, Decided(r), Answered(r), req[r].result # "none",
               req[r].stream # "gone"
        PROVE  Tells(r)
      BY <2>1 DEF Decided
  <2> QED BY <2>1, Zenon DEF AnsweredAsEnded, Tells
<1> QED BY <1>1, DecidedAlways, PTL

=============================================================================
