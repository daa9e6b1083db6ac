-------------------------- MODULE StateTransforms --------------------------
(***************************************************************************)
(* What EncryptionMiddleware (inngest_encryption/main.py) and              *)
(* RemoteStateMiddleware (experimental/remote_state_middleware) do to the  *)
(* state of a run between the workers of an app and the Executor, while    *)
(* the app is redeployed with other keys. A run's function is a list of    *)
(* operations; a request replays it and reports the next one. The Executor *)
(* is external: it keeps what it is told and retries what fails. A value   *)
(* is a body and the key it is encrypted with, or a reference to an object *)
(* of the remote store.                                                    *)
(***************************************************************************)
EXTENDS Naturals, Sequences, SequencesExt

CONSTANTS
    None,           \* no key, no value
    Keys,           \* secret keys
    Setups,         \* the app's middleware and its successive deployments
    Programs,       \* what the parent's function may do
    MaxFaults       \* bound: replies lost, saves and loads failed

\* What an operation of a function may be.
Ops == {"run", "invoke", "invokes", "wait", "return"}

ASSUME FaultsAssumption == MaxFaults \in Nat

\* No key is the absent one.
ASSUME KeysAssumption == None \notin Keys

\* A function returns once, at its end; one run is invoked, by one operation.
ASSUME ProgramsAssumption ==
    /\ Programs \subseteq Seq(Ops)
    /\ \A p \in Programs :
          /\ p # << >>
          /\ \A i \in DOMAIN p : p[i] = "return" <=> i = Len(p)
          /\ \A i, j \in DOMAIN p :
                p[i] \in {"invoke", "invokes"} /\ p[j] \in {"invoke", "invokes"} => i = j

\* Each middleware is installed at most once, and it is EncryptionMiddleware
\* that a deployment gives its keys to.
ASSUME SetupsAssumption ==
    \A s \in Setups :
       /\ s.rollout \in Seq([keys : Seq(Keys), decryptOnly : BOOLEAN]) \ {<< >>}
       /\ s.order \in {<< >>, <<"encrypt">>, <<"remote">>, <<"remote", "encrypt">>,
                       <<"encrypt", "remote">>}
       /\ \A i \in DOMAIN s.rollout :
             s.rollout[i].keys # << >> => "encrypt" \in Range(s.order)

VARIABLES
    setup,          \* one of Setups
    stage,          \* the oldest deployment that takes requests
    rolling,        \* whether the next deployment takes requests too
    runs,           \* per run: its event, what its steps returned, its request
    store,          \* the objects of the remote store
    faults

vars == <<setup, stage, rolling, runs, store, faults>>

Runs == {"parent", "child"}
Plain(body) == [body |-> body, key |-> None]
NoValue == Plain(<<"none", 0>>)
Failure == Plain(<<"failure", 0>>)

\* The body a step returned, or that an event was sent with.
Body(r, i) == <<r, i>>

\* A placeholder (_StatePlaceholder, _StateSurrogate) and the object it names.
Ref(n) == Plain(<<"object", n>>)
IsRef(v) == v.key = None /\ v.body[1] = "object"

Rollout == setup.rollout
Stages == IF rolling THEN {stage, stage + 1} ELSE {stage}

-----------------------------------------------------------------------------
(* The middleware. A deployment without encryption has no keys; its first   *)
(* key encrypts, the others are fallback_decryption_keys.                   *)

\* Mutant of Readable: the fallback keys are not tried.
ReadableByFirst(conf) == IF conf.keys = << >> THEN {} ELSE {Head(conf.keys)}

Readable(conf) == Range(conf.keys)

Encrypts(conf) == conf.keys # << >> /\ ~conf.decryptOnly

\* _encrypt leaves alone what is already encrypted.
Encrypted(v, conf) ==
    IF Encrypts(conf) /\ v.key = None THEN [v EXCEPT !.key = Head(conf.keys)]
    ELSE v

\* _decrypt: its exception is an error of transform_input.
Decrypted(v, conf) ==
    IF v.key = None \/ conf.keys = << >> THEN v
    ELSE IF v.key \in Readable(conf) THEN [v EXCEPT !.key = None] ELSE Failure

\* load_steps replaces what it recognizes as a placeholder.
Loaded(v) == IF IsRef(v) THEN store[v.body[2]] ELSE v

\* The hooks of the installed middleware on a memoized step.
Input(v, conf) ==
    LET hook(x, mw) == IF mw = "remote" THEN Loaded(x) ELSE Decrypted(x, conf)
    IN  FoldLeft(hook, v, setup.order)

\* Mutant of Undone: transform_output runs first to last.
UndoneInOrder(order) == order

Undone(order) == Reverse(order)

\* Mutant of Saves: the object is written after the reply.
SavesLate(objects, v) == objects

\* save_step.
Saves(objects, v) == Append(objects, v)

\* Mutant of Sealable: only what a step returns is encrypted.
SealableStep(op) == op = "run"

\* What transform_output encrypts: any output, and the data of an invocation;
\* it is not called for a group of several steps.
Sealable(op) == op \in {"run", "return", "invoke"}

\* The hooks on what a request reports: the value, and the store after it.
Output(v, op, conf) ==
    LET hook(out, mw) ==
            CASE mw = "encrypt" /\ Sealable(op) ->
                    [out EXCEPT !.value = Encrypted(@, conf)]
              [] mw = "remote" /\ op = "run" ->
                    [value |-> Ref(Len(out.store) + 1),
                     store |-> Saves(out.store, out.value)]
              [] OTHER -> out
    IN  FoldLeft(hook, [value |-> v, store |-> store], Undone(setup.order))

\* before_send_events of a worker, or an event from elsewhere.
SentEvent(body) ==
    {Plain(body)} \cup {Encrypted(Plain(body), Rollout[s]) : s \in Stages}

-----------------------------------------------------------------------------
NoRequest == [stage |-> 0, reply |-> NoValue]

Init ==
    /\ setup \in Setups
    /\ stage = 1 /\ rolling = FALSE
    /\ \E program \in Programs :
          runs = [r \in Runs |->
                    [program |-> IF r = "parent" THEN program
                                 ELSE <<"run", "return">>,
                     event |-> NoValue, memos |-> << >>, pending |-> FALSE,
                     request |-> NoRequest, seen |-> << >>, output |-> NoValue]]
    /\ store = << >>
    /\ faults = 0

Next_(r) == Len(runs[r].memos) + 1
Op(r) == runs[r].program[Next_(r)]
Ended(r) == runs[r].output # NoValue
Idle(r) == runs[r].request = NoRequest

\* The parent's trigger.
Trigger ==
    /\ runs["parent"].event = NoValue
    /\ \E event \in SentEvent(Body("parent", 0)) :
          runs' = [runs EXCEPT !["parent"].event = event]
    /\ UNCHANGED <<setup, stage, rolling, store, faults>>

\* transform_input of a request that a worker takes: the memoized steps and
\* the event. step.wait_for_event's memo is a whole event, in which _decrypt
\* finds nothing at the top level.
Seen(r, s) ==
    LET conf == Rollout[s]
        memo(i) == IF runs[r].program[i] = "wait" THEN runs[r].memos[i]
                   ELSE Input(runs[r].memos[i], conf)
    IN  <<Decrypted(runs[r].event, conf)>>
            \o [i \in DOMAIN runs[r].memos |-> memo(i)]

Requested(r) == runs[r].event # NoValue /\ ~Ended(r) /\ ~runs[r].pending /\ Idle(r)

\* The Executor sends a request, to any worker. One that fails to read the
\* state is answered with an error, and sent again.
Request(r, s) ==
    /\ Requested(r) /\ s \in Stages
    /\ runs' = [runs EXCEPT
            ![r].seen = Seen(r, s),
            ![r].request = IF Failure \in Range(Seen(r, s)) THEN NoRequest
                           ELSE [NoRequest EXCEPT !.stage = s]]
    /\ UNCHANGED <<setup, stage, rolling, store, faults>>

\* load_steps raises on a placeholder (s3_driver.py:88): transform_input's error
\* is the answer, and the request is sent again.
LoadFails(r) ==
    /\ Requested(r)
    /\ "remote" \in Range(setup.order) /\ faults < MaxFaults
    /\ \E i \in DOMAIN runs[r].memos : runs[r].program[i] = "run"
    /\ faults' = faults + 1
    /\ UNCHANGED <<setup, stage, rolling, runs, store>>

\* The worker reports the next operation: what a step returned, the data of an
\* invocation, the function's output; waiting for an event has no value.
Reply(r) ==
    LET conf == Rollout[runs[r].request.stage]
        out == Output(Plain(Body(r, Next_(r))), Op(r), conf)
    IN  /\ ~Idle(r) /\ runs[r].request.reply = NoValue
        /\ runs' = [runs EXCEPT ![r].request.reply = out.value]
        /\ store' = out.store
        /\ UNCHANGED <<setup, stage, rolling, faults>>

\* save_step raises: transform_output's error is the answer.
SaveFails(r) ==
    /\ ~Idle(r) /\ runs[r].request.reply = NoValue
    /\ Op(r) = "run" /\ "remote" \in Range(setup.order) /\ faults < MaxFaults
    /\ faults' = faults + 1
    /\ runs' = [runs EXCEPT ![r].request = NoRequest]
    /\ UNCHANGED <<setup, stage, rolling, store>>

\* The reply is lost: the request is sent again, and its step runs again.
Lost(r) ==
    /\ runs[r].request.reply # NoValue /\ faults < MaxFaults
    /\ faults' = faults + 1
    /\ runs' = [runs EXCEPT ![r].request = NoRequest]
    /\ UNCHANGED <<setup, stage, rolling, store>>

\* The Executor keeps a step's output, starts an invoked run or ends one, whose
\* output is what the invocation returns.
Delivered(r) ==
    LET reply == runs[r].request.reply
        taken == [runs EXCEPT ![r].request = NoRequest]
    IN  /\ reply # NoValue
        /\ runs' = CASE Op(r) = "run" -> [taken EXCEPT ![r].memos = Append(@, reply)]
                     [] Op(r) \in {"invoke", "invokes"} ->
                            [taken EXCEPT ![r].pending = TRUE, !["child"].event = reply]
                     [] Op(r) = "wait" -> [taken EXCEPT ![r].pending = TRUE]
                     [] Op(r) = "return" -> [taken EXCEPT ![r].output = reply]
        /\ UNCHANGED <<setup, stage, rolling, store, faults>>

\* What the parent waits for happens: the child ends, or an event is sent.
Continues ==
    /\ runs["parent"].pending
    /\ \E v \in IF Op("parent") = "wait"
                THEN SentEvent(Body("parent", Next_("parent")))
                ELSE {runs["child"].output} \ {NoValue} :
          runs' = [runs EXCEPT !["parent"].memos = Append(@, v),
                               !["parent"].pending = FALSE]
    /\ UNCHANGED <<setup, stage, rolling, store, faults>>

\* Redeploying: the new workers start once the ones before the present are
\* gone; then the present ones take no more requests and finish theirs.
Deploy ==
    /\ ~rolling /\ stage < Len(Rollout)
    /\ \A r \in Runs : runs[r].request.stage \in {0, stage}
    /\ rolling' = TRUE
    /\ UNCHANGED <<setup, stage, runs, store, faults>>

Retire ==
    /\ rolling
    /\ rolling' = FALSE /\ stage' = stage + 1
    /\ UNCHANGED <<setup, runs, store, faults>>

Executor == Trigger \/ Continues \/ \E r \in Runs : Delivered(r)
Worker(r) == Reply(r) \/ SaveFails(r)

Next ==
    \/ Executor \/ Deploy \/ Retire
    \/ \E r \in Runs : \/ Worker(r) \/ Lost(r) \/ LoadFails(r)
                       \/ \E s \in Stages : Request(r, s)

Spec == Init /\ [][Next]_vars

\* The Executor retries, workers answer, deployments go on. A request need not
\* go to a new worker while old ones take requests.
FairSpec ==
    /\ Spec
    /\ WF_vars(Executor) /\ WF_vars(Deploy) /\ WF_vars(Retire)
    /\ \A r \in Runs : WF_vars(Worker(r)) /\ WF_vars(\E s \in Stages : Request(r, s))

-----------------------------------------------------------------------------
(* Properties.                                                              *)

Writes(conf) == IF Encrypts(conf) THEN {Head(conf.keys)} ELSE {}

\* A deployment reads what the ones before it wrote.
Covering == \A j \in DOMAIN Rollout : \A i \in 1 .. j :
                Writes(Rollout[i]) \subseteq Range(Rollout[j].keys)

\* And what the next one writes while both take requests: decrypt_only before
\* encrypting, a new key as a fallback before it encrypts.
Staged == Covering /\ \A j \in 1 .. Len(Rollout) - 1 :
                Writes(Rollout[j + 1]) \subseteq Range(Rollout[j].keys)

\* Types; and a placeholder the Executor keeps, or one inside a ciphertext,
\* names an object that is stored.
TypeOK ==
    /\ setup \in Setups /\ stage \in DOMAIN Rollout /\ rolling \in BOOLEAN
    /\ faults \in 0 .. MaxFaults
    /\ \A r \in Runs :
          /\ runs[r].request.stage \in 0 .. Len(Rollout)
          /\ Len(runs[r].memos) < Len(runs[r].program)
          /\ \A v \in Range(runs[r].memos) \cup {runs[r].event, runs[r].output} :
                /\ v.key \in Keys \cup {None}
                /\ v.body[1] = "object" => v.body[2] \in DOMAIN store

\* What the step at place i returned, of which an invocation's is the child's.
Returned(r, i) ==
    CASE i = 0 /\ r = "child" ->
            Plain(Body("parent", CHOOSE j \in DOMAIN runs["parent"].program :
                          runs["parent"].program[j] \in {"invoke", "invokes"}))
      [] i # 0 /\ runs[r].program[i] \in {"invoke", "invokes"} ->
            Plain(Body("child", 2))
      [] OTHER -> Plain(Body(r, i))

\* transform_input after transform_output: whatever the order of the two
\* middleware, and across a staged redeployment with both kinds of workers, a
\* function sees each step's output, its event and what it invoked exactly as
\* they were returned or sent, the event of step.wait_for_event excepted.
SeesWhatWasReturned ==
    \A r \in Runs : \A i \in DOMAIN runs[r].seen :
        Staged /\ (i > 1 => runs[r].program[i - 1] # "wait") =>
            runs[r].seen[i] = Returned(r, i - 1)

\* fallback_decryption_keys: in any redeployment that keeps the old keys, a
\* worker that fails to read the state of a run it is sent is one of the old
\* deployment while the new one takes requests too; and in a staged one, or
\* while one deployment is alone, none does. A new worker reads everything.
OnlyOldWorkersFail ==
    [][\A r \in Runs : \A s \in Stages :
          Covering /\ Request(r, s) /\ Failure \in Range(runs'[r].seen) =>
              rolling /\ s = stage /\ ~Staged]_vars

\* transform_output and before_send_events: when every deployment encrypts, the
\* Executor holds nothing that a step or a function returned in plain text,
\* only ciphertext or the place where it is stored.
OutputsSealed ==
    (\A i \in DOMAIN Rollout : Encrypts(Rollout[i])) =>
        \A r \in Runs :
            /\ \A i \in DOMAIN runs[r].memos :
                  LET v == runs[r].memos[i]
                  IN  runs[r].program[i] # "wait" =>
                        v.key # None \/ v.body[1] = "object"
            /\ Ended(r) => runs[r].output.key # None

\* A run ends, over lost replies, failed saves and redeployments, if each
\* deployment keeps the keys of the ones before it.
EveryRunEnds == Covering => <>Ended("parent")

-----------------------------------------------------------------------------
(* What the documentation says and the code does not do.                    *)

\* inngest_encryption/README.md:20 "When sending events or invoking functions,
\* only the `encrypted` field will be encrypted".
InvokedDataSealed ==
    (\A i \in DOMAIN Rollout : Encrypts(Rollout[i])) =>
        runs["child"].event = NoValue \/ runs["child"].event.key # None

=============================================================================
