----------------------- MODULE StateTransformsProofs -----------------------
(***************************************************************************)
(* A function sees what was returned, and the Executor holds ciphertext,    *)
(* for every set of keys, every sequence of deployments, every program and  *)
(* any number of faults.                                                    *)
(***************************************************************************)
EXTENDS StateTransforms, TLAPS

Tags == Runs \cup {"none", "failure", "object"}
Values == [body : Tags \X Nat, key : Keys \cup {None}]
RequestType == [stage : Nat, reply : Values]
RunType ==
    [program : Seq(Ops), event : Values, memos : Seq(Values), pending : BOOLEAN,
     request : RequestType, seen : Seq(Values), output : Values]
Deployment == [keys : Seq(Keys), decryptOnly : BOOLEAN]

\* The newest deployment that took a request, and the keys that may have
\* encrypted something by now.
Top == IF rolling THEN stage + 1 ELSE stage
Sealers == UNION {Writes(Rollout[i]) : i \in 1 .. Top}

Invokes(op) == op \in {"invoke", "invokes"}

Program(p) ==
    /\ p \in Seq(Ops) /\ p # << >>
    /\ \A i \in DOMAIN p : p[i] = "return" <=> i = Len(p)
    /\ \A i, j \in DOMAIN p : Invokes(p[i]) /\ Invokes(p[j]) => i = j

\* A request is at a deployment that was started, and only the parent waits,
\* for an event or for the child, with no request.
RunControl(r) ==
    /\ Program(runs[r].program)
    /\ r = "child" => runs[r].program = <<"run", "return">>
    /\ Len(runs[r].memos) < Len(runs[r].program)
    /\ runs[r].request.stage \in 0 .. Top
    /\ runs[r].request.stage = 0 => Idle(r)
    /\ runs[r].pending => /\ r = "parent" /\ Idle(r)
                          /\ Op(r) \in {"wait", "invoke", "invokes"}

Control ==
    /\ setup \in Setups /\ stage \in DOMAIN Rollout /\ rolling \in BOOLEAN
    /\ rolling => stage < Len(Rollout)
    /\ faults \in 0 .. MaxFaults
    /\ runs \in [Runs -> RunType] /\ store \in Seq(Values)
    /\ \A r \in Runs : RunControl(r)

\* v is a body, in plain text or encrypted with one of the keys.
Is(v, body, keys) == v.body = body /\ v.key \in keys \cup {None}

\* v names a stored object, which is the body. Encrypted is at most the layer
\* that transform_input can remove: the placeholder when EncryptionMiddleware
\* comes first, the object when RemoteStateMiddleware does.
Stored(v, body, keys, objects, order) ==
    \E n \in DOMAIN objects :
        /\ Is(v, <<"object", n>>, keys) /\ Is(objects[n], body, keys)
        /\ order[1] = "remote" => v.key = None
        /\ order[1] # "remote" => objects[n].key = None

\* How the Executor holds what an operation produced.
Held(v, op, body, keys, objects, order) ==
    IF op = "run" /\ "remote" \in Range(order)
    THEN Stored(v, body, keys, objects, order)
    ELSE Is(v, body, keys)

\* What the Executor keeps of a run, and a reply on its way.
EventKept(r) ==
    runs[r].event # NoValue => Is(runs[r].event, Returned(r, 0).body, Sealers)
MemosKept(r) ==
    \A i \in DOMAIN runs[r].memos :
        Held(runs[r].memos[i], runs[r].program[i], Returned(r, i).body, Sealers, store,
             setup.order)
ReplyKept(r) ==
    runs[r].request.reply # NoValue =>
        Held(runs[r].request.reply, Op(r), Body(r, Next_(r)), Sealers, store, setup.order)
OutputKept(r) ==
    Ended(r) => Is(runs[r].output, Body(r, Len(runs[r].program)), Sealers)

Contents == \A r \in Runs : EventKept(r) /\ MemosKept(r) /\ ReplyKept(r) /\ OutputKept(r)

IInv == Control /\ Contents
-----------------------------------------------------------------------------
(* The hooks, one after the other.                                          *)

\* transform_input and transform_output of one middleware.
In(v, mw, conf) == IF mw = "remote" THEN Loaded(v) ELSE Decrypted(v, conf)
Out(out, mw, op, conf) ==
    CASE mw = "encrypt" /\ Sealable(op) -> [out EXCEPT !.value = Encrypted(@, conf)]
      [] mw = "remote" /\ op = "run" ->
            [value |-> Ref(Len(out.store) + 1), store |-> Saves(out.store, out.value)]
      [] OTHER -> out

LEMMA Maxima == Max({1}) = 1 /\ Max({2}) = 2 /\ Max({1, 2}) = 2
<1>1. Max({1}) = 1
    BY DEF Max
<1>2. Max({2}) = 2
    BY DEF Max
<1>3. Max({1, 2}) = 2
  <2>1. \A x \in {1, 2} : (\A y \in {1, 2} : x >= y) <=> x = 2
      OBVIOUS
  <2> QED BY <2>1 DEF Max
<1> QED BY <1>1, <1>2, <1>3

LEMMA InputNone ==
    ASSUME NEW v, NEW conf, setup.order = << >>
    PROVE  Input(v, conf) = v
<1> DEFINE hook(x, mw) == IF mw = "remote" THEN Loaded(x) ELSE Decrypted(x, conf)
<1> DEFINE F(h) ==
        [s \in SUBSET DOMAIN setup.order |->
            IF s = {} THEN v
            ELSE LET x == Max(s) IN hook(h[s \ {x}], setup.order[x])]
<1> DEFINE f == CHOOSE h : h = F(h)
<1>1. DOMAIN setup.order = {}
    BY SMT
<1>2. Input(v, conf) = f[DOMAIN setup.order]
    BY DEF Input, FoldLeft, MapThenFoldSet
<1> HIDE DEF hook
<1> DEFINE g == [s \in {{}} |-> v]
<1>3. g = F(g)
    BY <1>1
<1>4. f = F(f)
    BY <1>3
<1> HIDE DEF f
<1> QED BY <1>1, <1>2, <1>4

LEMMA InputOne ==
    ASSUME NEW v, NEW conf, NEW a, setup.order = <<a>>
    PROVE  Input(v, conf) = In(v, a, conf)
<1> DEFINE hook(x, mw) == IF mw = "remote" THEN Loaded(x) ELSE Decrypted(x, conf)
<1> DEFINE F(h) ==
        [s \in SUBSET DOMAIN setup.order |->
            IF s = {} THEN v
            ELSE LET x == Max(s) IN hook(h[s \ {x}], setup.order[x])]
<1> DEFINE f == CHOOSE h : h = F(h)
<1>1. DOMAIN setup.order = {1} /\ setup.order[1] = a
    BY SMT
<1>2. Input(v, conf) = f[DOMAIN setup.order]
    BY DEF Input, FoldLeft, MapThenFoldSet
<1> HIDE DEF hook
<1> DEFINE g == [s \in SUBSET {1} |-> IF s = {} THEN v ELSE hook(v, a)]
<1>3. ASSUME NEW s \in SUBSET {1} PROVE g[s] = F(g)[s]
  <2>1. s = {} \/ s = {1}
      OBVIOUS
  <2>2. {1} \ {1} = {}
      OBVIOUS
  <2> QED BY <1>1, <2>1, <2>2, Maxima
<1>4. g = F(g)
    BY <1>1, <1>3
<1>5. f = F(f)
    BY <1>4
<1> HIDE DEF f
<1>6. f[{1}] = hook(v, a)
  <2>1. {1} \ {1} = {} /\ {1} \in SUBSET DOMAIN setup.order
      BY <1>1
  <2>2. f[{}] = v
      BY <1>5
  <2> QED BY <1>1, <1>5, <2>1, <2>2, Maxima
<1> QED BY <1>1, <1>2, <1>6 DEF hook, In

LEMMA InputTwo ==
    ASSUME NEW v, NEW conf, NEW a, NEW b, setup.order = <<a, b>>
    PROVE  Input(v, conf) = In(In(v, a, conf), b, conf)
<1> DEFINE hook(x, mw) == IF mw = "remote" THEN Loaded(x) ELSE Decrypted(x, conf)
<1> DEFINE F(h) ==
        [s \in SUBSET DOMAIN setup.order |->
            IF s = {} THEN v
            ELSE LET x == Max(s) IN hook(h[s \ {x}], setup.order[x])]
<1> DEFINE f == CHOOSE h : h = F(h)
<1>1. DOMAIN setup.order = {1, 2} /\ setup.order[1] = a /\ setup.order[2] = b
    BY SMT
<1>2. Input(v, conf) = f[DOMAIN setup.order]
    BY DEF Input, FoldLeft, MapThenFoldSet
<1> HIDE DEF hook
<1> DEFINE g ==
        [s \in SUBSET {1, 2} |->
            IF s = {} THEN v ELSE IF s = {1} THEN hook(v, a)
            ELSE IF s = {2} THEN hook(v, b) ELSE hook(hook(v, a), b)]
<1>3. ASSUME NEW s \in SUBSET {1, 2} PROVE g[s] = F(g)[s]
  <2>1. s = {} \/ s = {1} \/ s = {2} \/ s = {1, 2}
      OBVIOUS
  <2>2. {1} \ {1} = {} /\ {2} \ {2} = {} /\ {1, 2} \ {2} = {1}
      OBVIOUS
  <2> QED BY <1>1, <2>1, <2>2, Maxima
<1>4. g = F(g)
    BY <1>1, <1>3
<1>5. f = F(f)
    BY <1>4
<1> HIDE DEF f
<1>6. f[{1}] = hook(v, a)
  <2>1. {1} \ {1} = {} /\ {1} \in SUBSET DOMAIN setup.order
      BY <1>1
  <2>2. f[{}] = v
      BY <1>5
  <2>3. f[{1}] = hook(f[{1} \ {1}], setup.order[1])
      BY <1>5, <2>1, Maxima
  <2> QED BY <1>1, <2>1, <2>2, <2>3
<1>7. f[{1, 2}] = hook(hook(v, a), b)
  <2>1. {1, 2} \ {2} = {1}
      OBVIOUS
  <2>2. f[{1, 2}] = hook(f[{1, 2} \ {2}], setup.order[2])
      BY <1>1, <1>5, Maxima
  <2> QED BY <1>1, <1>6, <2>1, <2>2
<1> QED BY <1>1, <1>2, <1>7 DEF hook, In

LEMMA OutputNone ==
    ASSUME NEW v, NEW op, NEW conf, setup.order = << >>
    PROVE  Output(v, op, conf) = [value |-> v, store |-> store]
<1> DEFINE base == [value |-> v, store |-> store]
<1> DEFINE hook(out, mw) == 
        CASE mw = "encrypt" /\ Sealable(op) ->
                [out EXCEPT !.value = Encrypted(@, conf)]
          [] mw = "remote" /\ op = "run" ->
                [value |-> Ref(Len(out.store) + 1),
                 store |-> Saves(out.store, out.value)]
          [] OTHER -> out
<1> DEFINE F(h) ==
        [s \in SUBSET DOMAIN Undone(setup.order) |->
            IF s = {} THEN base
            ELSE LET x == Max(s) IN hook(h[s \ {x}], Undone(setup.order)[x])]
<1> DEFINE f == CHOOSE h : h = F(h)
<1>1. DOMAIN Undone(setup.order) = {}
    BY SMT DEF Undone, Reverse
<1>2. Output(v, op, conf) = f[DOMAIN Undone(setup.order)]
    BY DEF Output, FoldLeft, MapThenFoldSet
<1> HIDE DEF hook
<1> DEFINE g == [s \in {{}} |-> base]
<1>3. g = F(g)
    BY <1>1
<1>4. f = F(f)
    BY <1>3
<1> HIDE DEF f
<1> QED BY <1>1, <1>2, <1>4

LEMMA OutputOne ==
    ASSUME NEW v, NEW op, NEW conf, NEW a, setup.order = <<a>>
    PROVE  Output(v, op, conf) = Out([value |-> v, store |-> store], a, op, conf)
<1> DEFINE base == [value |-> v, store |-> store]
<1> DEFINE hook(out, mw) == 
        CASE mw = "encrypt" /\ Sealable(op) ->
                [out EXCEPT !.value = Encrypted(@, conf)]
          [] mw = "remote" /\ op = "run" ->
                [value |-> Ref(Len(out.store) + 1),
                 store |-> Saves(out.store, out.value)]
          [] OTHER -> out
<1> DEFINE F(h) ==
        [s \in SUBSET DOMAIN Undone(setup.order) |->
            IF s = {} THEN base
            ELSE LET x == Max(s) IN hook(h[s \ {x}], Undone(setup.order)[x])]
<1> DEFINE f == CHOOSE h : h = F(h)
<1>1. DOMAIN Undone(setup.order) = {1} /\ Undone(setup.order)[1] = a
    BY SMT DEF Undone, Reverse
<1>2. Output(v, op, conf) = f[DOMAIN Undone(setup.order)]
    BY DEF Output, FoldLeft, MapThenFoldSet
<1> HIDE DEF hook
<1> DEFINE g == [s \in SUBSET {1} |-> IF s = {} THEN base ELSE hook(base, a)]
<1>3. ASSUME NEW s \in SUBSET {1} PROVE g[s] = F(g)[s]
  <2>1. s = {} \/ s = {1}
      OBVIOUS
  <2>2. {1} \ {1} = {}
      OBVIOUS
  <2> QED BY <1>1, <2>1, <2>2, Maxima
<1>4. g = F(g)
    BY <1>1, <1>3
<1>5. f = F(f)
    BY <1>4
<1> HIDE DEF f
<1>6. f[{1}] = hook(base, a)
  <2>1. {1} \ {1} = {} /\ {1} \in SUBSET DOMAIN Undone(setup.order)
      BY <1>1
  <2>2. f[{}] = base
      BY <1>5
  <2> QED BY <1>1, <1>5, <2>1, <2>2, Maxima
<1> QED BY <1>1, <1>2, <1>6 DEF hook, Out

LEMMA OutputTwo ==
    ASSUME NEW v, NEW op, NEW conf, NEW a, NEW b, setup.order = <<b, a>>
    PROVE  Output(v, op, conf) = Out(Out([value |-> v, store |-> store], a, op, conf), b, op, conf)
<1> DEFINE base == [value |-> v, store |-> store]
<1> DEFINE hook(out, mw) == 
        CASE mw = "encrypt" /\ Sealable(op) ->
                [out EXCEPT !.value = Encrypted(@, conf)]
          [] mw = "remote" /\ op = "run" ->
                [value |-> Ref(Len(out.store) + 1),
                 store |-> Saves(out.store, out.value)]
          [] OTHER -> out
<1> DEFINE F(h) ==
        [s \in SUBSET DOMAIN Undone(setup.order) |->
            IF s = {} THEN base
            ELSE LET x == Max(s) IN hook(h[s \ {x}], Undone(setup.order)[x])]
<1> DEFINE f == CHOOSE h : h = F(h)
<1>1. DOMAIN Undone(setup.order) = {1, 2} /\ Undone(setup.order)[1] = a /\ Undone(setup.order)[2] = b
    BY SMT DEF Undone, Reverse
<1>2. Output(v, op, conf) = f[DOMAIN Undone(setup.order)]
    BY DEF Output, FoldLeft, MapThenFoldSet
<1> HIDE DEF hook
<1> DEFINE g ==
        [s \in SUBSET {1, 2} |->
            IF s = {} THEN base ELSE IF s = {1} THEN hook(base, a)
            ELSE IF s = {2} THEN hook(base, b) ELSE hook(hook(base, a), b)]
<1>3. ASSUME NEW s \in SUBSET {1, 2} PROVE g[s] = F(g)[s]
  <2>1. s = {} \/ s = {1} \/ s = {2} \/ s = {1, 2}
      OBVIOUS
  <2>2. {1} \ {1} = {} /\ {2} \ {2} = {} /\ {1, 2} \ {2} = {1}
      OBVIOUS
  <2> QED BY <1>1, <2>1, <2>2, Maxima
<1>4. g = F(g)
    BY <1>1, <1>3
<1>5. f = F(f)
    BY <1>4
<1> HIDE DEF f
<1>6. f[{1}] = hook(base, a)
  <2>1. {1} \ {1} = {} /\ {1} \in SUBSET DOMAIN Undone(setup.order)
      BY <1>1
  <2>2. f[{}] = base
      BY <1>5
  <2>3. f[{1}] = hook(f[{1} \ {1}], Undone(setup.order)[1])
      BY <1>5, <2>1, Maxima
  <2> QED BY <1>1, <2>1, <2>2, <2>3
<1>7. f[{1, 2}] = hook(hook(base, a), b)
  <2>1. {1, 2} \ {2} = {1}
      OBVIOUS
  <2>2. f[{1, 2}] = hook(f[{1, 2} \ {2}], Undone(setup.order)[2])
      BY <1>1, <1>5, Maxima
  <2> QED BY <1>1, <1>6, <2>1, <2>2
<1> QED BY <1>1, <1>2, <1>7 DEF hook, Out

-----------------------------------------------------------------------------
(* Keys and values.                                                         *)

LEMMA SetupTyped ==
    ASSUME Control
    PROVE  /\ Rollout \in Seq(Deployment) /\ Len(Rollout) > 0
           /\ stage \in 1 .. Len(Rollout) /\ Top \in 1 .. Len(Rollout) /\ stage <= Top
           /\ setup.order \in {<< >>, <<"encrypt">>, <<"remote">>, <<"remote", "encrypt">>,
                               <<"encrypt", "remote">>}
           /\ \A i \in 1 .. Len(Rollout) :
                 Rollout[i].keys # << >> => "encrypt" \in Range(setup.order)
<1>1. /\ Rollout \in Seq(Deployment) /\ Rollout # << >>
      /\ setup.order \in {<< >>, <<"encrypt">>, <<"remote">>, <<"remote", "encrypt">>,
                          <<"encrypt", "remote">>}
      /\ \A i \in DOMAIN Rollout :
            Rollout[i].keys # << >> => "encrypt" \in Range(setup.order)
    BY SetupsAssumption DEF Control, Deployment, Rollout
<1>2. DOMAIN Rollout = 1 .. Len(Rollout) /\ Len(Rollout) \in Nat /\ Len(Rollout) > 0
    BY <1>1
<1> QED BY <1>1, <1>2 DEF Control, Top

LEMMA WritesKeys ==
    ASSUME NEW conf \in Deployment
    PROVE  /\ Writes(conf) \subseteq Keys
           /\ Encrypts(conf) => conf.keys # << >> /\ Head(conf.keys) \in Writes(conf)
           /\ conf.keys = << >> => Writes(conf) = {}
<1>1. conf.keys \in Seq(Keys) /\ (conf.keys # << >> => Head(conf.keys) \in Keys)
    BY DEF Deployment
<1> QED BY <1>1 DEF Writes, Encrypts

LEMMA SealersKeys ==
    ASSUME Control
    PROVE  /\ Sealers \subseteq Keys /\ None \notin Sealers
           /\ \A i \in 1 .. Top : Writes(Rollout[i]) \subseteq Sealers
           /\ "encrypt" \notin Range(setup.order) => Sealers = {}
<1>1. \A i \in 1 .. Top : Rollout[i] \in Deployment /\ i \in 1 .. Len(Rollout)
    BY SetupTyped
<1>2. \A i \in 1 .. Top : Writes(Rollout[i]) \subseteq Keys
    BY <1>1, WritesKeys
<1>3. \A i \in 1 .. Top : "encrypt" \notin Range(setup.order) => Writes(Rollout[i]) = {}
    BY <1>1, SetupTyped, WritesKeys
<1> QED BY <1>2, <1>3, KeysAssumption DEF Sealers

\* A staged redeployment reads whatever was encrypted.
LEMMA Legible ==
    ASSUME Control, Staged, NEW s \in Stages, NEW k \in Sealers
    PROVE  k \in Readable(Rollout[s])
<1>1. PICK i \in 1 .. Top : k \in Writes(Rollout[i])
    BY DEF Sealers
<1>2. s \in 1 .. Len(Rollout) /\ i \in 1 .. Len(Rollout) /\ (i <= s \/ i = s + 1)
    BY SetupTyped DEF Stages, Top, Control
<1>3. DOMAIN Rollout = 1 .. Len(Rollout) /\ Len(Rollout) \in Nat
    BY SetupTyped
<1>4. CASE i <= s
    BY <1>1, <1>2, <1>3, <1>4 DEF Staged, Covering, Readable
<1>5. CASE i = s + 1
    BY <1>1, <1>2, <1>3, <1>5 DEF Staged, Readable
<1> QED BY <1>2, <1>4, <1>5

\* Any redeployment that keeps the old keys, except on workers about to be
\* replaced.
LEMMA LegibleToNew ==
    ASSUME Control, Covering, NEW s \in Stages, NEW k \in Sealers,
           ~rolling \/ s # stage
    PROVE  k \in Readable(Rollout[s])
<1>1. PICK i \in 1 .. Top : k \in Writes(Rollout[i])
    BY DEF Sealers
<1>2. s \in 1 .. Len(Rollout) /\ i \in 1 .. s
    BY SetupTyped DEF Stages, Top, Control
<1>3. DOMAIN Rollout = 1 .. Len(Rollout)
    BY SetupTyped
<1> QED BY <1>1, <1>2, <1>3 DEF Covering, Readable

LEMMA DecryptedIs ==
    ASSUME NEW v \in Values, NEW conf \in Deployment,
           v.key = None \/ v.key \in Readable(conf)
    PROVE  Decrypted(v, conf) = Plain(v.body)
<1>1. v = [body |-> v.body, key |-> v.key]
    BY DEF Values
<1>2. CASE v.key = None
    BY <1>1, <1>2 DEF Decrypted, Plain
<1>3. CASE v.key # None
  <2>1. conf.keys # << >>
      BY <1>3 DEF Readable, Range
  <2>2. [v EXCEPT !.key = None] = [body |-> v.body, key |-> None]
      BY <1>1
  <2> QED BY <1>3, <2>1, <2>2 DEF Decrypted, Plain
<1> QED BY <1>2, <1>3

LEMMA EncryptedIs ==
    ASSUME NEW v \in Values, v.key = None, NEW conf \in Deployment
    PROVE  /\ Encrypted(v, conf) \in Values
           /\ Is(Encrypted(v, conf), v.body, Writes(conf))
           /\ Encrypts(conf) => Encrypted(v, conf).key # None
<1>1. CASE Encrypts(conf)
  <2>1. Head(conf.keys) \in Keys /\ Head(conf.keys) \in Writes(conf)
      BY <1>1, WritesKeys
  <2>2. Encrypted(v, conf) = [body |-> v.body, key |-> Head(conf.keys)]
      BY <1>1 DEF Encrypted, Values
  <2> QED BY <2>1, <2>2, KeysAssumption DEF Is, Values
<1>2. CASE ~Encrypts(conf)
    BY <1>2 DEF Encrypted, Is
<1> QED BY <1>1, <1>2

LEMMA PlainTyped ==
    ASSUME NEW r \in Runs, NEW n \in Nat
    PROVE  /\ Plain(Body(r, n)) \in Values /\ Plain(Body(r, n)).key = None
           /\ Plain(Body(r, n)).body = Body(r, n)
           /\ Body(r, n)[1] # "object"
           /\ Plain(Body(r, n)) # Failure /\ Plain(Body(r, n)) # NoValue
BY DEF Plain, Body, Runs, Values, Tags, Failure, NoValue

LEMMA LoadedIs ==
    ASSUME NEW v
    PROVE  /\ v.body[1] # "object" => Loaded(v) = v
           /\ v.key # None => Loaded(v) = v
           /\ \A n \in Nat : v.key = None /\ v.body = <<"object", n>> => Loaded(v) = store[n]
BY DEF Loaded, IsRef

\* transform_input gives back what transform_output was given.
LEMMA InputIs ==
    ASSUME Control, NEW conf \in Deployment, NEW r \in Runs, NEW n \in Nat, NEW op,
           NEW v \in Values, Held(v, op, Body(r, n), Sealers, store, setup.order),
           \A k \in Sealers : k \in Readable(conf)
    PROVE  Input(v, conf) = Plain(Body(r, n))
<1> DEFINE body == Body(r, n)
<1>1. body[1] # "object" /\ Plain(body).body = body /\ Plain(body).key = None
    BY PlainTyped
<1>2. setup.order \in {<< >>, <<"encrypt">>, <<"remote">>, <<"remote", "encrypt">>,
                       <<"encrypt", "remote">>}
    BY SetupTyped
<1>3. "encrypt" \notin Range(setup.order) => Sealers = {}
    BY SealersKeys
<1>4. ASSUME NEW w \in Values, Is(w, body, Sealers)
      PROVE  /\ Decrypted(w, conf) = Plain(body) /\ Loaded(w) = w
             /\ Sealers = {} => w = Plain(body)
  <2>1. Decrypted(w, conf) = Plain(body)
      BY <1>4, DecryptedIs DEF Is
  <2>2. Loaded(w) = w
      BY <1>1, <1>4, LoadedIs DEF Is
  <2>3. Sealers = {} => w = Plain(body)
      BY <1>4 DEF Is, Values, Plain
  <2> QED BY <2>1, <2>2, <2>3
<1> HIDE DEF body
<1>5. Loaded(Plain(body)) = Plain(body)
    BY <1>1, LoadedIs
<1>6. CASE Is(v, body, Sealers)
  <2>1. CASE setup.order = << >>
    <3>1. Sealers = {}
        BY <1>3, <2>1 DEF Range
    <3> QED BY <1>4, <1>6, <2>1, <3>1, InputNone DEF body
  <2>2. CASE setup.order = <<"encrypt">>
      BY <1>4, <1>6, <2>2, InputOne DEF In, body
  <2>3. CASE setup.order = <<"remote">>
    <3>1. Sealers = {}
        BY <1>3, <2>3 DEF Range
    <3> QED BY <1>4, <1>6, <2>3, <3>1, InputOne DEF In, body
  <2>4. CASE setup.order = <<"remote", "encrypt">>
      BY <1>4, <1>6, <2>4, InputTwo DEF In, body
  <2>5. CASE setup.order = <<"encrypt", "remote">>
      BY <1>4, <1>5, <1>6, <2>5, InputTwo DEF In, body
  <2> QED BY <1>2, <2>1, <2>2, <2>3, <2>4, <2>5
<1>7. CASE "remote" \in Range(setup.order) /\ Stored(v, body, Sealers, store, setup.order)
  <2>1. PICK i \in DOMAIN store :
          /\ Is(v, <<"object", i>>, Sealers) /\ Is(store[i], body, Sealers)
          /\ setup.order[1] = "remote" => v.key = None
          /\ setup.order[1] # "remote" => store[i].key = None
      BY <1>7 DEF Stored
  <2>2. i \in Nat /\ store[i] \in Values
      BY DEF Control
  <2>3. v.key = None => Loaded(v) = store[i]
      BY <2>1, <2>2, LoadedIs DEF Is
  <2>4. CASE setup.order = <<"remote">>
    <3>1. Sealers = {} /\ v.key = None
        BY <1>3, <2>1, <2>4 DEF Range
    <3>2. store[i] = Plain(body)
        BY <1>4, <2>1, <2>2, <3>1 DEF body
    <3> QED BY <2>3, <2>4, <3>1, <3>2, InputOne DEF In, body
  <2>5. CASE setup.order = <<"remote", "encrypt">>
    <3>1. v.key = None
        BY <2>1, <2>5
    <3>2. Decrypted(store[i], conf) = Plain(body)
        BY <1>4, <2>1, <2>2 DEF body
    <3> QED BY <2>3, <2>5, <3>1, <3>2, InputTwo DEF In, body
  <2>6. CASE setup.order = <<"encrypt", "remote">>
    <3>1. store[i].key = None
        BY <2>1, <2>6
    <3>2. store[i] = Plain(body)
        BY <2>1, <2>2, <3>1 DEF Is, Values, Plain
    <3>3. Decrypted(v, conf) = Plain(<<"object", i>>)
        BY <2>1, DecryptedIs DEF Is
    <3>4. Loaded(Plain(<<"object", i>>)) = store[i]
        BY <2>2, LoadedIs DEF Plain
    <3> QED BY <2>6, <3>2, <3>3, <3>4, InputTwo DEF In, body
  <2>7. CASE setup.order \in {<< >>, <<"encrypt">>}
      BY <1>7, <2>7 DEF Range
  <2> QED BY <1>2, <2>4, <2>5, <2>6, <2>7
<1> QED BY <1>6, <1>7 DEF Held, body

\* Neither plain text nor something that only looks like it.
Opaque(v) == v.key # None \/ v.body[1] = "object"

LEMMA OutEncrypts ==
    ASSUME NEW value, NEW objects, NEW op, NEW conf
    PROVE  Out([value |-> value, store |-> objects], "encrypt", op, conf) =
               [value |-> IF Sealable(op) THEN Encrypted(value, conf) ELSE value,
                store |-> objects]
<1> DEFINE out == [value |-> value, store |-> objects]
<1>1. CASE Sealable(op)
  <2>1. Out(out, "encrypt", op, conf) = [out EXCEPT !.value = Encrypted(@, conf)]
      BY <1>1 DEF Out
  <2>2. [out EXCEPT !.value = Encrypted(@, conf)] =
            [value |-> Encrypted(value, conf), store |-> objects]
      OBVIOUS
  <2> QED BY <1>1, <2>1, <2>2
<1>2. CASE ~Sealable(op)
    BY <1>2 DEF Out
<1> QED BY <1>1, <1>2

LEMMA OutStores ==
    ASSUME NEW value, NEW objects, NEW op, NEW conf
    PROVE  Out([value |-> value, store |-> objects], "remote", op, conf) =
               [value |-> IF op = "run" THEN Ref(Len(objects) + 1) ELSE value,
                store |-> IF op = "run" THEN Append(objects, value) ELSE objects]
<1>1. CASE op = "run"
    BY <1>1 DEF Out, Saves
<1>2. CASE op # "run"
    BY <1>2 DEF Out
<1> QED BY <1>1, <1>2

\* What transform_output makes of a value, and of the remote store.
LEMMA OutputIs ==
    ASSUME Control, NEW s \in 1 .. Top, NEW r \in Runs, NEW n \in Nat, NEW op \in Ops,
           NEW conf, conf = Rollout[s], NEW out, out = Output(Plain(Body(r, n)), op, conf)
    PROVE  /\ out.value \in Values /\ out.store \in Seq(Values)
           /\ Len(store) <= Len(out.store)
           /\ \A i \in 1 .. Len(store) : out.store[i] = store[i]
           /\ Held(out.value, op, Body(r, n), Sealers, out.store, setup.order)
           /\ Encrypts(conf) =>
                /\ op = "run" => Opaque(out.value)
                /\ op = "return" => out.value.key # None
<1> DEFINE body == Body(r, n)
           p == Plain(body)
           e == Encrypted(p, conf)
<1>1. p \in Values /\ p.key = None /\ p.body = body /\ Is(p, body, Sealers)
    BY PlainTyped DEF Is
<1>2. conf \in Deployment /\ Writes(conf) \subseteq Sealers
      /\ (conf.keys # << >> => "encrypt" \in Range(setup.order))
    BY SetupTyped, SealersKeys
<1>3. e \in Values /\ Is(e, body, Sealers) /\ (Encrypts(conf) => e.key # None)
    BY <1>1, <1>2, EncryptedIs DEF Is
<1>4. setup.order \in {<< >>, <<"encrypt">>, <<"remote">>, <<"remote", "encrypt">>,
                       <<"encrypt", "remote">>}
    BY SetupTyped
<1>5. store \in Seq(Values) /\ Len(store) \in Nat
    BY DEF Control
<1> DEFINE ref == Ref(Len(store) + 1)
<1>6. ref \in Values /\ ref.key = None /\ ref.body = <<"object", Len(store) + 1>>
    BY <1>5 DEF Ref, Plain, Values, Tags
<1>7. ASSUME NEW w \in Values
      PROVE  /\ Append(store, w) \in Seq(Values) /\ Len(Append(store, w)) = Len(store) + 1
             /\ \A i \in 1 .. Len(store) : Append(store, w)[i] = store[i]
             /\ Append(store, w)[Len(store) + 1] = w
             /\ Len(store) + 1 \in DOMAIN Append(store, w)
    BY <1>5
<1>8. Encrypts(conf) => conf.keys # << >>
    BY DEF Encrypts
<1>9. out = Output(p, op, conf)
    OBVIOUS
<1>10. Sealable(op) <=> op \in {"run", "return", "invoke"}
    BY DEF Sealable
<1> HIDE DEF body, p, e, ref
<1>11. ASSUME "remote" \notin Range(setup.order) \/ op # "run",
              out.store = store, out.value = e \/ out.value = p,
              Encrypts(conf) /\ op \in {"run", "return"} => out.value = e
       PROVE  /\ out.value \in Values /\ out.store \in Seq(Values)
              /\ Len(store) <= Len(out.store)
              /\ \A i \in 1 .. Len(store) : out.store[i] = store[i]
              /\ Held(out.value, op, body, Sealers, out.store, setup.order)
              /\ Encrypts(conf) =>
                   /\ op = "run" => Opaque(out.value)
                   /\ op = "return" => out.value.key # None
    BY <1>1, <1>3, <1>5, <1>11 DEF Held, Opaque
<1>12. ASSUME NEW v, NEW w, v \in Values, w \in Values,
              "remote" \in Range(setup.order), op = "run",
              out.store = Append(store, w), out.value = v,
              v.body = ref.body, v.key \in Sealers \cup {None}, Is(w, body, Sealers),
              setup.order[1] = "remote" => v.key = None,
              setup.order[1] # "remote" => w.key = None
       PROVE  /\ out.value \in Values /\ out.store \in Seq(Values)
              /\ Len(store) <= Len(out.store)
              /\ \A i \in 1 .. Len(store) : out.store[i] = store[i]
              /\ Held(out.value, op, body, Sealers, out.store, setup.order)
              /\ Encrypts(conf) =>
                   /\ op = "run" => Opaque(out.value)
                   /\ op = "return" => out.value.key # None
  <2>1. Stored(v, body, Sealers, out.store, setup.order)
    <3>1. Len(store) + 1 \in DOMAIN out.store /\ out.store[Len(store) + 1] = w
        BY <1>7, <1>12
    <3>2. Is(v, <<"object", Len(store) + 1>>, Sealers)
        BY <1>6, <1>12 DEF Is
    <3> QED BY <1>12, <3>1, <3>2 DEF Stored
  <2>2. Opaque(v)
      BY <1>6, <1>12 DEF Opaque
  <2>3. op # "return" /\ Len(store) <= Len(out.store)
      BY <1>5, <1>7, <1>12
  <2>4. Held(out.value, op, body, Sealers, out.store, setup.order)
      BY <1>12, <2>1 DEF Held
  <2>5. out.store \in Seq(Values) /\ \A i \in 1 .. Len(store) : out.store[i] = store[i]
      BY <1>7, <1>12
  <2>6. out.value = v /\ v \in Values
      BY <1>12
  <2> QED BY <2>2, <2>3, <2>4, <2>5, <2>6
<1>13. CASE setup.order = << >>
  <2>1. "remote" \notin Range(setup.order) /\ "encrypt" \notin Range(setup.order)
      BY <1>13 DEF Range
  <2>2. out = [value |-> p, store |-> store]
      BY <1>9, <1>13, OutputNone
  <2> QED BY <1>2, <1>8, <1>11, <2>1, <2>2 DEF body
<1>14. CASE setup.order = <<"encrypt">>
  <2>1. "remote" \notin Range(setup.order)
      BY <1>14 DEF Range
  <2>2. out = Out([value |-> p, store |-> store], "encrypt", op, conf)
      BY <1>9, <1>14, OutputOne
  <2>3. out = [value |-> IF Sealable(op) THEN e ELSE p, store |-> store]
      BY <2>2, OutEncrypts DEF e
  <2> QED BY <1>10, <1>11, <2>1, <2>3 DEF body
<1>15. CASE setup.order = <<"remote">>
  <2>1. "remote" \in Range(setup.order) /\ "encrypt" \notin Range(setup.order)
        /\ setup.order[1] = "remote"
      BY <1>15 DEF Range
  <2>2. out = Out([value |-> p, store |-> store], "remote", op, conf)
      BY <1>9, <1>15, OutputOne
  <2>3. out = [value |-> IF op = "run" THEN ref ELSE p,
               store |-> IF op = "run" THEN Append(store, p) ELSE store]
      BY <2>2, OutStores DEF ref
  <2>4. CASE op = "run"
      BY <1>1, <1>6, <1>12, <2>1, <2>3, <2>4 DEF body
  <2>5. CASE op # "run"
      BY <1>2, <1>8, <1>11, <2>1, <2>3, <2>5 DEF body
  <2> QED BY <2>4, <2>5
<1>16. CASE setup.order = <<"remote", "encrypt">>
  <2>1. "remote" \in Range(setup.order) /\ setup.order[1] = "remote"
      BY <1>16 DEF Range
  <2>2. out = Out(Out([value |-> p, store |-> store], "encrypt", op, conf),
                  "remote", op, conf)
      BY <1>9, <1>16, OutputTwo
  <2>3. Out([value |-> p, store |-> store], "encrypt", op, conf) =
            [value |-> IF Sealable(op) THEN e ELSE p, store |-> store]
      BY OutEncrypts DEF e
  <2>4. CASE op = "run"
    <3>1. out = [value |-> ref, store |-> Append(store, e)]
        BY <1>10, <2>2, <2>3, <2>4, OutStores DEF ref
    <3> QED BY <1>3, <1>6, <1>12, <2>1, <2>4, <3>1 DEF body
  <2>5. CASE op # "run"
    <3>1. out = [value |-> IF Sealable(op) THEN e ELSE p, store |-> store]
        BY <2>2, <2>3, <2>5, OutStores
    <3> QED BY <1>10, <1>11, <2>5, <3>1 DEF body
  <2> QED BY <2>4, <2>5
<1>17. CASE setup.order = <<"encrypt", "remote">>
  <2>1. "remote" \in Range(setup.order) /\ setup.order[1] # "remote"
      BY <1>17 DEF Range
  <2>2. out = Out(Out([value |-> p, store |-> store], "remote", op, conf),
                  "encrypt", op, conf)
      BY <1>9, <1>17, OutputTwo
  <2>3. CASE op = "run"
    <3> DEFINE sealed == Encrypted(ref, conf)
    <3>1. out = [value |-> sealed, store |-> Append(store, p)]
      <4>1. out = Out([value |-> ref, store |-> Append(store, p)], "encrypt", op, conf)
          BY <2>2, <2>3, OutStores DEF ref
      <4> QED BY <1>10, <2>3, <4>1, OutEncrypts
    <3>2. sealed \in Values /\ sealed.body = ref.body /\ sealed.key \in Sealers \cup {None}
        BY <1>2, <1>6, EncryptedIs DEF Is
    <3> HIDE DEF sealed
    <3> QED BY <1>1, <1>12, <2>1, <2>3, <3>1, <3>2 DEF body
  <2>4. CASE op # "run"
    <3>1. out = [value |-> IF Sealable(op) THEN e ELSE p, store |-> store]
      <4>1. out = Out([value |-> p, store |-> store], "encrypt", op, conf)
          BY <2>2, <2>4, OutStores
      <4> QED BY <4>1, OutEncrypts DEF e
    <3> QED BY <1>10, <1>11, <2>4, <3>1 DEF body
  <2> QED BY <2>3, <2>4
<1> QED BY <1>4, <1>13, <1>14, <1>15, <1>16, <1>17

-----------------------------------------------------------------------------
(* Steps only add.                                                          *)

\* The place of a function's invocation.
Invocation(p) == CHOOSE j \in DOMAIN p : p[j] \in {"invoke", "invokes"}

\* The programs stay, keys and objects are added.
Grows ==
    /\ setup' = setup /\ Sealers \subseteq Sealers'
    /\ store \in Seq(Values) /\ store' \in Seq(Values) /\ Len(store) <= Len(store')
    /\ \A i \in 1 .. Len(store) : store'[i] = store[i]
    /\ \A r \in Runs : runs'[r].program = runs[r].program

LEMMA Returns ==
    ASSUME NEW r, NEW i
    PROVE  Returned(r, i) =
             IF i = 0 /\ r = "child"
             THEN Plain(Body("parent", Invocation(runs["parent"].program)))
             ELSE IF i # 0 /\ runs[r].program[i] \in {"invoke", "invokes"}
             THEN Plain(Body("child", 2))
             ELSE Plain(Body(r, i))
BY DEF Returned, Invocation

LEMMA SameReturns ==
    ASSUME \A q \in Runs : runs'[q].program = runs[q].program, NEW r \in Runs, NEW i
    PROVE  Returned(r, i)' = Returned(r, i)
<1>1. /\ runs'[r].program = runs[r].program
      /\ runs'["parent"].program = runs["parent"].program
    BY DEF Runs
<1>2. Returned(r, i)' =
             IF i = 0 /\ r = "child"
             THEN Plain(Body("parent", Invocation(runs'["parent"].program)))
             ELSE IF i # 0 /\ runs'[r].program[i] \in {"invoke", "invokes"}
             THEN Plain(Body("child", 2))
             ELSE Plain(Body(r, i))
    BY DEF Returned, Invocation
<1> QED BY <1>1, <1>2, Returns

LEMMA ReturnsSame ==
    ASSUME Grows, NEW r \in Runs, NEW i
    PROVE  Returned(r, i)' = Returned(r, i)
BY SameReturns DEF Grows

LEMMA HeldStays ==
    ASSUME NEW v, NEW op, NEW body, NEW order, NEW keys, NEW more, keys \subseteq more,
           NEW objects \in Seq(Values), NEW grown \in Seq(Values),
           Len(objects) <= Len(grown), \A i \in 1 .. Len(objects) : grown[i] = objects[i],
           Held(v, op, body, keys, objects, order)
    PROVE  Held(v, op, body, more, grown, order)
<1>1. ASSUME NEW w, NEW b, Is(w, b, keys) PROVE Is(w, b, more)
    BY <1>1 DEF Is
<1>2. CASE op = "run" /\ "remote" \in Range(order)
  <2>1. PICK n \in DOMAIN objects :
            /\ Is(v, <<"object", n>>, keys) /\ Is(objects[n], body, keys)
            /\ order[1] = "remote" => v.key = None
            /\ order[1] # "remote" => objects[n].key = None
      BY <1>2 DEF Held, Stored
  <2>2. n \in DOMAIN grown /\ grown[n] = objects[n]
      BY <2>1
  <2>3. Is(v, <<"object", n>>, more) /\ Is(grown[n], body, more)
      BY <1>1, <2>1, <2>2
  <2> QED BY <1>2, <2>1, <2>2, <2>3 DEF Held, Stored
<1>3. CASE ~(op = "run" /\ "remote" \in Range(order))
    BY <1>1, <1>3 DEF Held
<1> QED BY <1>2, <1>3

LEMMA EventStays ==
    ASSUME Grows, NEW r \in Runs, EventKept(r), runs'[r].event = runs[r].event
    PROVE  EventKept(r)'
<1>1. Returned(r, 0)' = Returned(r, 0) /\ Sealers \subseteq Sealers'
    BY ReturnsSame DEF Grows
<1> QED BY <1>1 DEF EventKept, Is

LEMMA MemosStay ==
    ASSUME Grows, NEW r \in Runs, MemosKept(r), runs'[r].memos = runs[r].memos
    PROVE  MemosKept(r)'
<1> SUFFICES ASSUME NEW i \in DOMAIN runs'[r].memos
             PROVE  Held(runs'[r].memos[i], runs'[r].program[i], Returned(r, i)'.body,
                         Sealers', store', setup'.order)
    BY DEF MemosKept
<1>1. Returned(r, i)' = Returned(r, i) /\ runs'[r].program = runs[r].program
    BY ReturnsSame DEF Grows
<1>2. Held(runs[r].memos[i], runs[r].program[i], Returned(r, i).body, Sealers, store,
           setup.order)
    BY DEF MemosKept
<1>3. Held(runs[r].memos[i], runs[r].program[i], Returned(r, i).body, Sealers', store',
           setup.order)
    BY <1>2, HeldStays DEF Grows
<1> QED BY <1>1, <1>3 DEF Grows

LEMMA ReplyStays ==
    ASSUME Grows, NEW r \in Runs, ReplyKept(r), runs'[r].memos = runs[r].memos,
           runs'[r].request.reply \in {runs[r].request.reply, NoValue}
    PROVE  ReplyKept(r)'
<1> SUFFICES ASSUME runs'[r].request.reply # NoValue
             PROVE  Held(runs'[r].request.reply, Op(r)', Body(r, Next_(r)'), Sealers',
                         store', setup'.order)
    BY DEF ReplyKept
<1>1. Next_(r)' = Next_(r) /\ Op(r)' = Op(r)
    BY DEF Next_, Op, Grows
<1>2. Held(runs[r].request.reply, Op(r), Body(r, Next_(r)), Sealers, store, setup.order)
    BY DEF ReplyKept
<1>3. Held(runs[r].request.reply, Op(r), Body(r, Next_(r)), Sealers', store', setup.order)
    BY <1>2, HeldStays DEF Grows
<1> QED BY <1>1, <1>3 DEF Grows

LEMMA OutputStays ==
    ASSUME Grows, NEW r \in Runs, OutputKept(r), runs'[r].output = runs[r].output
    PROVE  OutputKept(r)'
BY DEF OutputKept, Grows, Ended, Is

\* A run that a step does not touch.
LEMMA RunStays ==
    ASSUME Grows, Control, Top <= Top', NEW r \in Runs,
           EventKept(r), MemosKept(r), ReplyKept(r), OutputKept(r), runs'[r] = runs[r],
           Top' \in Nat
    PROVE  RunControl(r)' /\ EventKept(r)' /\ MemosKept(r)' /\ ReplyKept(r)' /\ OutputKept(r)'
<1>1. EventKept(r)' /\ MemosKept(r)' /\ ReplyKept(r)' /\ OutputKept(r)'
    BY EventStays, MemosStay, ReplyStays, OutputStays
<1>2. RunControl(r) /\ Top \in Nat
    BY SetupTyped DEF Control
<1> QED BY <1>1, <1>2 DEF RunControl, Idle, Op, Next_

LEMMA SameDeployments ==
    ASSUME setup' = setup, stage' = stage, rolling' = rolling
    PROVE  Sealers' = Sealers /\ Top' = Top /\ Rollout' = Rollout /\ Stages' = Stages
BY DEF Sealers, Top, Rollout, Stages

-----------------------------------------------------------------------------
(* The steps.                                                               *)

LEMMA RunFacts ==
    ASSUME Control, NEW r \in Runs
    PROVE  /\ runs[r] \in RunType /\ runs[r].request \in RequestType
           /\ RunControl(r) /\ Program(runs[r].program)
           /\ Next_(r) \in Nat /\ Next_(r) \in 1 .. Len(runs[r].program)
           /\ Len(runs[r].memos) \in Nat /\ Next_(r) = Len(runs[r].memos) + 1
           /\ Op(r) = runs[r].program[Next_(r)] /\ Op(r) \in Ops
           /\ Op(r) = "return" <=> Next_(r) = Len(runs[r].program)
<1>1. runs[r] \in RunType /\ RunControl(r) /\ Program(runs[r].program)
    BY DEF Control, RunControl
<1>2. /\ runs[r].program \in Seq(Ops) /\ Len(runs[r].program) \in Nat
      /\ Len(runs[r].memos) \in Nat /\ runs[r].request \in RequestType
    BY <1>1 DEF RunType
<1>3. Next_(r) \in 1 .. Len(runs[r].program) /\ Next_(r) \in Nat
    BY <1>1, <1>2 DEF Next_, RunControl
<1> QED BY <1>1, <1>2, <1>3 DEF Op, Next_, Program

LEMMA NoValueTyped == NoValue \in Values /\ NoRequest \in RequestType /\ Failure \in Values
BY DEF NoValue, NoRequest, RequestType, Plain, Values, Tags, Failure

LEMMA InitIInv == Init => IInv
<1> SUFFICES ASSUME Init PROVE IInv
    OBVIOUS
<1>1. setup \in Setups /\ stage \in DOMAIN Rollout /\ rolling = FALSE /\ stage = 1
  <2>1. setup.rollout \in Seq(Deployment) \ {<< >>}
      BY SetupsAssumption DEF Init, Deployment
  <2> QED BY <2>1 DEF Init, Rollout
<1>2. PICK program \in Programs :
          runs = [r \in Runs |->
                    [program |-> IF r = "parent" THEN program
                                 ELSE <<"run", "return">>,
                     event |-> NoValue, memos |-> << >>, pending |-> FALSE,
                     request |-> NoRequest, seen |-> << >>, output |-> NoValue]]
    BY DEF Init
<1>3. Program(program)
    BY ProgramsAssumption DEF Program, Invokes
<1>4. Program(<<"run", "return">>)
    BY DEF Program, Invokes, Ops
<1>5. runs \in [Runs -> RunType]
    BY <1>2, <1>3, <1>4, NoValueTyped DEF RunType, Program
<1>6. \A r \in Runs : RunControl(r)
  <2> SUFFICES ASSUME NEW r \in Runs PROVE RunControl(r)
      OBVIOUS
  <2>1. Program(runs[r].program) /\ (r = "child" => runs[r].program = <<"run", "return">>)
      BY <1>2, <1>3, <1>4 DEF Runs
  <2>2. runs[r].memos = << >> /\ runs[r].request = NoRequest /\ runs[r].pending = FALSE
      BY <1>2
  <2>3. Len(runs[r].program) \in Nat /\ Len(runs[r].program) > 0
      BY <2>1 DEF Program
  <2>4. 0 \in 0 .. Top /\ NoRequest.stage = 0
      BY <1>1 DEF Top, NoRequest
  <2> QED BY <2>1, <2>2, <2>3, <2>4 DEF RunControl, Idle
<1>7. Control
  <2>1. faults \in 0 .. MaxFaults
      BY FaultsAssumption DEF Init
  <2>2. store \in Seq(Values)
      BY DEF Init
  <2>3. rolling \in BOOLEAN /\ (rolling => stage < Len(Rollout))
      BY <1>1
  <2> QED BY <1>1, <1>5, <1>6, <2>1, <2>2, <2>3 DEF Control
<1>8. Contents
    BY <1>2 DEF Contents, EventKept, MemosKept, ReplyKept, OutputKept, NoRequest, Ended
<1> QED BY <1>7, <1>8 DEF IInv

\* Sent events are theirs.
LEMMA SentIs ==
    ASSUME Control, NEW r \in Runs, NEW n \in Nat, NEW event \in SentEvent(Body(r, n))
    PROVE  event \in Values /\ Is(event, Body(r, n), Sealers) /\ event # NoValue
<1>1. Plain(Body(r, n)) \in Values /\ Plain(Body(r, n)).key = None
      /\ Plain(Body(r, n)).body = Body(r, n)
    BY PlainTyped
<1>2. Body(r, n) # NoValue.body
    BY DEF Body, NoValue, Plain, Runs
<1>3. CASE event = Plain(Body(r, n))
    BY <1>1, <1>2, <1>3 DEF Is
<1>4. ASSUME NEW s \in Stages, event = Encrypted(Plain(Body(r, n)), Rollout[s])
      PROVE  event \in Values /\ Is(event, Body(r, n), Sealers) /\ event # NoValue
  <2>1. s \in 1 .. Top
      BY SetupTyped DEF Stages, Top, Control
  <2>2. Rollout[s] \in Deployment /\ Writes(Rollout[s]) \subseteq Sealers
      BY <2>1, SetupTyped, SealersKeys
  <2>3. event \in Values /\ Is(event, Body(r, n), Writes(Rollout[s]))
      BY <1>1, <1>4, <2>2, EncryptedIs
  <2> QED BY <1>2, <2>2, <2>3 DEF Is
<1> QED BY <1>3, <1>4 DEF SentEvent

\* A step of one run: the others stay.
LEMMA OneRun ==
    ASSUME IInv, Grows, Top <= Top', Top' \in Nat, setup' \in Setups,
           stage' \in DOMAIN Rollout', rolling' \in BOOLEAN,
           rolling' => stage' < Len(Rollout'), faults' \in 0 .. MaxFaults,
           runs' \in [Runs -> RunType], NEW r \in Runs,
           \A q \in Runs : q # r => runs'[q] = runs[q],
           RunControl(r)', EventKept(r)', MemosKept(r)', ReplyKept(r)', OutputKept(r)'
    PROVE  IInv'
<1>1. ASSUME NEW q \in Runs, q # r
      PROVE  RunControl(q)' /\ EventKept(q)' /\ MemosKept(q)' /\ ReplyKept(q)'
             /\ OutputKept(q)'
    BY <1>1, RunStays DEF IInv, Contents
<1>2. \A q \in Runs : RunControl(q)' /\ EventKept(q)' /\ MemosKept(q)' /\ ReplyKept(q)'
                      /\ OutputKept(q)'
    BY <1>1
<1> QED BY <1>2 DEF IInv, Control, Contents, Grows

LEMMA TriggerIInv ==
    ASSUME IInv, Trigger
    PROVE  IInv'
<1>1. PICK event \in SentEvent(Body("parent", 0)) :
          runs' = [runs EXCEPT !["parent"].event = event]
    BY DEF Trigger
<1>2. event \in Values /\ Is(event, Body("parent", 0), Sealers)
    BY SentIs DEF IInv, Runs
<1>3. UNCHANGED <<setup, stage, rolling, store, faults>>
    BY DEF Trigger
<1>4. Control /\ "parent" \in Runs /\ runs \in [Runs -> RunType]
    BY DEF IInv, Control, Runs
<1>5. runs["parent"] \in RunType
    BY <1>4
<1>6. /\ runs' \in [Runs -> RunType]
      /\ \A q \in Runs : q # "parent" => runs'[q] = runs[q]
      /\ runs'["parent"] = [runs["parent"] EXCEPT !.event = event]
    BY <1>1, <1>2, <1>4 DEF RunType
<1>7. /\ runs'["parent"].program = runs["parent"].program
      /\ runs'["parent"].memos = runs["parent"].memos
      /\ runs'["parent"].pending = runs["parent"].pending
      /\ runs'["parent"].request = runs["parent"].request
      /\ runs'["parent"].output = runs["parent"].output
      /\ runs'["parent"].event = event
    BY <1>5, <1>6 DEF RunType
<1>8. Sealers' = Sealers /\ Top' = Top /\ Rollout' = Rollout
    BY <1>3, SameDeployments
<1>9. Grows
  <2>1. \A q \in Runs : runs'[q].program = runs[q].program
      BY <1>6, <1>7
  <2>2. store \in Seq(Values) /\ store' = store
      BY <1>3, <1>4 DEF Control
  <2> QED BY <1>3, <1>8, <2>1, <2>2 DEF Grows
<1>10. MemosKept("parent")' /\ ReplyKept("parent")' /\ OutputKept("parent")'
    BY <1>4, <1>7, <1>9, MemosStay, ReplyStays, OutputStays DEF IInv, Contents
<1>11. EventKept("parent")'
  <2>1. Returned("parent", 0)' = Returned("parent", 0)
      BY <1>4, <1>9, ReturnsSame
  <2>2. Returned("parent", 0).body = Body("parent", 0)
      BY Returns DEF Plain
  <2> QED BY <1>2, <1>7, <1>8, <2>1, <2>2 DEF EventKept
<1>12. RunControl("parent")'
  <2>1. RunControl("parent")
      BY <1>4 DEF Control
  <2> QED BY <1>7, <1>8, <2>1 DEF RunControl, Idle, Op, Next_
<1>13. Top \in Nat /\ Top <= Top'
    BY <1>4, <1>8, SetupTyped
<1> QED BY <1>3, <1>4, <1>6, <1>8, <1>9, <1>10, <1>11, <1>12, <1>13, OneRun DEF IInv, Control

\* A step of one run that leaves the deployments alone.
LEMMA Quiet ==
    ASSUME IInv, NEW r \in Runs, UNCHANGED <<setup, stage, rolling>>,
           store' \in Seq(Values), Len(store) <= Len(store'),
           \A i \in 1 .. Len(store) : store'[i] = store[i],
           runs' = [runs EXCEPT ![r] = runs'[r]], runs'[r] \in RunType,
           runs'[r].program = runs[r].program
    PROVE  /\ Grows /\ Sealers' = Sealers /\ Top' = Top /\ Top \in Nat
           /\ runs' \in [Runs -> RunType]
           /\ \A q \in Runs : q # r => runs'[q] = runs[q]
<1>1. Control /\ runs \in [Runs -> RunType]
    BY DEF IInv, Control
<1>2. /\ runs' \in [Runs -> RunType]
      /\ \A q \in Runs : q # r => runs'[q] = runs[q]
    BY <1>1
<1>3. Sealers' = Sealers /\ Top' = Top /\ Top \in Nat
    BY <1>1, SameDeployments, SetupTyped
<1>4. \A q \in Runs : runs'[q].program = runs[q].program
    BY <1>2
<1>5. store \in Seq(Values)
    BY <1>1 DEF Control
<1>6. Grows
    BY <1>3, <1>4, <1>5 DEF Grows
<1> QED BY <1>2, <1>3, <1>6

\* Such a step keeps the invariant when the run it changes keeps it.
LEMMA QuietIInv ==
    ASSUME IInv, NEW r \in Runs, UNCHANGED <<setup, stage, rolling>>,
           store' \in Seq(Values), Len(store) <= Len(store'),
           \A i \in 1 .. Len(store) : store'[i] = store[i],
           runs' = [runs EXCEPT ![r] = runs'[r]], runs'[r] \in RunType,
           runs'[r].program = runs[r].program, faults' \in 0 .. MaxFaults,
           RunControl(r)', EventKept(r)', MemosKept(r)', ReplyKept(r)', OutputKept(r)'
    PROVE  IInv'
<1>1. /\ Grows /\ Top' = Top /\ Top \in Nat
      /\ runs' \in [Runs -> RunType]
      /\ \A q \in Runs : q # r => runs'[q] = runs[q]
    BY Quiet
<1>2. /\ setup' \in Setups /\ stage' \in DOMAIN Rollout' /\ rolling' \in BOOLEAN
      /\ rolling' => stage' < Len(Rollout')
  <2>1. Rollout' = Rollout
      BY DEF Rollout
  <2> QED BY <2>1 DEF IInv, Control
<1>3. Top <= Top' /\ Top' \in Nat
    BY <1>1
<1> HIDE DEF Grows, IInv, Top, RunType, RunControl, EventKept, MemosKept, ReplyKept, OutputKept
<1> QED BY <1>1, <1>2, <1>3, OneRun

\* A request is answered or given up: SaveFails, Lost.
LEMMA GivenUp ==
    ASSUME IInv, NEW r \in Runs, SaveFails(r) \/ Lost(r)
    PROVE  IInv'
<1>1. Control /\ RunControl(r) /\ runs[r] \in RunType /\ runs \in [Runs -> RunType]
    BY RunFacts DEF IInv, Control
<1>2. /\ UNCHANGED <<setup, stage, rolling, store>> /\ faults' = faults + 1
      /\ faults < MaxFaults /\ runs' = [runs EXCEPT ![r].request = NoRequest]
    BY DEF SaveFails, Lost
<1>3. /\ runs' = [runs EXCEPT ![r] = runs'[r]] /\ runs'[r] \in RunType
      /\ runs'[r].program = runs[r].program /\ runs'[r].memos = runs[r].memos
      /\ runs'[r].event = runs[r].event /\ runs'[r].output = runs[r].output
      /\ runs'[r].pending = runs[r].pending /\ runs'[r].request = NoRequest
    BY <1>1, <1>2, NoValueTyped DEF RunType
<1>4. faults' \in 0 .. MaxFaults
    BY <1>1, <1>2, FaultsAssumption DEF Control
<1>5. store' \in Seq(Values) /\ Len(store) <= Len(store')
      /\ \A i \in 1 .. Len(store) : store'[i] = store[i]
    BY <1>1, <1>2 DEF Control
<1>6. Grows /\ Top' = Top /\ Top \in Nat
    BY <1>2, <1>3, <1>5, Quiet
<1>7. EventKept(r)' /\ MemosKept(r)' /\ OutputKept(r)'
    BY <1>3, <1>6, EventStays, MemosStay, OutputStays DEF IInv, Contents
<1>8. ReplyKept(r)'
    BY <1>3 DEF ReplyKept, NoRequest
<1>9. RunControl(r)'
  <2>1. NoRequest.stage = 0
      BY DEF NoRequest
  <2> QED BY <1>1, <1>3, <1>6, <2>1 DEF RunControl, Idle, Op, Next_
<1> QED BY <1>2, <1>3, <1>4, <1>5, <1>7, <1>8, <1>9, QuietIInv

\* The worker reports an operation.
LEMMA ReplyIInv ==
    ASSUME IInv, NEW r \in Runs, Reply(r)
    PROVE  IInv'
<1>1. Control /\ RunControl(r) /\ runs[r] \in RunType /\ runs \in [Runs -> RunType]
      /\ Op(r) \in Ops /\ Next_(r) \in Nat /\ runs[r].request \in RequestType
    BY RunFacts DEF IInv, Control
<1> DEFINE s == runs[r].request.stage
           conf == Rollout[s]
           out == Output(Plain(Body(r, Next_(r))), Op(r), conf)
<1>2. /\ UNCHANGED <<setup, stage, rolling, faults>> /\ ~Idle(r)
      /\ runs' = [runs EXCEPT ![r].request.reply = out.value] /\ store' = out.store
    BY DEF Reply
<1>3. s \in 1 .. Top
    BY <1>1, <1>2, SetupTyped DEF RunControl
<1>4. /\ out.value \in Values /\ out.store \in Seq(Values)
      /\ Len(store) <= Len(out.store)
      /\ \A i \in 1 .. Len(store) : out.store[i] = store[i]
      /\ Held(out.value, Op(r), Body(r, Next_(r)), Sealers, out.store, setup.order)
  <2> HIDE DEF s
  <2> QED BY <1>1, <1>3, OutputIs
<1> HIDE DEF out
<1>5. /\ runs' = [runs EXCEPT ![r] = runs'[r]] /\ runs'[r] \in RunType
      /\ runs'[r].program = runs[r].program /\ runs'[r].memos = runs[r].memos
      /\ runs'[r].event = runs[r].event /\ runs'[r].output = runs[r].output
      /\ runs'[r].pending = runs[r].pending
      /\ runs'[r].request = [runs[r].request EXCEPT !.reply = out.value]
    BY <1>1, <1>2, <1>4 DEF RunType, RequestType
<1>6. runs'[r].request.stage = runs[r].request.stage
      /\ runs'[r].request.reply = out.value
    BY <1>1, <1>5 DEF RequestType
<1>7. faults' \in 0 .. MaxFaults
    BY <1>1, <1>2 DEF Control
<1>8. Grows /\ Top' = Top /\ Sealers' = Sealers
    BY <1>2, <1>4, <1>5, Quiet
<1>9. EventKept(r)' /\ MemosKept(r)' /\ OutputKept(r)'
    BY <1>5, <1>8, EventStays, MemosStay, OutputStays DEF IInv, Contents
<1>10. Op(r)' = Op(r) /\ Next_(r)' = Next_(r)
    BY <1>5 DEF Op, Next_
<1>11. ReplyKept(r)'
    BY <1>2, <1>4, <1>6, <1>8, <1>10 DEF ReplyKept
<1>12. RunControl(r)'
  <2>1. runs[r].request.stage # 0 /\ ~runs[r].pending
      BY <1>1, <1>2, <1>3 DEF RunControl
  <2> QED BY <1>1, <1>5, <1>6, <1>8, <2>1 DEF RunControl
<1> QED BY <1>2, <1>4, <1>5, <1>7, <1>9, <1>11, <1>12, QuietIInv

-----------------------------------------------------------------------------
(* What a request shows the function.                                       *)

LEMMA DecryptedTyped ==
    ASSUME NEW v \in Values, NEW conf \in Deployment
    PROVE  /\ Decrypted(v, conf) \in Values
           /\ Decrypted(v, conf) \in {v, Plain(v.body), Failure}
           /\ Decrypted(v, conf).key = None => Decrypted(v, conf) \in {Plain(v.body), Failure}
<1>1. Plain(v.body) \in Values /\ v = [body |-> v.body, key |-> v.key]
    BY DEF Plain, Values
<1>2. v.key = None => v = Plain(v.body)
    BY <1>1 DEF Plain
<1>3. CASE v.key = None \/ v.key \in Readable(conf)
    BY <1>1, <1>3, DecryptedIs
<1>4. CASE v.key # None /\ v.key \notin Readable(conf)
    BY <1>1, <1>4, NoValueTyped DEF Decrypted
<1> QED BY <1>3, <1>4

LEMMA InputTyped ==
    ASSUME Control, NEW conf \in Deployment, NEW r \in Runs, NEW n \in Nat, NEW op,
           NEW v \in Values, Held(v, op, Body(r, n), Sealers, store, setup.order)
    PROVE  Input(v, conf) \in Values
<1> DEFINE body == Body(r, n)
<1>1. body[1] # "object" /\ Failure.body[1] # "object" /\ Failure \in Values
    BY PlainTyped, NoValueTyped DEF Failure, Plain
<1>2. setup.order \in {<< >>, <<"encrypt">>, <<"remote">>, <<"remote", "encrypt">>,
                       <<"encrypt", "remote">>}
    BY SetupTyped
<1> HIDE DEF body
<1>3. ASSUME NEW w \in Values, w.body[1] # "object" \/ w.key # None
      PROVE  Loaded(w) = w
    BY <1>3, LoadedIs
<1>4. ASSUME NEW w \in Values, w.body = body
      PROVE  /\ Loaded(w) = w /\ Decrypted(w, conf) \in Values
             /\ Loaded(Decrypted(w, conf)) \in Values
  <2>1. /\ Decrypted(w, conf) \in Values
        /\ Decrypted(w, conf) \in {w, Plain(w.body), Failure}
      BY DecryptedTyped
  <2>2. Decrypted(w, conf).body[1] # "object" /\ w.body[1] # "object"
      BY <1>1, <1>4, <2>1 DEF Plain
  <2> QED BY <1>3, <2>1, <2>2
<1>5. CASE Is(v, body, Sealers)
  <2>1. /\ Loaded(v) = v /\ Decrypted(v, conf) \in Values
        /\ Loaded(Decrypted(v, conf)) \in Values
      BY <1>4, <1>5 DEF Is
  <2>2. CASE setup.order = << >>
      BY <2>2, InputNone
  <2>3. CASE setup.order = <<"encrypt">>
      BY <2>1, <2>3, InputOne DEF In
  <2>4. CASE setup.order = <<"remote">>
      BY <2>1, <2>4, InputOne DEF In
  <2>5. CASE setup.order = <<"remote", "encrypt">>
      BY <2>1, <2>5, InputTwo DEF In
  <2>6. CASE setup.order = <<"encrypt", "remote">>
      BY <2>1, <2>6, InputTwo DEF In
  <2> QED BY <1>2, <2>2, <2>3, <2>4, <2>5, <2>6
<1>6. CASE "remote" \in Range(setup.order) /\ Stored(v, body, Sealers, store, setup.order)
  <2>1. PICK i \in DOMAIN store :
          /\ Is(v, <<"object", i>>, Sealers) /\ Is(store[i], body, Sealers)
          /\ setup.order[1] = "remote" => v.key = None
          /\ setup.order[1] # "remote" => store[i].key = None
      BY <1>6 DEF Stored
  <2>2. i \in Nat /\ store[i] \in Values /\ v.body = <<"object", i>>
      BY <2>1 DEF Control, Is
  <2>3. \A w \in Values : w.key = None /\ w.body = <<"object", i>> => Loaded(w) = store[i]
      BY <2>2, LoadedIs
  <2>4. CASE setup.order = <<"remote">>
      BY <2>1, <2>2, <2>3, <2>4, InputOne DEF In
  <2>5. CASE setup.order = <<"remote", "encrypt">>
    <3>1. Decrypted(store[i], conf) \in Values
        BY <2>2, DecryptedTyped
    <3> QED BY <2>1, <2>2, <2>3, <2>5, <3>1, InputTwo DEF In
  <2>6. CASE setup.order = <<"encrypt", "remote">>
    <3> DEFINE w == Decrypted(v, conf)
    <3>1. /\ w \in Values /\ (w.key = None => w \in {Plain(v.body), Failure})
        BY DecryptedTyped
    <3> HIDE DEF w
    <3>2. w.key # None => Loaded(w) = w
        BY <1>3, <3>1
    <3>3. w = Failure => Loaded(w) = w
        BY <1>1, <1>3
    <3>4. w = Plain(v.body) => Loaded(w) = store[i]
        BY <2>2, <2>3, <3>1 DEF Plain
    <3>5. Loaded(w) \in Values
        BY <2>2, <3>1, <3>2, <3>3, <3>4
    <3> QED BY <2>6, <3>5, InputTwo DEF In, w
  <2>7. CASE setup.order \in {<< >>, <<"encrypt">>}
      BY <1>6, <2>7 DEF Range
  <2> QED BY <1>2, <2>4, <2>5, <2>6, <2>7
<1> QED BY <1>5, <1>6 DEF Held, body

LEMMA SeenIs ==
    ASSUME Control, NEW r \in Runs, NEW s
    PROVE  /\ Len(Seen(r, s)) = Len(runs[r].memos) + 1
           /\ DOMAIN Seen(r, s) = 1 .. Len(runs[r].memos) + 1
           /\ Seen(r, s)[1] = Decrypted(runs[r].event, Rollout[s])
           /\ \A i \in 1 .. Len(runs[r].memos) :
                 Seen(r, s)[i + 1] = IF runs[r].program[i] = "wait" THEN runs[r].memos[i]
                                     ELSE Input(runs[r].memos[i], Rollout[s])
<1> DEFINE conf == Rollout[s]
           n == Len(runs[r].memos)
           memo(i) == IF runs[r].program[i] = "wait" THEN runs[r].memos[i]
                      ELSE Input(runs[r].memos[i], conf)
           rest == [i \in 1 .. n |-> memo(i)]
<1>1. n \in Nat /\ DOMAIN runs[r].memos = 1 .. n
    BY RunFacts DEF RunType
<1>2. Seen(r, s) = <<Decrypted(runs[r].event, conf)>> \o rest
    BY <1>1 DEF Seen
<1> HIDE DEF memo, n
<1>3. rest \in Seq({memo(i) : i \in 1 .. n}) /\ Len(rest) = n
    BY <1>1
<1>4. /\ Len(Seen(r, s)) = n + 1 /\ DOMAIN Seen(r, s) = 1 .. n + 1
      /\ Seen(r, s)[1] = Decrypted(runs[r].event, conf)
      /\ \A i \in 1 .. n : Seen(r, s)[i + 1] = memo(i)
  <2> DEFINE first == <<Decrypted(runs[r].event, conf)>>
  <2>1. Len(first) = 1 /\ first[1] = Decrypted(runs[r].event, conf)
      OBVIOUS
  <2>2. /\ Len(first \o rest) = n + 1 /\ DOMAIN (first \o rest) = 1 .. n + 1
        /\ (first \o rest)[1] = first[1]
        /\ \A i \in 1 .. n : (first \o rest)[i + 1] = rest[i]
      BY <1>1, <1>3, <2>1
  <2> QED BY <1>2, <2>1, <2>2
<1> QED BY <1>4 DEF memo, n

\* Every memo was returned by an operation of a run.
LEMMA MemoHeld ==
    ASSUME Control, Contents, NEW r \in Runs, NEW i \in 1 .. Len(runs[r].memos)
    PROVE  /\ runs[r].memos[i] \in Values
           /\ \E q \in Runs, n \in Nat :
                 /\ Returned(r, i) = Plain(Body(q, n))
                 /\ Held(runs[r].memos[i], runs[r].program[i], Body(q, n), Sealers, store,
                         setup.order)
<1>1. runs[r].memos \in Seq(Values) /\ Len(runs[r].memos) \in Nat
    BY RunFacts DEF RunType
<1>2. i \in DOMAIN runs[r].memos /\ i \in Nat /\ i # 0
    BY <1>1
<1>3. \E q \in Runs, n \in Nat : Returned(r, i) = Plain(Body(q, n))
    BY <1>2, Returns DEF Runs
<1>4. Held(runs[r].memos[i], runs[r].program[i], Returned(r, i).body, Sealers, store,
           setup.order)
    BY <1>2 DEF Contents, MemosKept
<1> QED BY <1>1, <1>2, <1>3, <1>4 DEF Plain

LEMMA SeenTyped ==
    ASSUME Control, Contents, NEW r \in Runs, NEW s \in 1 .. Len(Rollout)
    PROVE  Seen(r, s) \in Seq(Values)
<1>1. Rollout[s] \in Deployment
    BY SetupTyped
<1>2. runs[r].event \in Values /\ Len(runs[r].memos) \in Nat
    BY RunFacts DEF RunType
<1>3. Decrypted(runs[r].event, Rollout[s]) \in Values
    BY <1>1, <1>2, DecryptedTyped
<1>4. ASSUME NEW i \in 1 .. Len(runs[r].memos) PROVE Seen(r, s)[i + 1] \in Values
  <2>1. PICK q \in Runs, n \in Nat :
            Held(runs[r].memos[i], runs[r].program[i], Body(q, n), Sealers, store,
                 setup.order)
      BY MemoHeld
  <2>2. runs[r].memos[i] \in Values
      BY MemoHeld
  <2>3. Input(runs[r].memos[i], Rollout[s]) \in Values
      BY <1>1, <2>1, <2>2, InputTyped
  <2> QED BY <2>2, <2>3, SeenIs
<1>5. \A i \in 1 .. Len(runs[r].memos) + 1 : Seen(r, s)[i] \in Values
  <2> SUFFICES ASSUME NEW i \in 1 .. Len(runs[r].memos) + 1
               PROVE  Seen(r, s)[i] \in Values
      OBVIOUS
  <2>1. CASE i = 1
      BY <1>3, <2>1, SeenIs
  <2>2. CASE i # 1
    <3>1. i - 1 \in 1 .. Len(runs[r].memos) /\ (i - 1) + 1 = i
        BY <1>2, <2>2
    <3> QED BY <1>4, <3>1
  <2> QED BY <2>1, <2>2
<1>6. \E S : Seen(r, s) \in Seq(S)
  <2> DEFINE n == Len(runs[r].memos)
             memo(i) == IF runs[r].program[i] = "wait" THEN runs[r].memos[i]
                        ELSE Input(runs[r].memos[i], Rollout[s])
             first == Decrypted(runs[r].event, Rollout[s])
             S == {first} \cup {memo(i) : i \in 1 .. n}
  <2>1. DOMAIN runs[r].memos = 1 .. n
      BY RunFacts DEF RunType
  <2>2. Seen(r, s) = <<first>> \o [i \in 1 .. n |-> memo(i)]
      BY <2>1 DEF Seen
  <2> HIDE DEF memo, first
  <2>3. <<first>> \in Seq(S) /\ [i \in 1 .. n |-> memo(i)] \in Seq(S)
      BY <1>2
  <2> HIDE DEF S, n
  <2>4. Seen(r, s) \in Seq(S)
      BY <2>2, <2>3
  <2> QED BY <2>4
<1> QED BY <1>2, <1>5, <1>6, SeenIs

LEMMA RequestIInv ==
    ASSUME IInv, NEW r \in Runs, NEW s, Request(r, s)
    PROVE  IInv'
<1>1. Control /\ Contents /\ RunControl(r) /\ runs[r] \in RunType
      /\ runs \in [Runs -> RunType]
    BY RunFacts DEF IInv, Control
<1>2. /\ UNCHANGED <<setup, stage, rolling, store, faults>> /\ s \in Stages
      /\ ~runs[r].pending
      /\ runs' = [runs EXCEPT
            ![r].seen = Seen(r, s),
            ![r].request = IF Failure \in Range(Seen(r, s)) THEN NoRequest
                           ELSE [NoRequest EXCEPT !.stage = s]]
    BY DEF Request, Requested
<1>3. s \in 1 .. Top /\ s \in 1 .. Len(Rollout) /\ s \in Nat
    BY <1>1, <1>2, SetupTyped DEF Stages, Top, Control
<1>4. Seen(r, s) \in Seq(Values)
    BY <1>1, <1>3, SeenTyped
<1> DEFINE request == IF Failure \in Range(Seen(r, s)) THEN NoRequest
                      ELSE [NoRequest EXCEPT !.stage = s]
<1>5. /\ request \in RequestType /\ request.reply = NoValue /\ request.stage \in 0 .. Top
      /\ request.stage = 0 => request = NoRequest
  <2>1. Top \in Nat /\ 0 \in 0 .. Top /\ s \in 0 .. Top /\ s # 0
      BY <1>1, <1>3, SetupTyped
  <2>2. [NoRequest EXCEPT !.stage = s] = [stage |-> s, reply |-> NoValue]
      BY DEF NoRequest
  <2>3. NoRequest = [stage |-> 0, reply |-> NoValue]
      BY DEF NoRequest
  <2> QED BY <1>3, <2>1, <2>2, <2>3, NoValueTyped DEF RequestType
<1>6. runs' = [runs EXCEPT ![r].seen = Seen(r, s), ![r].request = request]
    BY <1>2
<1> HIDE DEF request
<1>7. /\ runs' = [runs EXCEPT ![r] = runs'[r]] /\ runs'[r] \in RunType
      /\ runs'[r].program = runs[r].program /\ runs'[r].memos = runs[r].memos
      /\ runs'[r].event = runs[r].event /\ runs'[r].output = runs[r].output
      /\ runs'[r].pending = runs[r].pending /\ runs'[r].request = request
    BY <1>1, <1>4, <1>5, <1>6 DEF RunType
<1>8. faults' \in 0 .. MaxFaults
    BY <1>1, <1>2 DEF Control
<1>9. store' \in Seq(Values) /\ Len(store) <= Len(store')
      /\ \A i \in 1 .. Len(store) : store'[i] = store[i]
    BY <1>1, <1>2 DEF Control
<1>10. Grows /\ Top' = Top
    BY <1>2, <1>7, <1>9, Quiet
<1>11. EventKept(r)' /\ MemosKept(r)' /\ OutputKept(r)'
    BY <1>7, <1>10, EventStays, MemosStay, OutputStays DEF IInv, Contents
<1>12. ReplyKept(r)'
    BY <1>5, <1>7 DEF ReplyKept
<1>13. RunControl(r)'
    BY <1>1, <1>2, <1>5, <1>7, <1>10 DEF RunControl, Idle
<1> QED BY <1>2, <1>7, <1>8, <1>9, <1>11, <1>12, <1>13, QuietIInv

-----------------------------------------------------------------------------
(* What the Executor takes.                                                 *)

LEMMA MemoAdded ==
    ASSUME Grows, IInv, NEW r \in Runs, NEW v \in Values,
           runs'[r].memos = Append(runs[r].memos, v),
           Held(v, Op(r), Returned(r, Next_(r)).body, Sealers, store, setup.order)
    PROVE  MemosKept(r)'
<1> DEFINE n == Len(runs[r].memos)
<1>1. /\ runs[r].memos \in Seq(Values) /\ n \in Nat /\ DOMAIN runs[r].memos = 1 .. n
      /\ Next_(r) = n + 1 /\ Op(r) = runs[r].program[n + 1]
    BY RunFacts DEF RunType, IInv
<1>2. runs'[r].program = runs[r].program
    BY DEF Grows
<1> SUFFICES ASSUME NEW i \in DOMAIN runs'[r].memos
             PROVE  Held(runs'[r].memos[i], runs[r].program[i], Returned(r, i)'.body,
                         Sealers', store', setup'.order)
    BY <1>2 DEF MemosKept
<1>3. Returned(r, i)' = Returned(r, i)
    BY ReturnsSame
<1>4. i \in 1 .. n \/ i = n + 1
    BY <1>1
<1>5. Held(runs'[r].memos[i], runs[r].program[i], Returned(r, i).body, Sealers, store,
           setup.order)
  <2>1. CASE i \in 1 .. n
    <3>1. runs'[r].memos[i] = runs[r].memos[i]
        BY <1>1, <2>1
    <3> QED BY <1>1, <2>1, <3>1 DEF IInv, Contents, MemosKept
  <2>2. CASE i = n + 1
    <3>1. runs'[r].memos[i] = v
        BY <1>1, <2>2
    <3> QED BY <1>1, <2>2, <3>1
  <2> QED BY <1>4, <2>1, <2>2
<1>6. Held(runs'[r].memos[i], runs[r].program[i], Returned(r, i).body, Sealers', store',
           setup.order)
    BY <1>5, HeldStays DEF Grows
<1> QED BY <1>3, <1>6 DEF Grows

\* What the Executor may do with a reply, and what it then says.
LEMMA ReplyFacts ==
    ASSUME IInv, NEW r \in Runs, runs[r].request.reply # NoValue
    PROVE  /\ runs[r].request.reply \in Values /\ ~runs[r].pending
           /\ Held(runs[r].request.reply, Op(r), Body(r, Next_(r)), Sealers, store,
                   setup.order)
           /\ r = "child" => Op(r) \in {"run", "return"}
           /\ Op(r) # "return" => Next_(r) < Len(runs[r].program)
<1>1. Control /\ RunControl(r) /\ runs[r] \in RunType /\ runs[r].request \in RequestType
      /\ Next_(r) \in 1 .. Len(runs[r].program)
      /\ Op(r) = runs[r].program[Next_(r)]
      /\ (Op(r) = "return" <=> Next_(r) = Len(runs[r].program))
    BY RunFacts DEF IInv
<1>2. runs[r].request.reply \in Values
    BY <1>1 DEF RequestType
<1>3. ~runs[r].pending
    BY <1>1 DEF RunControl, Idle, NoRequest
<1>4. Held(runs[r].request.reply, Op(r), Body(r, Next_(r)), Sealers, store, setup.order)
    BY DEF IInv, Contents, ReplyKept
<1>5. r = "child" => Op(r) \in {"run", "return"}
    BY <1>1 DEF RunControl
<1>6. Op(r) # "return" => Next_(r) < Len(runs[r].program)
  <2>1. Len(runs[r].program) \in Nat
      BY <1>1 DEF RunType
  <2> QED BY <1>1, <2>1
<1> QED BY <1>2, <1>3, <1>4, <1>5, <1>6

LEMMA DeliveredIInv ==
    ASSUME IInv, NEW r \in Runs, Delivered(r)
    PROVE  IInv'
<1> DEFINE reply == runs[r].request.reply
           taken == [runs EXCEPT ![r].request = NoRequest]
<1>1. Control /\ RunControl(r) /\ runs[r] \in RunType /\ runs \in [Runs -> RunType]
      /\ Op(r) \in Ops /\ Next_(r) \in Nat /\ Next_(r) \in 1 .. Len(runs[r].program)
      /\ Next_(r) = Len(runs[r].memos) + 1 /\ Len(runs[r].memos) \in Nat
      /\ (Op(r) = "return" <=> Next_(r) = Len(runs[r].program))
    BY RunFacts DEF IInv, Control
<1>2. /\ reply # NoValue /\ UNCHANGED <<setup, stage, rolling, store, faults>>
    BY DEF Delivered
<1>3. /\ reply \in Values /\ ~runs[r].pending
      /\ Held(reply, Op(r), Body(r, Next_(r)), Sealers, store, setup.order)
      /\ r = "child" => Op(r) \in {"run", "return"}
      /\ Op(r) # "return" => Next_(r) < Len(runs[r].program)
    BY <1>2, ReplyFacts
<1>4. NoRequest.stage = 0 /\ NoRequest.reply = NoValue /\ NoRequest \in RequestType
    BY NoValueTyped DEF NoRequest
<1>5. faults' \in 0 .. MaxFaults
    BY <1>1, <1>2 DEF Control
<1>6. store' \in Seq(Values) /\ Len(store) <= Len(store')
      /\ \A i \in 1 .. Len(store) : store'[i] = store[i]
    BY <1>1, <1>2 DEF Control
<1>7. Top \in Nat /\ 0 \in 0 .. Top
    BY <1>1, SetupTyped
<1>8. EventKept(r) /\ MemosKept(r) /\ ReplyKept(r) /\ OutputKept(r)
    BY DEF IInv, Contents
<1> HIDE DEF reply
<1>9. CASE Op(r) = "run"
  <2>1. runs' = [taken EXCEPT ![r].memos = Append(@, reply)]
      BY <1>9 DEF Delivered, reply
  <2>2. /\ runs' = [runs EXCEPT ![r] = runs'[r]] /\ runs'[r] \in RunType
        /\ runs'[r].program = runs[r].program /\ runs'[r].event = runs[r].event
        /\ runs'[r].memos = Append(runs[r].memos, reply)
        /\ runs'[r].output = runs[r].output
        /\ runs'[r].pending = runs[r].pending /\ runs'[r].request = NoRequest
    <3> DEFINE memos == Append(runs[r].memos, reply)
    <3>1. memos \in Seq(Values)
        BY <1>1, <1>3 DEF RunType
    <3>2. runs' = [runs EXCEPT ![r].request = NoRequest, ![r].memos = memos]
        BY <1>1, <2>1
    <3> HIDE DEF memos
    <3>3. /\ runs' = [runs EXCEPT ![r] = runs'[r]] /\ runs'[r] \in RunType
          /\ runs'[r].program = runs[r].program /\ runs'[r].event = runs[r].event
          /\ runs'[r].memos = memos /\ runs'[r].output = runs[r].output
          /\ runs'[r].pending = runs[r].pending /\ runs'[r].request = NoRequest
        BY <1>1, <1>4, <3>1, <3>2 DEF RunType
    <3> QED BY <3>3 DEF memos
  <2>3. Grows /\ Top' = Top
      BY <1>2, <1>6, <2>2, Quiet
  <2>4. EventKept(r)' /\ OutputKept(r)' /\ ReplyKept(r)'
      BY <1>4, <1>8, <2>2, <2>3, EventStays, OutputStays DEF ReplyKept
  <2>5. Returned(r, Next_(r)).body = Body(r, Next_(r))
      BY <1>1, <1>9, Returns DEF Plain, Op
  <2>6. MemosKept(r)'
      BY <1>3, <2>2, <2>3, <2>5, MemoAdded
  <2>7. RunControl(r)'
    <3>1. Len(runs'[r].memos) = Len(runs[r].memos) + 1
        BY <1>1, <2>2 DEF RunType
    <3> QED BY <1>1, <1>3, <1>4, <1>7, <1>9, <2>2, <2>3, <3>1 DEF RunControl, Idle
  <2> QED BY <1>2, <1>5, <1>6, <2>2, <2>4, <2>6, <2>7, QuietIInv
<1>10. CASE Op(r) = "wait"
  <2>1. runs' = [taken EXCEPT ![r].pending = TRUE]
      BY <1>10 DEF Delivered, reply
  <2>2. /\ runs' = [runs EXCEPT ![r] = runs'[r]] /\ runs'[r] \in RunType
        /\ runs'[r].program = runs[r].program /\ runs'[r].event = runs[r].event
        /\ runs'[r].memos = runs[r].memos /\ runs'[r].output = runs[r].output
        /\ runs'[r].request = NoRequest
      BY <1>1, <1>4, <2>1 DEF RunType
  <2>3. Grows /\ Top' = Top
      BY <1>2, <1>6, <2>2, Quiet
  <2>4. EventKept(r)' /\ MemosKept(r)' /\ OutputKept(r)' /\ ReplyKept(r)'
      BY <1>4, <1>8, <2>2, <2>3, EventStays, MemosStay, OutputStays DEF ReplyKept
  <2>5. RunControl(r)'
    <3>1. r = "parent" /\ Op(r)' = Op(r)
        BY <1>3, <1>10, <2>2 DEF Runs, Op, Next_
    <3> QED BY <1>1, <1>4, <1>7, <1>10, <2>2, <2>3, <3>1 DEF RunControl, Idle
  <2> QED BY <1>2, <1>5, <1>6, <2>2, <2>4, <2>5, QuietIInv
<1>11. CASE Op(r) = "return"
  <2>1. runs' = [taken EXCEPT ![r].output = reply]
      BY <1>11 DEF Delivered, reply
  <2>2. /\ runs' = [runs EXCEPT ![r] = runs'[r]] /\ runs'[r] \in RunType
        /\ runs'[r].program = runs[r].program /\ runs'[r].event = runs[r].event
        /\ runs'[r].memos = runs[r].memos /\ runs'[r].output = reply
        /\ runs'[r].pending = runs[r].pending /\ runs'[r].request = NoRequest
      BY <1>1, <1>3, <1>4, <2>1 DEF RunType
  <2>3. Grows /\ Top' = Top /\ Sealers' = Sealers
      BY <1>2, <1>6, <2>2, Quiet
  <2>4. EventKept(r)' /\ MemosKept(r)' /\ ReplyKept(r)'
      BY <1>4, <1>8, <2>2, <2>3, EventStays, MemosStay DEF ReplyKept
  <2>5. OutputKept(r)'
    <3>1. Is(reply, Body(r, Next_(r)), Sealers) /\ Next_(r) = Len(runs[r].program)
        BY <1>1, <1>3, <1>11 DEF Held
    <3> QED BY <2>2, <2>3, <3>1 DEF OutputKept
  <2>6. RunControl(r)'
      BY <1>1, <1>3, <1>4, <1>7, <2>2, <2>3 DEF RunControl, Idle
  <2> QED BY <1>2, <1>5, <1>6, <2>2, <2>4, <2>5, <2>6, QuietIInv
<1>12. CASE Op(r) \in {"invoke", "invokes"}
  <2>1. runs' = [taken EXCEPT ![r].pending = TRUE, !["child"].event = reply]
      BY <1>12 DEF Delivered, reply
  <2>2. r = "parent" /\ "child" \in Runs
      BY <1>3, <1>12 DEF Runs
  <2>3. runs["child"] \in RunType /\ RunControl("child")
      BY <1>1, <2>2 DEF Control
  <2>4. /\ runs' \in [Runs -> RunType]
        /\ runs'[r].program = runs[r].program /\ runs'[r].event = runs[r].event
        /\ runs'[r].memos = runs[r].memos /\ runs'[r].output = runs[r].output
        /\ runs'[r].request = NoRequest
      BY <1>1, <1>3, <1>4, <2>1, <2>2, ZenonT(30) DEF RunType
  <2>5. /\ runs'["child"].program = runs["child"].program
        /\ runs'["child"].memos = runs["child"].memos
        /\ runs'["child"].pending = runs["child"].pending
        /\ runs'["child"].request = runs["child"].request
        /\ runs'["child"].output = runs["child"].output
        /\ runs'["child"].event = reply
      BY <1>1, <2>1, <2>2, <2>3 DEF RunType
  <2>6. Sealers' = Sealers /\ Top' = Top /\ Rollout' = Rollout
      BY <1>2, SameDeployments
  <2>7. Grows
    <3>1. \A q \in Runs : runs'[q].program = runs[q].program
        BY <2>2, <2>4, <2>5 DEF Runs
    <3>2. store \in Seq(Values)
        BY <1>1 DEF Control
    <3> QED BY <1>2, <1>6, <2>6, <3>1, <3>2 DEF Grows
  <2>8. EventKept(r)' /\ MemosKept(r)' /\ OutputKept(r)' /\ ReplyKept(r)'
      BY <1>4, <1>8, <2>4, <2>7, EventStays, MemosStay, OutputStays DEF ReplyKept
  <2>9. RunControl(r)'
    <3>1. Op(r)' = Op(r)
        BY <2>4 DEF Op, Next_
    <3> QED BY <1>1, <1>4, <1>7, <1>12, <2>2, <2>4, <2>6, <3>1 DEF RunControl, Idle
  <2>10. MemosKept("child")' /\ ReplyKept("child")' /\ OutputKept("child")'
    <3>1. MemosKept("child") /\ ReplyKept("child") /\ OutputKept("child")
        BY <2>2 DEF IInv, Contents
    <3> QED BY <2>2, <2>5, <2>7, <3>1, MemosStay, ReplyStays, OutputStays
  <2>11. EventKept("child")'
    <3>1. Next_(r) = Invocation(runs["parent"].program)
      <4>1. /\ Next_(r) \in DOMAIN runs[r].program
            /\ runs[r].program[Next_(r)] \in {"invoke", "invokes"}
          BY <1>1, <1>12 DEF RunType, Op
      <4>2. \A j \in DOMAIN runs[r].program :
                runs[r].program[j] \in {"invoke", "invokes"} => j = Next_(r)
          BY <1>1, <4>1 DEF RunControl, Program, Invokes
      <4> QED BY <2>2, <4>1, <4>2 DEF Invocation
    <3>2. Returned("child", 0).body = Body("parent", Next_(r))
        BY <3>1, Returns DEF Plain
    <3>3. Returned("child", 0)' = Returned("child", 0)
        BY <2>2, <2>7, ReturnsSame
    <3>4. Is(reply, Body(r, Next_(r)), Sealers)
        BY <1>3, <1>12 DEF Held
    <3> QED BY <2>2, <2>5, <2>6, <3>2, <3>3, <3>4 DEF EventKept
  <2>12. RunControl("child")'
      BY <2>3, <2>5, <2>6 DEF RunControl, Idle, Op, Next_
  <2>13. \A q \in Runs : RunControl(q)' /\ EventKept(q)' /\ MemosKept(q)'
                         /\ ReplyKept(q)' /\ OutputKept(q)'
      BY <2>2, <2>8, <2>9, <2>10, <2>11, <2>12 DEF Runs
  <2>14. /\ setup' \in Setups /\ stage' \in DOMAIN Rollout' /\ rolling' \in BOOLEAN
         /\ rolling' => stage' < Len(Rollout')
      BY <1>1, <1>2, <2>6 DEF Control
  <2> QED BY <1>5, <1>6, <2>4, <2>13, <2>14 DEF IInv, Control, Contents
<1> QED BY <1>1, <1>9, <1>10, <1>11, <1>12 DEF Ops

LEMMA ContinuesIInv ==
    ASSUME IInv, Continues
    PROVE  IInv'
<1> DEFINE r == "parent"
<1>1. r \in Runs /\ "child" \in Runs
    BY DEF Runs
<1>2. Control /\ RunControl(r) /\ runs[r] \in RunType /\ runs \in [Runs -> RunType]
      /\ Next_(r) \in Nat /\ Next_(r) \in 1 .. Len(runs[r].program)
      /\ Next_(r) = Len(runs[r].memos) + 1 /\ Len(runs[r].memos) \in Nat
      /\ Op(r) = runs[r].program[Next_(r)]
      /\ (Op(r) = "return" <=> Next_(r) = Len(runs[r].program))
    BY <1>1, RunFacts DEF IInv, Control
<1>3. Idle(r) /\ Op(r) \in {"wait", "invoke", "invokes"}
    BY <1>2 DEF Continues, RunControl
<1>4. PICK v \in (IF Op(r) = "wait" THEN SentEvent(Body(r, Next_(r)))
                  ELSE {runs["child"].output} \ {NoValue}) :
          runs' = [runs EXCEPT ![r].memos = Append(@, v), ![r].pending = FALSE]
    BY DEF Continues
<1>5. UNCHANGED <<setup, stage, rolling, store, faults>>
    BY DEF Continues
<1>6. v \in Values /\ Is(v, Returned(r, Next_(r)).body, Sealers)
  <2>1. CASE Op(r) = "wait"
    <3>1. v \in Values /\ Is(v, Body(r, Next_(r)), Sealers)
        BY <1>1, <1>2, <1>4, <2>1, SentIs
    <3>2. Returned(r, Next_(r)).body = Body(r, Next_(r))
        BY <1>2, <2>1, Returns DEF Plain
    <3> QED BY <3>1, <3>2
  <2>2. CASE Op(r) # "wait"
    <3>1. v = runs["child"].output /\ v # NoValue
        BY <1>4, <2>2
    <3>2. runs["child"] \in RunType /\ Len(runs["child"].program) = 2
      <4>1. runs["child"] \in RunType /\ RunControl("child")
          BY <1>1, <1>2 DEF Control
      <4>2. runs["child"].program = <<"run", "return">>
          BY <4>1 DEF RunControl
      <4> QED BY <4>1, <4>2
    <3>3. v \in Values
        BY <3>1, <3>2 DEF RunType
    <3>4. Is(v, Body("child", 2), Sealers)
        BY <1>1, <3>1, <3>2 DEF IInv, Contents, OutputKept, Ended
    <3>5. Returned(r, Next_(r)).body = Body("child", 2)
        BY <1>2, <1>3, <2>2, Returns DEF Plain
    <3> QED BY <3>3, <3>4, <3>5
  <2> QED BY <2>1, <2>2
<1>7. Held(v, Op(r), Returned(r, Next_(r)).body, Sealers, store, setup.order)
    BY <1>3, <1>6 DEF Held
<1> HIDE DEF r
<1>8. /\ runs' = [runs EXCEPT ![r] = runs'[r]] /\ runs'[r] \in RunType
      /\ runs'[r].program = runs[r].program /\ runs'[r].event = runs[r].event
      /\ runs'[r].memos = Append(runs[r].memos, v) /\ runs'[r].output = runs[r].output
      /\ runs'[r].pending = FALSE /\ runs'[r].request = runs[r].request
  <2> DEFINE memos == Append(runs[r].memos, v)
  <2>1. memos \in Seq(Values)
      BY <1>2, <1>6 DEF RunType
  <2>2. runs' = [runs EXCEPT ![r].memos = memos, ![r].pending = FALSE]
      BY <1>1, <1>2, <1>4
  <2> HIDE DEF memos
  <2>3. /\ runs' = [runs EXCEPT ![r] = runs'[r]] /\ runs'[r] \in RunType
        /\ runs'[r].program = runs[r].program /\ runs'[r].event = runs[r].event
        /\ runs'[r].memos = memos /\ runs'[r].output = runs[r].output
        /\ runs'[r].pending = FALSE /\ runs'[r].request = runs[r].request
      BY <1>1, <1>2, <2>1, <2>2 DEF RunType
  <2> QED BY <2>3 DEF memos
<1>9. faults' \in 0 .. MaxFaults
    BY <1>2, <1>5 DEF Control
<1>10. store' \in Seq(Values) /\ Len(store) <= Len(store')
       /\ \A i \in 1 .. Len(store) : store'[i] = store[i]
    BY <1>2, <1>5 DEF Control
<1>11. Grows /\ Top' = Top
    BY <1>1, <1>5, <1>8, <1>10, Quiet
<1>12. EventKept(r)' /\ OutputKept(r)'
    BY <1>1, <1>8, <1>11, EventStays, OutputStays DEF IInv, Contents
<1>13. ReplyKept(r)'
    BY <1>3, <1>8 DEF ReplyKept, Idle, NoRequest
<1>14. MemosKept(r)'
    BY <1>1, <1>6, <1>7, <1>8, <1>11, MemoAdded
<1>15. RunControl(r)'
  <2>1. Len(runs'[r].memos) = Len(runs[r].memos) + 1
      BY <1>2, <1>8 DEF RunType
  <2>2. Len(runs[r].program) \in Nat /\ Next_(r) < Len(runs[r].program)
      BY <1>2, <1>3 DEF RunType
  <2> QED BY <1>2, <1>3, <1>8, <1>11, <2>1, <2>2 DEF RunControl, Idle
<1> QED BY <1>1, <1>5, <1>8, <1>9, <1>10, <1>12, <1>13, <1>14, <1>15, QuietIInv

\* A redeployment adds a key at most.
LEMMA DeployIInv ==
    ASSUME IInv, Deploy \/ Retire
    PROVE  IInv'
<1>1. Control /\ Len(Rollout) \in Nat /\ stage \in 1 .. Len(Rollout)
      /\ DOMAIN Rollout = 1 .. Len(Rollout)
    BY SetupTyped DEF IInv
<1>2. UNCHANGED <<setup, runs, store, faults>> /\ Rollout' = Rollout
    BY DEF Deploy, Retire, Rollout
<1>3. /\ stage' \in DOMAIN Rollout' /\ rolling' \in BOOLEAN
      /\ rolling' => stage' < Len(Rollout')
      /\ Top' \in Nat /\ Top \in Nat /\ Top <= Top'
  <2>1. rolling \in BOOLEAN /\ (rolling => stage < Len(Rollout))
      BY <1>1 DEF Control
  <2>2. CASE Deploy
    <3>1. stage' = stage /\ rolling' = TRUE /\ stage < Len(Rollout) /\ rolling = FALSE
        BY <2>1, <2>2 DEF Deploy
    <3> QED BY <1>1, <1>2, <3>1 DEF Top
  <2>3. CASE Retire
    <3>1. stage' = stage + 1 /\ ~rolling' /\ rolling' \in BOOLEAN
          /\ stage < Len(Rollout) /\ rolling
        BY <2>1, <2>3 DEF Retire
    <3>2. Top = stage + 1 /\ Top' = stage + 1
        BY <3>1 DEF Top
    <3>3. stage' \in DOMAIN Rollout'
        BY <1>1, <1>2, <3>1
    <3> QED BY <1>1, <3>1, <3>2, <3>3
  <2> QED BY <2>2, <2>3
<1>4. Sealers \subseteq Sealers'
  <2>1. Sealers' = UNION {Writes(Rollout[i]) : i \in 1 .. Top'}
      BY <1>2 DEF Sealers
  <2>2. 1 .. Top \subseteq 1 .. Top'
      BY <1>3
  <2> QED BY <2>1, <2>2 DEF Sealers
<1>5. Grows
    BY <1>1, <1>2, <1>4 DEF Grows, Control
<1>6. \A r \in Runs : RunControl(r)' /\ EventKept(r)' /\ MemosKept(r)' /\ ReplyKept(r)'
                      /\ OutputKept(r)'
    BY <1>1, <1>2, <1>3, <1>5, RunStays DEF IInv, Contents
<1> QED BY <1>1, <1>2, <1>3, <1>6 DEF IInv, Control, Contents

\* Nothing but a fault happens: LoadFails, and stuttering.
LEMMA OnlyFaults ==
    ASSUME IInv, UNCHANGED <<setup, stage, rolling, runs, store>>,
           faults' \in 0 .. MaxFaults
    PROVE  IInv'
<1>1. Sealers' = Sealers /\ Top' = Top /\ Rollout' = Rollout
    BY SameDeployments
<1>2. Grows
    BY <1>1 DEF Grows, IInv, Control
<1>3. Top \in Nat
    BY SetupTyped DEF IInv
<1>4. \A r \in Runs : RunControl(r)' /\ EventKept(r)' /\ MemosKept(r)'
                      /\ ReplyKept(r)' /\ OutputKept(r)'
    BY <1>1, <1>2, <1>3, RunStays DEF IInv, Contents
<1> QED BY <1>1, <1>4 DEF IInv, Control, Contents

-----------------------------------------------------------------------------
\* What the Executor and the remote store hold can be given back.
THEOREM Invariance == Spec => []IInv
<1>1. ASSUME IInv, [Next]_vars PROVE IInv'
  <2>1. CASE Executor
      BY <1>1, <2>1, TriggerIInv, ContinuesIInv, DeliveredIInv DEF Executor
  <2>2. CASE Deploy \/ Retire
      BY <1>1, <2>2, DeployIInv
  <2>3. ASSUME NEW r \in Runs, Worker(r) \/ Lost(r)
        PROVE  IInv'
      BY <1>1, <2>3, ReplyIInv, GivenUp DEF Worker
  <2>4. ASSUME NEW r \in Runs, NEW s \in Stages, Request(r, s)
        PROVE  IInv'
      BY <1>1, <2>4, RequestIInv
  <2>5. ASSUME UNCHANGED vars \/ \E r \in Runs : LoadFails(r)
        PROVE  IInv'
    <3>1. faults \in 0 .. MaxFaults /\ MaxFaults \in Nat
        BY <1>1, FaultsAssumption DEF IInv, Control
    <3>2. faults' \in 0 .. MaxFaults /\ UNCHANGED <<setup, stage, rolling, runs, store>>
        BY <2>5, <3>1 DEF vars, LoadFails
    <3> QED BY <1>1, <3>2, OnlyFaults
  <2> QED BY <1>1, <2>1, <2>2, <2>3, <2>4, <2>5 DEF Next
<1> QED BY InitIInv, <1>1, PTL DEF Spec

\* Types; no placeholder that the Executor keeps dangles.
THEOREM TypeCorrect == Spec => []TypeOK
<1>1. ASSUME IInv PROVE TypeOK
  <2>1. Control /\ Contents
      BY <1>1 DEF IInv
  <2>2. Len(Rollout) \in Nat /\ Top \in 1 .. Len(Rollout)
      BY <2>1, SetupTyped
  <2>3. ASSUME NEW r \in Runs
        PROVE  /\ runs[r].request.stage \in 0 .. Len(Rollout)
               /\ Len(runs[r].memos) < Len(runs[r].program)
    <3>1. RunControl(r)
        BY <2>1 DEF Control
    <3> QED BY <2>2, <3>1 DEF RunControl
  <2>4. ASSUME NEW r \in Runs,
               NEW v \in Range(runs[r].memos) \cup {runs[r].event, runs[r].output}
        PROVE  /\ v.key \in Keys \cup {None}
               /\ v.body[1] = "object" => v.body[2] \in DOMAIN store
    <3>1. runs[r] \in RunType
        BY <2>1, RunFacts
    <3>2. v \in Values
        BY <3>1 DEF RunType, Range
    <3>3. ASSUME NEW q \in Runs, NEW n, Is(v, Body(q, n), Sealers)
          PROVE  v.body[1] # "object"
        BY <3>3 DEF Is, Body, Runs
    <3>4. CASE v = runs[r].event
      <4>1. CASE v = NoValue
          BY <4>1 DEF NoValue, Plain
      <4>2. CASE v # NoValue
        <5>1. Is(v, Returned(r, 0).body, Sealers)
            BY <2>1, <3>4, <4>2 DEF Contents, EventKept
        <5>2. \E q \in Runs : \E n : Returned(r, 0).body = Body(q, n)
          <6>1. Returned(r, 0) = Plain(Body("parent", Invocation(runs["parent"].program)))
                \/ Returned(r, 0) = Plain(Body(r, 0))
              BY Returns
          <6> QED BY <6>1 DEF Plain, Runs
        <5> QED BY <3>2, <3>3, <5>1, <5>2 DEF Values
      <4> QED BY <3>2, <4>1, <4>2 DEF Values
    <3>5. CASE v = runs[r].output
      <4>1. CASE v = NoValue
          BY <4>1 DEF NoValue, Plain
      <4>2. CASE v # NoValue
        <5>1. Is(v, Body(r, Len(runs[r].program)), Sealers)
            BY <2>1, <3>5, <4>2 DEF Contents, OutputKept, Ended
        <5> QED BY <3>2, <3>3, <5>1 DEF Values
      <4> QED BY <3>2, <4>1, <4>2 DEF Values
    <3>6. CASE v \in Range(runs[r].memos)
      <4>1. PICK i \in DOMAIN runs[r].memos : v = runs[r].memos[i]
          BY <3>6 DEF Range
      <4>2. i \in 1 .. Len(runs[r].memos)
          BY <3>1, <4>1 DEF RunType
      <4>3. PICK q \in Runs, n \in Nat :
                Held(v, runs[r].program[i], Body(q, n), Sealers, store, setup.order)
          BY <2>1, <4>1, <4>2, MemoHeld
      <4>4. Is(v, Body(q, n), Sealers) \/ \E m \in DOMAIN store : Is(v, <<"object", m>>, Sealers)
          BY <4>3 DEF Held, Stored
      <4> QED BY <3>2, <3>3, <4>4 DEF Values, Is
    <3> QED BY <3>4, <3>5, <3>6
  <2> QED BY <2>1, <2>3, <2>4 DEF TypeOK, Control
<1> QED BY Invariance, <1>1, PTL

-----------------------------------------------------------------------------
(* What a function sees.                                                    *)

\* A request on a worker that can read every key in use.
LEMMA SeenRight ==
    ASSUME Control, Contents, NEW r \in Runs, NEW s \in Stages, runs[r].event # NoValue,
           \A k \in Sealers : k \in Readable(Rollout[s])
    PROVE  /\ \A i \in DOMAIN Seen(r, s) : (i > 1 => runs[r].program[i - 1] # "wait") =>
                  Seen(r, s)[i] = Returned(r, i - 1)
           /\ Failure \notin Range(Seen(r, s))
<1>1. s \in 1 .. Len(Rollout) /\ Rollout[s] \in Deployment
    BY SetupTyped DEF Stages, Top, Control
<1>2. runs[r].event \in Values /\ Len(runs[r].memos) \in Nat
    BY RunFacts DEF RunType
<1>3. Seen(r, s)[1] = Returned(r, 0) /\ Seen(r, s)[1] # Failure
  <2>1. Is(runs[r].event, Returned(r, 0).body, Sealers)
      BY DEF Contents, EventKept
  <2>2. Decrypted(runs[r].event, Rollout[s]) = Plain(Returned(r, 0).body)
      BY <1>1, <1>2, <2>1, DecryptedIs DEF Is
  <2>3. Returned(r, 0) = Plain(Body("parent", Invocation(runs["parent"].program)))
        \/ Returned(r, 0) = Plain(Body(r, 0))
      BY Returns
  <2>4. Plain(Returned(r, 0).body) = Returned(r, 0) /\ Returned(r, 0) # Failure
      BY <2>3 DEF Plain, Body, Failure, Runs
  <2> QED BY <2>2, <2>4, SeenIs
<1>4. ASSUME NEW i \in 1 .. Len(runs[r].memos)
      PROVE  /\ Seen(r, s)[i + 1] # Failure
             /\ runs[r].program[i] # "wait" => Seen(r, s)[i + 1] = Returned(r, i)
  <2>1. PICK q \in Runs, n \in Nat :
            /\ Returned(r, i) = Plain(Body(q, n))
            /\ Held(runs[r].memos[i], runs[r].program[i], Body(q, n), Sealers, store,
                    setup.order)
      BY MemoHeld
  <2>2. runs[r].memos[i] \in Values
      BY MemoHeld
  <2>3. CASE runs[r].program[i] = "wait"
    <3>1. Is(runs[r].memos[i], Body(q, n), Sealers)
        BY <2>1, <2>3 DEF Held
    <3>2. runs[r].memos[i] # Failure
        BY <3>1 DEF Is, Failure, Plain, Body, Runs
    <3> QED BY <2>3, <3>2, SeenIs
  <2>4. CASE runs[r].program[i] # "wait"
    <3>1. Input(runs[r].memos[i], Rollout[s]) = Plain(Body(q, n))
        BY <1>1, <2>1, <2>2, InputIs
    <3> QED BY <2>1, <2>4, <3>1, SeenIs, PlainTyped
  <2> QED BY <2>3, <2>4
<1>5. \A i \in 1 .. Len(runs[r].memos) + 1 :
          /\ Seen(r, s)[i] # Failure
          /\ (i > 1 => runs[r].program[i - 1] # "wait") =>
                Seen(r, s)[i] = Returned(r, i - 1)
  <2> SUFFICES ASSUME NEW i \in 1 .. Len(runs[r].memos) + 1
               PROVE  /\ Seen(r, s)[i] # Failure
                      /\ (i > 1 => runs[r].program[i - 1] # "wait") =>
                            Seen(r, s)[i] = Returned(r, i - 1)
      OBVIOUS
  <2>1. CASE i = 1
      BY <1>3, <2>1
  <2>2. CASE i > 1
    <3> DEFINE j == i - 1
    <3>1. j \in 1 .. Len(runs[r].memos) /\ j + 1 = i
        BY <1>2, <2>2
    <3> HIDE DEF j
    <3>2. /\ Seen(r, s)[j + 1] # Failure
          /\ runs[r].program[j] # "wait" => Seen(r, s)[j + 1] = Returned(r, j)
        BY <1>4, <3>1
    <3> QED BY <2>2, <3>1, <3>2 DEF j
  <2> QED BY <1>2, <2>1, <2>2
<1>6. DOMAIN Seen(r, s) = 1 .. Len(runs[r].memos) + 1
    BY SeenIs
<1> QED BY <1>5, <1>6 DEF Range

\* What one step does to a run.
LEMMA Changes ==
    ASSUME IInv, Next, NEW q \in Runs
    PROVE  /\ setup' = setup
           /\ runs'[q].program = runs[q].program
           /\ \/ runs'[q].seen = runs[q].seen
              \/ \E s \in Stages : Request(q, s) /\ runs'[q].seen = Seen(q, s)
           /\ \/ runs'[q].memos = runs[q].memos
              \/ /\ ~(runs'[q].request.reply # NoValue)
                 /\ \E v : /\ runs'[q].memos = Append(runs[q].memos, v)
                           /\ \/ Op(q) = "run" /\ runs[q].request.reply # NoValue
                                 /\ v = runs[q].request.reply
                              \/ Op(q) = "wait"
                              \/ v = runs["child"].output /\ v # NoValue
           /\ \/ runs'[q].output = runs[q].output
              \/ /\ Op(q) = "return" /\ runs[q].request.reply # NoValue
                 /\ runs'[q].output = runs[q].request.reply
           /\ \/ runs'[q].request.reply \in {runs[q].request.reply, NoValue}
              \/ Reply(q) /\ runs'[q].memos = runs[q].memos
<1>1. Control /\ runs \in [Runs -> RunType] /\ runs[q] \in RunType /\ "child" \in Runs
      /\ "parent" \in Runs /\ runs[q].request \in RequestType
    BY RunFacts DEF IInv, Control, Runs
<1>2. NoRequest.reply = NoValue
    BY DEF NoRequest
<1>3. CASE Trigger \/ Deploy \/ Retire
  <2>1. CASE Deploy \/ Retire
      BY <2>1 DEF Deploy, Retire
  <2>2. CASE Trigger
    <3>1. setup' = setup /\ \E event : runs' = [runs EXCEPT !["parent"].event = event]
        BY <2>2 DEF Trigger
    <3>2. q # "parent" => runs'[q] = runs[q]
        BY <1>1, <3>1
    <3>3. q = "parent" =>
             /\ runs'[q].program = runs[q].program /\ runs'[q].seen = runs[q].seen
             /\ runs'[q].memos = runs[q].memos /\ runs'[q].output = runs[q].output
             /\ runs'[q].request = runs[q].request
        BY <1>1, <3>1 DEF RunType
    <3> QED BY <3>1, <3>2, <3>3
  <2> QED BY <1>3, <2>1, <2>2
<1>4. CASE Continues
  <2>1. PICK v \in (IF Op("parent") = "wait" THEN SentEvent(Body("parent", Next_("parent")))
                    ELSE {runs["child"].output} \ {NoValue}) :
            runs' = [runs EXCEPT !["parent"].memos = Append(@, v), !["parent"].pending = FALSE]
      BY <1>4 DEF Continues
  <2>2. setup' = setup
      BY <1>4 DEF Continues
  <2>3. runs[q].pending => runs[q].request.reply = NoValue
      BY <1>1, <1>2, RunFacts DEF RunControl, Idle
  <2>4. CASE q = "parent"
    <3>1. runs[q].request.reply = NoValue
        BY <1>4, <2>3, <2>4 DEF Continues
    <3>2. /\ runs'[q].program = runs[q].program /\ runs'[q].seen = runs[q].seen
          /\ runs'[q].memos = Append(runs[q].memos, v)
          /\ runs'[q].output = runs[q].output /\ runs'[q].request = runs[q].request
        BY <1>1, <2>1, <2>4 DEF RunType
    <3>3. Op(q) = "wait" \/ (v = runs["child"].output /\ v # NoValue)
        BY <2>1, <2>4
    <3> QED BY <2>2, <3>1, <3>2, <3>3
  <2>5. CASE q # "parent"
      BY <1>1, <2>1, <2>2, <2>5
  <2> QED BY <2>4, <2>5
<1>5. ASSUME NEW r \in Runs, Delivered(r)
      PROVE  /\ setup' = setup
             /\ runs'[q].program = runs[q].program /\ runs'[q].seen = runs[q].seen
             /\ runs'[q].request.reply \in {runs[q].request.reply, NoValue}
             /\ \/ runs'[q].memos = runs[q].memos
                \/ /\ runs'[q].request.reply = NoValue
                   /\ runs'[q].memos = Append(runs[q].memos, runs[q].request.reply)
                   /\ Op(q) = "run" /\ runs[q].request.reply # NoValue
             /\ \/ runs'[q].output = runs[q].output
                \/ /\ Op(q) = "return" /\ runs[q].request.reply # NoValue
                   /\ runs'[q].output = runs[q].request.reply
  <2> DEFINE reply == runs[r].request.reply
             taken == [runs EXCEPT ![r].request = NoRequest]
  <2>1. reply # NoValue /\ setup' = setup /\ Op(r) \in Ops /\ runs[r] \in RunType
      BY <1>1, <1>5, RunFacts DEF Delivered
  <2>2. CASE Op(r) = "run"
    <3>1. runs' = [taken EXCEPT ![r].memos = Append(@, reply)]
        BY <1>5, <2>2 DEF Delivered
    <3>2. q # r => runs'[q] = runs[q]
        BY <1>1, <3>1
    <3>3. /\ runs'[r].program = runs[r].program /\ runs'[r].seen = runs[r].seen
          /\ runs'[r].memos = Append(runs[r].memos, reply)
          /\ runs'[r].output = runs[r].output /\ runs'[r].request = NoRequest
        BY <1>1, <2>1, <3>1 DEF RunType
    <3> QED BY <1>2, <2>1, <2>2, <3>2, <3>3
  <2>3. CASE Op(r) = "wait"
    <3>1. runs' = [taken EXCEPT ![r].pending = TRUE]
        BY <1>5, <2>3 DEF Delivered
    <3>2. q # r => runs'[q] = runs[q]
        BY <1>1, <3>1
    <3>3. /\ runs'[r].program = runs[r].program /\ runs'[r].seen = runs[r].seen
          /\ runs'[r].memos = runs[r].memos
          /\ runs'[r].output = runs[r].output /\ runs'[r].request = NoRequest
        BY <1>1, <2>1, <3>1 DEF RunType
    <3> QED BY <1>2, <2>1, <3>2, <3>3
  <2>4. CASE Op(r) = "return"
    <3>1. runs' = [taken EXCEPT ![r].output = reply]
        BY <1>5, <2>4 DEF Delivered
    <3>2. q # r => runs'[q] = runs[q]
        BY <1>1, <3>1
    <3>3. /\ runs'[r].program = runs[r].program /\ runs'[r].seen = runs[r].seen
          /\ runs'[r].memos = runs[r].memos
          /\ runs'[r].output = reply /\ runs'[r].request = NoRequest
        BY <1>1, <2>1, <3>1 DEF RunType
    <3> QED BY <1>2, <2>1, <2>4, <3>2, <3>3
  <2>5. CASE Op(r) \in {"invoke", "invokes"}
    <3>1. runs' = [taken EXCEPT ![r].pending = TRUE, !["child"].event = reply]
        BY <1>5, <2>5 DEF Delivered
    <3>2. r # "child"
        BY <1>5, <2>1, <2>5, ReplyFacts
    <3>3. /\ runs'[r].program = runs[r].program /\ runs'[r].seen = runs[r].seen
          /\ runs'[r].memos = runs[r].memos
          /\ runs'[r].output = runs[r].output /\ runs'[r].request = NoRequest
        BY <1>1, <2>1, <3>1, <3>2 DEF RunType
    <3>4. q # r => /\ runs'[q].program = runs[q].program /\ runs'[q].seen = runs[q].seen
                   /\ runs'[q].memos = runs[q].memos
                   /\ runs'[q].output = runs[q].output
                   /\ runs'[q].request = runs[q].request
        BY <1>1, <3>1, <3>2 DEF RunType
    <3> QED BY <1>2, <2>1, <3>3, <3>4
  <2> QED BY <2>1, <2>2, <2>3, <2>4, <2>5 DEF Ops
<1>6. ASSUME NEW r \in Runs, Reply(r)
      PROVE  /\ setup' = setup
             /\ runs'[q].program = runs[q].program /\ runs'[q].seen = runs[q].seen
             /\ runs'[q].memos = runs[q].memos /\ runs'[q].output = runs[q].output
             /\ q # r => runs'[q].request = runs[q].request
    BY <1>1, <1>6 DEF Reply, RunType
<1>7. ASSUME NEW r \in Runs, SaveFails(r) \/ Lost(r)
      PROVE  /\ setup' = setup
             /\ runs'[q].program = runs[q].program /\ runs'[q].seen = runs[q].seen
             /\ runs'[q].memos = runs[q].memos /\ runs'[q].output = runs[q].output
             /\ runs'[q].request \in {runs[q].request, NoRequest}
  <2>1. setup' = setup /\ runs' = [runs EXCEPT ![r].request = NoRequest]
      BY <1>7 DEF SaveFails, Lost
  <2>2. CASE q = r
      BY <1>1, <2>1, <2>2 DEF RunType
  <2>3. CASE q # r
      BY <1>1, <2>1, <2>3
  <2> QED BY <2>2, <2>3
<1>8. ASSUME NEW r \in Runs, NEW s \in Stages, Request(r, s)
      PROVE  /\ setup' = setup
             /\ runs'[q].program = runs[q].program
             /\ runs'[q].seen = runs[q].seen \/ (q = r /\ runs'[q].seen = Seen(q, s))
             /\ runs'[q].memos = runs[q].memos /\ runs'[q].output = runs[q].output
             /\ runs'[q].request.reply \in {runs[q].request.reply, NoValue}
  <2> DEFINE request == IF Failure \in Range(Seen(r, s)) THEN NoRequest
                        ELSE [NoRequest EXCEPT !.stage = s]
  <2>1. request.reply = NoValue
      BY DEF NoRequest
  <2>2. /\ setup' = setup
        /\ runs' = [runs EXCEPT ![r].seen = Seen(r, s), ![r].request = request]
      BY <1>8 DEF Request
  <2> HIDE DEF request
  <2>3. CASE q = r
    <3>1. /\ runs'[q].program = runs[q].program /\ runs'[q].seen = Seen(q, s)
          /\ runs'[q].memos = runs[q].memos /\ runs'[q].output = runs[q].output
          /\ runs'[q].request = request
        BY <1>1, <2>2, <2>3 DEF RunType
    <3> QED BY <2>1, <2>2, <2>3, <3>1
  <2>4. CASE q # r
      BY <1>1, <2>2, <2>4
  <2> QED BY <2>3, <2>4
<1>12. CASE \E r \in Runs : LoadFails(r)
    BY <1>12 DEF LoadFails
<1> HIDE DEF IInv
<1>9. CASE \E r \in Runs : Delivered(r)
    BY <1>5, <1>9
<1>10. CASE \E r \in Runs : Worker(r) \/ Lost(r)
    BY <1>2, <1>6, <1>7, <1>10 DEF Worker
<1>11. CASE \E r \in Runs : \E s \in Stages : Request(r, s)
    BY <1>8, <1>11
<1> QED BY <1>3, <1>4, <1>9, <1>10, <1>11, <1>12 DEF Next, Executor

\* transform_input after transform_output, over a staged redeployment.
THEOREM SeesRight == Spec => []SeesWhatWasReturned
<1>1. Init => SeesWhatWasReturned
    BY DEF Init, SeesWhatWasReturned
<1>2. ASSUME IInv, SeesWhatWasReturned, [Next]_vars PROVE SeesWhatWasReturned'
  <2>1. CASE UNCHANGED vars
    <3>1. \A r \in Runs : \A i : Returned(r, i)' = Returned(r, i)
        BY <2>1, SameReturns DEF vars
    <3>2. Staged' = Staged
        BY <2>1 DEF vars, Staged, Covering, Rollout
    <3> QED BY <1>2, <2>1, <3>1, <3>2 DEF vars, SeesWhatWasReturned
  <2>2. CASE Next
    <3>1. setup' = setup /\ \A q \in Runs : runs'[q].program = runs[q].program
        BY <1>2, <2>2, Changes DEF Runs
    <3>2. \A r \in Runs : \A i : Returned(r, i)' = Returned(r, i)
        BY <3>1, SameReturns
    <3>3. Staged' = Staged
        BY <3>1 DEF Staged, Covering, Rollout
    <3>4. SUFFICES ASSUME NEW r \in Runs, Staged
                   PROVE  \A i \in DOMAIN runs'[r].seen :
                             (i > 1 => runs[r].program[i - 1] # "wait") =>
                                runs'[r].seen[i] = Returned(r, i - 1)
        BY <3>1, <3>2, <3>3 DEF SeesWhatWasReturned
    <3>5. CASE runs'[r].seen = runs[r].seen
        BY <1>2, <3>4, <3>5 DEF SeesWhatWasReturned
    <3>6. ASSUME NEW s \in Stages, Request(r, s), runs'[r].seen = Seen(r, s)
          PROVE  \A i \in DOMAIN runs'[r].seen :
                    (i > 1 => runs[r].program[i - 1] # "wait") =>
                       runs'[r].seen[i] = Returned(r, i - 1)
      <4>1. \A k \in Sealers : k \in Readable(Rollout[s])
          BY <1>2, <3>4, Legible DEF IInv
      <4>2. runs[r].event # NoValue
          BY <3>6 DEF Request, Requested
      <4> QED BY <1>2, <3>6, <4>1, <4>2, SeenRight DEF IInv
    <3> QED BY <1>2, <2>2, <3>5, <3>6, Changes
  <2> QED BY <1>2, <2>1, <2>2
<1> QED BY Invariance, <1>1, <1>2, PTL DEF Spec

\* Only a worker of the deployment that is being replaced, and not in a staged
\* redeployment, fails to read a run's state.
THEOREM OldWorkersOnly == Spec => OnlyOldWorkersFail
<1>1. ASSUME IInv, NEW r \in Runs, NEW s \in Stages, Covering, Request(r, s),
             Failure \in Range(runs'[r].seen)
      PROVE  rolling /\ s = stage /\ ~Staged
  <2>1. SUFFICES ASSUME ~rolling \/ s # stage \/ Staged PROVE FALSE
      BY DEF IInv, Control
  <2>2. \A k \in Sealers : k \in Readable(Rollout[s])
    <3>1. CASE ~rolling \/ s # stage
        BY <1>1, <3>1, LegibleToNew DEF IInv
    <3>2. CASE Staged
        BY <1>1, <3>2, Legible DEF IInv
    <3> QED BY <2>1, <3>1, <3>2
  <2>3. runs[r].event # NoValue
      BY <1>1 DEF Request, Requested
  <2>4. runs'[r].seen = Seen(r, s)
    <3>1. runs[r] \in RunType /\ runs \in [Runs -> RunType]
        BY <1>1, RunFacts DEF IInv, Control
    <3> DEFINE request == IF Failure \in Range(Seen(r, s)) THEN NoRequest
                          ELSE [NoRequest EXCEPT !.stage = s]
    <3>2. runs' = [runs EXCEPT ![r].seen = Seen(r, s), ![r].request = request]
        BY <1>1 DEF Request
    <3> HIDE DEF request
    <3> QED BY <3>1, <3>2 DEF RunType
  <2> QED BY <1>1, <2>2, <2>3, <2>4, SeenRight DEF IInv
<1> DEFINE A == \A r \in Runs : \A s \in Stages :
          Covering /\ Request(r, s) /\ Failure \in Range(runs'[r].seen) =>
              rolling /\ s = stage /\ ~Staged
<1>2. IInv /\ [Next]_vars => [A]_vars
    BY <1>1
<1> QED BY Invariance, <1>2, PTL DEF Spec, OnlyOldWorkersFail

-----------------------------------------------------------------------------
(* What the Executor holds.                                                 *)

AllEncrypt == \A i \in DOMAIN Rollout : Encrypts(Rollout[i])

\* Sealed are the memos and the output, and a reply on its way.
MemosSealed(r) ==
    \A i \in DOMAIN runs[r].memos :
        runs[r].program[i] # "wait" => Opaque(runs[r].memos[i])
ReplySealed(r) ==
    runs[r].request.reply # NoValue =>
        /\ Op(r) = "run" => Opaque(runs[r].request.reply)
        /\ Op(r) = "return" => runs[r].request.reply.key # None
OutputSealed(r) == Ended(r) => runs[r].output.key # None

Seals == AllEncrypt => \A r \in Runs : MemosSealed(r) /\ ReplySealed(r) /\ OutputSealed(r)

LEMMA ReplySeals ==
    ASSUME IInv, AllEncrypt, NEW r \in Runs, Reply(r), runs'[r].memos = runs[r].memos,
           runs'[r].program = runs[r].program
    PROVE  ReplySealed(r)'
<1>1. Control /\ RunControl(r) /\ runs[r] \in RunType /\ runs \in [Runs -> RunType]
      /\ Op(r) \in Ops /\ Next_(r) \in Nat /\ runs[r].request \in RequestType
    BY RunFacts DEF IInv, Control
<1> DEFINE s == runs[r].request.stage
           conf == Rollout[s]
           out == Output(Plain(Body(r, Next_(r))), Op(r), conf)
<1>2. ~Idle(r) /\ runs' = [runs EXCEPT ![r].request.reply = out.value]
    BY DEF Reply
<1>3. s \in 1 .. Top /\ Encrypts(conf)
  <2>1. s \in 1 .. Top
      BY <1>1, <1>2, SetupTyped DEF RunControl
  <2>2. DOMAIN Rollout = 1 .. Len(Rollout) /\ Top \in 1 .. Len(Rollout)
      BY <1>1, SetupTyped
  <2> QED BY <2>1, <2>2 DEF AllEncrypt
<1>4. /\ Op(r) = "run" => Opaque(out.value)
      /\ Op(r) = "return" => out.value.key # None
  <2> HIDE DEF s
  <2> QED BY <1>1, <1>3, OutputIs
<1> HIDE DEF out
<1>5. runs'[r].request.reply = out.value
    BY <1>1, <1>2 DEF RunType, RequestType
<1>6. Op(r)' = Op(r)
    BY DEF Op, Next_
<1> QED BY <1>4, <1>5, <1>6 DEF ReplySealed

LEMMA MemosSeal ==
    ASSUME IInv, NEW r \in Runs, MemosSealed(r), NEW v,
           runs'[r].memos = Append(runs[r].memos, v),
           runs'[r].program = runs[r].program, Op(r) # "wait" => Opaque(v)
    PROVE  MemosSealed(r)'
<1> DEFINE n == Len(runs[r].memos)
<1>1. /\ runs[r].memos \in Seq(Values) /\ n \in Nat /\ DOMAIN runs[r].memos = 1 .. n
      /\ Op(r) = runs[r].program[n + 1]
    BY RunFacts DEF RunType, IInv
<1> SUFFICES ASSUME NEW i \in DOMAIN runs'[r].memos, runs[r].program[i] # "wait"
             PROVE  Opaque(runs'[r].memos[i])
    BY DEF MemosSealed
<1>2. CASE i \in 1 .. n
  <2>1. runs'[r].memos[i] = runs[r].memos[i]
      BY <1>1, <1>2
  <2> QED BY <1>1, <1>2, <2>1 DEF MemosSealed
<1>3. CASE i \notin 1 .. n
  <2>1. i = n + 1 /\ runs'[r].memos[i] = v
      BY <1>1, <1>3
  <2> QED BY <1>1, <2>1
<1> QED BY <1>2, <1>3

\* When every deployment encrypts, the Executor holds no plain text.
THEOREM Sealed == Spec => []OutputsSealed
<1>1. Init => Seals
    BY DEF Init, Seals, MemosSealed, ReplySealed, OutputSealed, Ended, NoRequest
<1>2. ASSUME IInv, Seals, [Next]_vars PROVE Seals'
  <2>1. CASE UNCHANGED vars
      BY <1>2, <2>1 DEF vars, Seals, AllEncrypt, Rollout, MemosSealed, ReplySealed,
         OutputSealed, Op, Next_, Ended
  <2>2. CASE Next
    <3>1. setup' = setup
        BY <1>2, <2>2, Changes DEF Runs
    <3>2. SUFFICES ASSUME AllEncrypt, NEW r \in Runs
                   PROVE  MemosSealed(r)' /\ ReplySealed(r)' /\ OutputSealed(r)'
        BY <3>1 DEF Seals, AllEncrypt, Rollout
    <3>3. \A q \in Runs : MemosSealed(q) /\ ReplySealed(q) /\ OutputSealed(q)
        BY <1>2, <3>2 DEF Seals
    <3>4. runs'[r].program = runs[r].program
        BY <1>2, <2>2, Changes
    <3>5. MemosSealed(r)'
      <4>1. CASE runs'[r].memos = runs[r].memos
          BY <3>3, <3>4, <4>1 DEF MemosSealed
      <4>2. ASSUME NEW v, runs'[r].memos = Append(runs[r].memos, v),
                   \/ Op(r) = "run" /\ runs[r].request.reply # NoValue
                      /\ v = runs[r].request.reply
                   \/ Op(r) = "wait"
                   \/ v = runs["child"].output /\ v # NoValue
            PROVE  MemosSealed(r)'
        <5>1. "child" \in Runs
            BY DEF Runs
        <5>2. Op(r) # "wait" => Opaque(v)
            BY <3>3, <4>2, <5>1 DEF ReplySealed, OutputSealed, Ended, Opaque
        <5> QED BY <1>2, <3>3, <3>4, <4>2, <5>2, MemosSeal
      <4> QED BY <1>2, <2>2, <4>1, <4>2, Changes
    <3>6. ReplySealed(r)'
      <4>1. CASE Reply(r) /\ runs'[r].memos = runs[r].memos
          BY <1>2, <3>2, <3>4, <4>1, ReplySeals
      <4>2. CASE runs'[r].request.reply = NoValue
          BY <4>2 DEF ReplySealed
      <4>3. CASE /\ runs'[r].request.reply = runs[r].request.reply
                 /\ runs'[r].request.reply # NoValue
        <5>1. runs'[r].memos = runs[r].memos
            BY <1>2, <2>2, <4>3, Changes
        <5>2. Op(r)' = Op(r)
            BY <3>4, <5>1 DEF Op, Next_
        <5> QED BY <3>3, <4>3, <5>2 DEF ReplySealed
      <4> QED BY <1>2, <2>2, <4>1, <4>2, <4>3, Changes
    <3>7. OutputSealed(r)'
      <4>1. CASE runs'[r].output = runs[r].output
          BY <3>3, <4>1 DEF OutputSealed, Ended
      <4>2. CASE /\ Op(r) = "return" /\ runs[r].request.reply # NoValue
                 /\ runs'[r].output = runs[r].request.reply
          BY <3>3, <4>2 DEF OutputSealed, ReplySealed
      <4> QED BY <1>2, <2>2, <4>1, <4>2, Changes
    <3> QED BY <3>5, <3>6, <3>7
  <2> QED BY <1>2, <2>1, <2>2
<1>3. Seals => OutputsSealed
    BY DEF Seals, AllEncrypt, OutputsSealed, MemosSealed, OutputSealed, Opaque
<1> QED BY Invariance, <1>1, <1>2, <1>3, PTL DEF Spec

=============================================================================
