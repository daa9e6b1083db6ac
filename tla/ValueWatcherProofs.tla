------------------------- MODULE ValueWatcherProofs -------------------------
(***************************************************************************)
(* No wake-up is lost and no value is returned that was not held, for      *)
(* every number of setters and of calls that wait, and any values.         *)
(***************************************************************************)
EXTENDS ValueWatcher, TLAPS

\* The state as functions of known domains; TypeOK says the rest.
WatchType ==
    [Watchers -> [kind : {"is", "not", "change"}, than : {Initial, Final},
                  immediate : BOOLEAN, pc : Places]]

Typed ==
    /\ watch \in WatchType
    /\ queue \in [Watchers -> Seq(Values)]
    /\ result \in [Watchers -> Values \cup {None, TimedOut}]
    /\ held \in [Watchers -> SUBSET Values]

\* A call waits in the list exactly while it is between registration and end.
Registered == listed = {w \in Watchers : watch[w].pc \in {"listed", "waiting"}}

\* A call that has begun and not ended has seen the present value held.
SeesPresent ==
    \A w \in Watchers : watch[w].pc \notin {"new", "done"} => value \in held[w]

\* What lies in a queue was held while its call waited; so was what a thread
\* still has to put there, and the call registered before that thread copied
\* the list.
QueuedWasHeld ==
    \A w \in Watchers : \A i \in DOMAIN queue[w] : queue[w][i] \in held[w]

InHandsWasHeld ==
    \A t \in Threads : \A w \in setter[t].left :
        /\ setter[t].new \in held[w]
        /\ watch[w].pc \in {"listed", "waiting", "done"}

\* A thread with queues left to notify has a value to notify them of.
HandsFull == \A t \in Threads : setter[t].left # {} => Active(t)

\* After set_if won, the value is Final until a setter takes it away.
WonIsFinal == wins = 1 => value = Final

\* A call that has not ended has returned nothing.
Unanswered == \A w \in Watchers : watch[w].pc # "done" => result[w] = None

IInv ==
    /\ TypeOK
    /\ Typed
    /\ Registered
    /\ SeesPresent
    /\ QueuedWasHeld
    /\ InHandsWasHeld
    /\ HandsFull
    /\ WonIsFinal
    /\ Unanswered
    /\ NoLostWakeup
    /\ ReturnsHeldValue
-----------------------------------------------------------------------------
(* What the steps share.                                                    *)

\* A call moves; what it waits for stays.
LEMMA PlaceKeeps ==
    ASSUME watch \in WatchType, NEW w \in Watchers, NEW place \in Places,
           watch' = [watch EXCEPT ![w].pc = place]
    PROVE  /\ watch' \in WatchType
           /\ \A u \in Watchers :
                /\ watch'[u].pc = IF u = w THEN place ELSE watch[u].pc
                /\ watch'[u].immediate = watch[u].immediate
                /\ \A v : Matches(u, v)' <=> Matches(u, v)
BY DEF WatchType, Matches

\* A value is put at the end of one queue.
LEMMA AppendKeeps ==
    ASSUME NEW q \in Seq(Values), NEW v \in Values
    PROVE  /\ Append(q, v) \in Seq(Values)
           /\ DOMAIN Append(q, v) = DOMAIN q \cup {Len(q) + 1}
           /\ \A i \in DOMAIN q : Append(q, v)[i] = q[i]
           /\ Append(q, v)[Len(q) + 1] = v
OBVIOUS

\* The oldest value is taken from a queue.
LEMMA TailKeeps ==
    ASSUME NEW q \in Seq(Values), q # << >>
    PROVE  /\ Head(q) = q[1] /\ 1 \in DOMAIN q
           /\ Tail(q) \in Seq(Values)
           /\ \A i \in DOMAIN Tail(q) : i + 1 \in DOMAIN q /\ Tail(q)[i] = q[i + 1]
           /\ \A i \in DOMAIN q : i # 1 => i - 1 \in DOMAIN Tail(q) /\ Tail(q)[i - 1] = q[i]
OBVIOUS

LEMMA InitIInv == Init => IInv
<1> SUFFICES ASSUME Init PROVE IInv
    OBVIOUS
<1> USE ValuesAssumption, SentinelsAssumption
<1>1. PICK c \in [Watchers -> Conditions] :
        watch = [w \in Watchers |->
                    [kind |-> c[w].kind, than |-> c[w].than,
                     immediate |-> c[w].immediate, pc |-> "new"]]
    BY DEF Init
<1>2. watch \in WatchType /\ \A w \in Watchers : watch[w].pc = "new"
  <2>1. \A w \in Watchers : /\ c[w].kind \in {"is", "not", "change"}
                            /\ c[w].than \in {Initial, Final}
                            /\ c[w].immediate \in BOOLEAN
      BY DEF Conditions
  <2> QED BY <1>1, <2>1 DEF WatchType, Places
<1>3. TypeOK
    BY <1>2 DEF Init, TypeOK, Places
<1>4. Typed
    BY <1>2 DEF Init, Typed
<1>5. Registered /\ SeesPresent
    BY <1>2 DEF Init, Registered, SeesPresent
<1>6. QueuedWasHeld /\ InHandsWasHeld /\ HandsFull /\ WonIsFinal
    BY DEF Init, QueuedWasHeld, InHandsWasHeld, HandsFull, WonIsFinal
<1>7. NoLostWakeup /\ ReturnsHeldValue
    BY <1>2 DEF Init, NoLostWakeup, ReturnsHeldValue
<1>8. Unanswered
    BY DEF Init, Unanswered
<1> QED BY <1>3, <1>4, <1>5, <1>6, <1>7, <1>8 DEF IInv

-----------------------------------------------------------------------------
(* The setters.                                                             *)

\* The value changes: every listed call is among the queues to notify.
LEMMA ChangesIInv ==
    ASSUME IInv, NEW t \in Threads, NEW v \in Values, ~Active(t), Changes(t, v),
           wins' \in 0 .. 1, wins' = 1 => v = Final
    PROVE  IInv'
<1>1. TypeOK /\ Typed /\ Registered /\ HandsFull /\ setter[t].left = {}
    BY DEF IInv, HandsFull
<1>2. /\ value' = v /\ sets' \in 0 .. MaxSets
      /\ UNCHANGED <<watch, queue, listed, result>>
      /\ setter' = [setter EXCEPT ![t] = [new |-> v, left |-> listed]]
      /\ \A w \in Watchers :
            held'[w] = IF watch[w].pc \in {"new", "done"} THEN held[w] ELSE held[w] \cup {v}
    BY <1>1, ValuesAssumption DEF Changes, calls, Copied, TypeOK
<1>3. /\ setter'[t].new = v /\ setter'[t].left = listed
      /\ \A u \in Threads \ {t} : setter'[u] = setter[u]
      /\ setter' \in [Threads -> [new : Values \cup {None}, left : SUBSET Watchers]]
    BY <1>1, <1>2 DEF TypeOK
<1>4. held' \in [Watchers -> SUBSET Values] /\ \A w \in Watchers : held[w] \subseteq held'[w]
    BY <1>1, <1>2 DEF Typed, Changes
<1>5. TypeOK'
    BY <1>1, <1>2, <1>3, <1>4 DEF TypeOK
<1>6. Typed' /\ Registered' /\ WonIsFinal'
    BY <1>1, <1>2, <1>4 DEF Typed, Registered, WonIsFinal
<1>7. SeesPresent'
    BY <1>2 DEF SeesPresent
<1>8. QueuedWasHeld'
    BY <1>2, <1>4 DEF IInv, QueuedWasHeld
<1>9. InHandsWasHeld'
  <2> SUFFICES ASSUME NEW u \in Threads, NEW w \in setter'[u].left
               PROVE  setter'[u].new \in held'[w] /\ watch[w].pc \in {"listed", "waiting", "done"}
      BY <1>2 DEF InHandsWasHeld
  <2>1. w \in Watchers
      BY <1>3
  <2>2. CASE u = t
      BY <1>1, <1>2, <1>3, <2>1, <2>2 DEF Registered
  <2>3. CASE u # t
      BY <1>3, <1>4, <2>1, <2>3 DEF IInv, InHandsWasHeld
  <2> QED BY <2>2, <2>3
<1>10. HandsFull'
    BY <1>1, <1>3, SentinelsAssumption DEF HandsFull, Active
<1>11. NoLostWakeup'
    BY <1>1, <1>2, <1>3 DEF NoLostWakeup, Told, Registered, Matches
<1>12. ReturnsHeldValue'
    BY <1>2, <1>4 DEF IInv, ReturnsHeldValue, Matches
<1>13. Unanswered'
    BY <1>2 DEF IInv, Unanswered
<1> QED BY <1>5, <1>6, <1>7, <1>8, <1>9, <1>10, <1>11, <1>12, <1>13 DEF IInv

LEMMA SettingIInv ==
    ASSUME IInv, NEW t \in Threads, Setting(t)
    PROVE  IInv'
<1>1. wins \in 0 .. 1 /\ WonIsFinal /\ value \in Values
    BY DEF IInv, TypeOK
<1>2. ASSUME NEW v \in Values, Set(t, v) PROVE IInv'
  <2>1. ~Active(t) /\ Changes(t, v) /\ wins' \in 0 .. 1 /\ (wins' = 1 => v = Final)
      BY <1>1, <1>2 DEF Set
  <2> QED BY <2>1, ChangesIInv
<1>3. CASE SetIf(t)
  <2>1. wins = 0 /\ wins' = 1
      BY <1>1, <1>3 DEF SetIf, Allowed, WonIsFinal
  <2>2. CASE Changes(t, Final)
      BY <1>3, <2>1, <2>2, ChangesIInv, ValuesAssumption DEF SetIf
  <2>3. CASE value = Final
      BY <1>3, <2>3 DEF SetIf, Allowed
  <2> QED BY <1>3, <2>2, <2>3 DEF SetIf
<1> QED BY <1>2, <1>3 DEF Setting

\* One notification: the value goes from the thread's hands to the queue of a
\* call that has not ended.
LEMMA NotifyIInv ==
    ASSUME IInv, NEW t \in Threads, NEW w \in Watchers, Notify(t, w)
    PROVE  IInv'
<1>1. TypeOK /\ Typed /\ Registered /\ HandsFull /\ QueuedWasHeld /\ InHandsWasHeld
    BY DEF IInv
<1>2. /\ w \in setter[t].left /\ UNCHANGED <<value, sets, watch, listed, result, held, wins>>
      /\ setter[t].new \in Values
      /\ setter[t].new \in held[w] /\ watch[w].pc \in {"listed", "waiting", "done"}
    BY <1>1 DEF Notify, Active, TypeOK, InHandsWasHeld
<1>3. /\ setter' \in [Threads -> [new : Values \cup {None}, left : SUBSET Watchers]]
      /\ \A u \in Threads : setter'[u].new = setter[u].new
      /\ \A u \in Threads : setter'[u].left = setter[u].left \ IF u = t THEN {w} ELSE {}
    BY <1>1 DEF Notify, TypeOK
<1>4. /\ queue' \in [Watchers -> Seq(Values)]
      /\ \A u \in Watchers : u # w => queue'[u] = queue[u]
      /\ queue'[w] = IF watch[w].pc = "done" THEN queue[w]
                     ELSE Append(queue[w], setter[t].new)
    BY <1>1, <1>2, AppendKeeps DEF Notify, Typed
<1>5. TypeOK'
    BY <1>1, <1>2, <1>3, <1>4 DEF TypeOK
<1>6. Typed' /\ Registered' /\ SeesPresent' /\ WonIsFinal'
    BY <1>2, <1>4 DEF IInv, Typed, Registered, SeesPresent, WonIsFinal
<1>7. QueuedWasHeld'
  <2> SUFFICES ASSUME NEW u \in Watchers, NEW i \in DOMAIN queue'[u]
               PROVE  queue'[u][i] \in held[u]
      BY <1>2 DEF QueuedWasHeld
  <2>1. CASE u # w \/ watch[w].pc = "done"
      BY <1>1, <1>4, <2>1 DEF QueuedWasHeld
  <2>2. CASE u = w /\ watch[w].pc # "done"
      BY <1>1, <1>2, <1>4, <2>2, AppendKeeps DEF QueuedWasHeld, Typed
  <2> QED BY <2>1, <2>2
<1>8. InHandsWasHeld' /\ HandsFull'
    BY <1>1, <1>2, <1>3 DEF InHandsWasHeld, HandsFull, Active
<1>9. NoLostWakeup'
  <2> SUFFICES ASSUME NEW u \in Watchers, watch[u].pc = "waiting", Told(u)
               PROVE  Told(u)'
      BY <1>2 DEF IInv, NoLostWakeup, Matches
  <2>1. \A x : Matches(u, x)' <=> Matches(u, x)
      BY <1>2 DEF Matches
  <2>2. CASE \E i \in DOMAIN queue[u] : Matches(u, queue[u][i])
    <3>1. PICK i \in DOMAIN queue[u] : Matches(u, queue[u][i])
        BY <2>2
    <3>2. CASE u # w
        BY <1>4, <2>1, <3>1, <3>2 DEF Told
    <3>3. CASE u = w
      <4>1. queue'[u] = Append(queue[u], setter[t].new)
          BY <1>4, <3>3
      <4>2. i \in DOMAIN queue'[u] /\ queue'[u][i] = queue[u][i]
          BY <1>1, <1>2, <3>1, <4>1, AppendKeeps DEF Typed
      <4> QED BY <2>1, <3>1, <4>2 DEF Told
    <3> QED BY <3>2, <3>3
  <2>3. CASE \E x \in Threads : u \in setter[x].left /\ Matches(u, setter[x].new)
    <3>1. PICK x \in Threads : u \in setter[x].left /\ Matches(u, setter[x].new)
        BY <2>3
    <3>2. CASE x = t /\ u = w
      <4>1. queue'[u] = Append(queue[u], setter[t].new)
          BY <1>4, <3>2
      <4>2. Len(queue[u]) + 1 \in DOMAIN queue'[u]
            /\ queue'[u][Len(queue[u]) + 1] = setter[t].new
          BY <1>1, <1>2, <4>1, AppendKeeps DEF Typed
      <4> QED BY <2>1, <3>1, <3>2, <4>2 DEF Told
    <3>3. CASE x # t \/ u # w
        BY <1>3, <2>1, <3>1, <3>3 DEF Told
    <3> QED BY <3>2, <3>3
  <2> QED BY <2>2, <2>3 DEF Told
<1>10. ReturnsHeldValue' /\ Unanswered'
    BY <1>2 DEF IInv, ReturnsHeldValue, Unanswered, Matches
<1> QED BY <1>5, <1>6, <1>7, <1>8, <1>9, <1>10 DEF IInv

LEMMA ReturnsIInv ==
    ASSUME IInv, NEW t \in Threads, Returns(t)
    PROVE  IInv'
<1>1. /\ UNCHANGED <<value, sets, watch, queue, listed, result, held, wins>>
      /\ setter[t].left = {}
    BY DEF Returns, calls
<1>2. /\ setter' \in [Threads -> [new : Values \cup {None}, left : SUBSET Watchers]]
      /\ \A u \in Threads : setter'[u].left = setter[u].left
      /\ \A u \in Threads \ {t} : setter'[u].new = setter[u].new
    BY DEF IInv, Returns, TypeOK
<1>3. TypeOK' /\ Typed' /\ Registered' /\ SeesPresent' /\ QueuedWasHeld' /\ WonIsFinal'
    BY <1>1, <1>2 DEF IInv, TypeOK, Typed, Registered, SeesPresent, QueuedWasHeld, WonIsFinal
<1>4. InHandsWasHeld' /\ HandsFull'
    BY <1>1, <1>2 DEF IInv, InHandsWasHeld, HandsFull, Active
<1>5. NoLostWakeup' /\ ReturnsHeldValue' /\ Unanswered'
    BY <1>1, <1>2 DEF IInv, NoLostWakeup, ReturnsHeldValue, Unanswered, Told, Matches
<1> QED BY <1>3, <1>4, <1>5 DEF IInv

-----------------------------------------------------------------------------
(* The calls that wait.                                                     *)

\* A call ends, with a value that matches and was held or with a timeout: its
\* queue is off the list and empty.
LEMMA EndsIInv ==
    ASSUME IInv, NEW w \in Watchers, watch[w].pc \in {"listed", "waiting"},
           NEW v \in Values \cup {TimedOut},
           v \in Values => v \in held[w] /\ Matches(w, v),
           Ends(w, v), Unlisted(w), queue' = [queue EXCEPT ![w] = << >>],
           UNCHANGED <<value, sets, setter, held, wins>>
    PROVE  IInv'
<1>1. TypeOK /\ Typed /\ Registered
    BY DEF IInv
<1>2. /\ watch' \in WatchType
      /\ \A u \in Watchers :
            /\ watch'[u].pc = IF u = w THEN "done" ELSE watch[u].pc
            /\ watch'[u].immediate = watch[u].immediate
            /\ \A x : Matches(u, x)' <=> Matches(u, x)
    BY <1>1, PlaceKeeps DEF Typed, Ends, Places
<1>3. /\ queue' \in [Watchers -> Seq(Values)]
      /\ \A u \in Watchers : queue'[u] = IF u = w THEN << >> ELSE queue[u]
    BY <1>1 DEF Typed
<1>4. /\ result' \in [Watchers -> Values \cup {None, TimedOut}]
      /\ \A u \in Watchers : result'[u] = IF u = w THEN v ELSE result[u]
    BY <1>1 DEF Typed, Ends
<1>5. listed' = listed \ {w}
    BY DEF Unlisted
<1>6. TypeOK'
    BY <1>1, <1>2, <1>3, <1>4, <1>5 DEF TypeOK, Places
<1>7. Typed' /\ Registered'
    BY <1>1, <1>2, <1>3, <1>4, <1>5 DEF Typed, Registered
<1>8. SeesPresent' /\ QueuedWasHeld' /\ WonIsFinal'
    BY <1>2, <1>3 DEF IInv, SeesPresent, QueuedWasHeld, WonIsFinal
<1>9. InHandsWasHeld' /\ HandsFull'
    BY <1>1, <1>2 DEF IInv, TypeOK, InHandsWasHeld, HandsFull, Active
<1>10. NoLostWakeup'
    BY <1>2, <1>3 DEF IInv, NoLostWakeup, Told
<1>11. ReturnsHeldValue' /\ Unanswered'
    BY <1>2, <1>4, SentinelsAssumption DEF IInv, ReturnsHeldValue, Unanswered
<1> QED BY <1>6, <1>7, <1>8, <1>9, <1>10, <1>11 DEF IInv

\* The fast path reads the value once; the queue is listed later.
LEMMA CallIInv ==
    ASSUME IInv, NEW w \in Watchers, Call(w)
    PROVE  IInv'
<1>1. /\ TypeOK /\ Typed /\ Registered /\ InHandsWasHeld /\ QueuedWasHeld
      /\ watch[w].pc = "new" /\ queue[w] = << >>
      /\ UNCHANGED <<value, sets, setter, queue, listed, wins>>
    BY DEF IInv, TypeOK, Call
<1>2. /\ held' \in [Watchers -> SUBSET Values]
      /\ \A u \in Watchers : held'[u] = IF u = w THEN {value} ELSE held[u]
    BY <1>1 DEF Call, Typed, TypeOK
<1>3. PICK place \in {"called", "done"} :
        /\ watch' = [watch EXCEPT ![w].pc = place]
        /\ result' = IF place = "done" THEN [result EXCEPT ![w] = value] ELSE result
        /\ place = "done" => Matches(w, value)
  <2>1. CASE watch[w].immediate /\ Matches(w, value)
      BY <2>1 DEF Call, Ends
  <2>2. CASE ~(watch[w].immediate /\ Matches(w, value))
      BY <2>2 DEF Call, Moves
  <2> QED BY <2>1, <2>2
<1>4. /\ watch' \in WatchType
      /\ \A u \in Watchers :
            /\ watch'[u].pc = IF u = w THEN place ELSE watch[u].pc
            /\ watch'[u].immediate = watch[u].immediate
            /\ \A x : Matches(u, x)' <=> Matches(u, x)
  <2>1. place \in Places
      BY DEF Places
  <2> QED BY <1>1, <1>3, <2>1, PlaceKeeps DEF Typed
<1>5. /\ result' \in [Watchers -> Values \cup {None, TimedOut}]
      /\ \A u \in Watchers : u # w => result'[u] = result[u]
      /\ place = "done" => result'[w] = value
      /\ place = "called" => result'[w] = result[w]
    BY <1>1, <1>3 DEF Typed, TypeOK
<1>6. TypeOK'
    BY <1>1, <1>2, <1>4, <1>5 DEF TypeOK, Places
<1>7. Typed' /\ Registered' /\ SeesPresent' /\ WonIsFinal'
    BY <1>1, <1>2, <1>4, <1>5 DEF IInv, Typed, Registered, SeesPresent, WonIsFinal
<1>8. QueuedWasHeld'
    BY <1>1, <1>2 DEF QueuedWasHeld
<1>9. InHandsWasHeld' /\ HandsFull'
    BY <1>1, <1>2, <1>4 DEF IInv, TypeOK, InHandsWasHeld, HandsFull, Active
<1>10. NoLostWakeup'
    BY <1>1, <1>4 DEF IInv, NoLostWakeup, Told
<1>11. ReturnsHeldValue'
  <2> SUFFICES ASSUME NEW u \in Watchers, result'[u] \in Values
               PROVE  result'[u] \in held'[u] /\ Matches(u, result'[u])
      BY <1>4 DEF ReturnsHeldValue
  <2>1. CASE u # w
      BY <1>2, <1>5, <2>1 DEF IInv, ReturnsHeldValue
  <2>2. CASE u = w /\ place = "done"
      BY <1>2, <1>3, <1>5, <2>2
  <2>3. CASE u = w /\ place = "called"
      BY <1>1, <1>5, <2>3, SentinelsAssumption DEF IInv, Unanswered
  <2> QED BY <2>1, <2>2, <2>3
<1>12. Unanswered'
    BY <1>1, <1>3, <1>4, <1>5 DEF IInv, Unanswered
<1> QED BY <1>6, <1>7, <1>8, <1>9, <1>10, <1>11, <1>12 DEF IInv

LEMMA RegisterIInv ==
    ASSUME IInv, NEW w \in Watchers, Register(w)
    PROVE  IInv'
<1>1. /\ TypeOK /\ Typed /\ Registered
      /\ watch[w].pc = "called" /\ queue[w] = << >>
      /\ UNCHANGED <<value, sets, setter, queue, result, held, wins>>
      /\ listed' = listed \cup {w}
    BY DEF IInv, TypeOK, Register, Moves
<1>2. /\ watch' \in WatchType
      /\ \A u \in Watchers :
            /\ watch'[u].pc = IF u = w THEN "listed" ELSE watch[u].pc
            /\ watch'[u].immediate = watch[u].immediate
            /\ \A x : Matches(u, x)' <=> Matches(u, x)
    BY <1>1, PlaceKeeps DEF Typed, Places, Register, Moves
<1>3. TypeOK'
    BY <1>1, <1>2 DEF TypeOK, Places
<1>4. Typed' /\ Registered' /\ SeesPresent' /\ QueuedWasHeld' /\ WonIsFinal'
    BY <1>1, <1>2 DEF IInv, Typed, Registered, SeesPresent, QueuedWasHeld, WonIsFinal
<1>5. InHandsWasHeld' /\ HandsFull'
    BY <1>1, <1>2 DEF IInv, TypeOK, InHandsWasHeld, HandsFull, Active
<1>6. NoLostWakeup' /\ ReturnsHeldValue' /\ Unanswered'
    BY <1>1, <1>2 DEF IInv, NoLostWakeup, ReturnsHeldValue, Unanswered, Told
<1> QED BY <1>3, <1>4, <1>5, <1>6 DEF IInv

\* The second read: a value set before the registration is found here, one set
\* after it is notified.
LEMMA RecheckIInv ==
    ASSUME IInv, NEW w \in Watchers, Recheck(w)
    PROVE  IInv'
<1>1. /\ TypeOK /\ Typed /\ Registered /\ watch[w].pc = "listed"
      /\ UNCHANGED <<value, sets, setter, held, wins>>
    BY DEF IInv, Recheck
<1>2. CASE Rechecked(w)
  <2>1. Ends(w, value) /\ Unlisted(w) /\ queue' = [queue EXCEPT ![w] = << >>]
      BY <1>2 DEF Recheck
  <2>2. value \in Values /\ value \in held[w] /\ Matches(w, value)
      BY <1>1, <1>2 DEF IInv, TypeOK, SeesPresent, Rechecked
  <2> QED BY <1>1, <2>1, <2>2, EndsIInv
<1>3. CASE ~Rechecked(w)
  <2>1. /\ watch' = [watch EXCEPT ![w].pc = "waiting"]
        /\ UNCHANGED <<listed, queue, result>>
      BY <1>3 DEF Recheck, Moves
  <2>2. /\ watch' \in WatchType
        /\ \A u \in Watchers :
              /\ watch'[u].pc = IF u = w THEN "waiting" ELSE watch[u].pc
              /\ watch'[u].immediate = watch[u].immediate
              /\ \A x : Matches(u, x)' <=> Matches(u, x)
    <3>1. "waiting" \in Places
        BY DEF Places
    <3> QED BY <1>1, <2>1, <3>1, PlaceKeeps DEF Typed
  <2>3. TypeOK'
      BY <1>1, <2>1, <2>2 DEF TypeOK, Places
  <2>4. Typed' /\ Registered' /\ SeesPresent' /\ QueuedWasHeld' /\ WonIsFinal'
      BY <1>1, <2>1, <2>2 DEF IInv, Typed, Registered, SeesPresent, QueuedWasHeld, WonIsFinal
  <2>5. InHandsWasHeld' /\ HandsFull'
      BY <1>1, <2>1, <2>2 DEF IInv, TypeOK, InHandsWasHeld, HandsFull, Active
  <2>6. NoLostWakeup'
      BY <1>1, <1>3, <2>1, <2>2 DEF IInv, NoLostWakeup, Told, Rechecked
  <2>7. ReturnsHeldValue' /\ Unanswered'
      BY <1>1, <2>1, <2>2 DEF IInv, ReturnsHeldValue, Unanswered
  <2> QED BY <2>3, <2>4, <2>5, <2>6, <2>7 DEF IInv
<1> QED BY <1>2, <1>3

\* A value that matches is not passed over: only one that does not is dropped.
LEMMA GetIInv ==
    ASSUME IInv, NEW w \in Watchers, Get(w)
    PROVE  IInv'
<1>1. /\ TypeOK /\ Typed /\ Registered /\ QueuedWasHeld
      /\ watch[w].pc = "waiting" /\ queue[w] # << >> /\ queue[w] \in Seq(Values)
      /\ UNCHANGED <<value, sets, setter, held, wins>>
    BY DEF IInv, Typed, Get
<1>2. Head(queue[w]) = queue[w][1] /\ Head(queue[w]) \in Values /\ Head(queue[w]) \in held[w]
    BY <1>1, TailKeeps DEF QueuedWasHeld
<1>3. CASE Wanted(w)
  <2>1. /\ Ends(w, Head(queue[w])) /\ Unlisted(w)
        /\ queue' = [queue EXCEPT ![w] = << >>]
      BY <1>3 DEF Get
  <2>2. Matches(w, Head(queue[w]))
      BY <1>3 DEF Wanted
  <2> QED BY <1>1, <1>2, <2>1, <2>2, EndsIInv
<1>4. CASE ~Wanted(w)
  <2>1. /\ UNCHANGED <<watch, listed, result>>
        /\ queue' = [queue EXCEPT ![w] = Tail(queue[w])]
      BY <1>4 DEF Get
  <2>2. /\ queue' \in [Watchers -> Seq(Values)]
        /\ queue'[w] = Tail(queue[w])
        /\ \A u \in Watchers : u # w => queue'[u] = queue[u]
      BY <1>1, <2>1, TailKeeps DEF Typed
  <2>3. TypeOK'
      BY <1>1, <2>1, <2>2 DEF TypeOK
  <2>4. Typed' /\ Registered' /\ SeesPresent' /\ WonIsFinal'
      BY <1>1, <2>1, <2>2 DEF IInv, Typed, Registered, SeesPresent, WonIsFinal
  <2>5. QueuedWasHeld'
    <3> SUFFICES ASSUME NEW u \in Watchers, NEW i \in DOMAIN queue'[u]
                 PROVE  queue'[u][i] \in held[u]
        BY <1>1 DEF QueuedWasHeld
    <3>1. CASE u # w
        BY <1>1, <2>2, <3>1 DEF QueuedWasHeld
    <3>2. CASE u = w
      <4>1. i \in DOMAIN Tail(queue[w])
          BY <2>2, <3>2
      <4>2. i + 1 \in DOMAIN queue[w] /\ Tail(queue[w])[i] = queue[w][i + 1]
          BY <1>1, <4>1, TailKeeps
      <4> QED BY <1>1, <2>2, <3>2, <4>2 DEF QueuedWasHeld
    <3> QED BY <3>1, <3>2
  <2>6. InHandsWasHeld' /\ HandsFull'
      BY <1>1, <2>1 DEF IInv, InHandsWasHeld, HandsFull, Active
  <2>7. NoLostWakeup'
    <3> SUFFICES ASSUME NEW u \in Watchers, Told(u)
                 PROVE  Told(u)'
        BY <1>1, <2>1 DEF IInv, NoLostWakeup, Matches
    <3>1. \A x : Matches(u, x)' <=> Matches(u, x)
        BY <2>1 DEF Matches
    <3>2. CASE \E i \in DOMAIN queue[u] : Matches(u, queue[u][i])
      <4>1. PICK i \in DOMAIN queue[u] : Matches(u, queue[u][i])
          BY <3>2
      <4>2. CASE u # w
          BY <2>2, <3>1, <4>1, <4>2 DEF Told
      <4>3. CASE u = w
        <5>1. i # 1
            BY <1>2, <1>4, <4>1, <4>3 DEF Wanted
        <5>2. i - 1 \in DOMAIN queue'[u] /\ queue'[u][i - 1] = queue[u][i]
            BY <1>1, <2>2, <4>1, <4>3, <5>1, TailKeeps
        <5> QED BY <3>1, <4>1, <5>2 DEF Told
      <4> QED BY <4>2, <4>3
    <3>3. CASE \E t \in Threads : u \in setter[t].left /\ Matches(u, setter[t].new)
        BY <1>1, <3>1, <3>3 DEF Told
    <3> QED BY <3>2, <3>3 DEF Told
  <2>8. ReturnsHeldValue' /\ Unanswered'
      BY <1>1, <2>1 DEF IInv, ReturnsHeldValue, Unanswered, Matches
  <2> QED BY <2>3, <2>4, <2>5, <2>6, <2>7, <2>8 DEF IInv
<1> QED BY <1>3, <1>4

LEMMA TimeOutIInv ==
    ASSUME IInv, NEW w \in Watchers, TimeOut(w)
    PROVE  IInv'
<1>1. TimedOut \notin Values
    BY SentinelsAssumption
<1> QED BY <1>1, EndsIInv DEF TimeOut

-----------------------------------------------------------------------------
LEMMA NextIInv == IInv /\ [Next]_vars => IInv'
<1> SUFFICES ASSUME IInv, [Next]_vars PROVE IInv'
    OBVIOUS
<1>1. ASSUME NEW t \in Threads, Setting(t) PROVE IInv'
    BY <1>1, SettingIInv
<1>2. ASSUME NEW t \in Threads, Notifying(t) PROVE IInv'
    BY <1>2, NotifyIInv, ReturnsIInv DEF Notifying
<1>3. ASSUME NEW w \in Watchers, Call(w) \/ Waiting(w) \/ TimeOut(w) PROVE IInv'
    BY <1>3, CallIInv, RegisterIInv, RecheckIInv, GetIInv, TimeOutIInv DEF Waiting
<1>4. CASE UNCHANGED vars
    BY <1>4 DEF vars, IInv, TypeOK, Typed, Registered, SeesPresent, QueuedWasHeld,
       InHandsWasHeld, HandsFull, WonIsFinal, Unanswered, NoLostWakeup,
       ReturnsHeldValue, Told, Active, Matches
<1> QED BY <1>1, <1>2, <1>3, <1>4 DEF Next

THEOREM Invariance == Spec => []IInv
BY InitIInv, NextIInv, PTL DEF Spec

\* No call that ended is left on the watch list or with a queue that setters
\* fill (value_watcher.py, _remove_queue), and of the set_if calls that race
\* exactly one is told that it made the transition.
THEOREM TypeCorrect == Spec => []TypeOK
<1>1. IInv => TypeOK
    BY DEF IInv
<1> QED BY <1>1, Invariance, PTL

\* The read after the registration closes the gap between the first read and
\* the registration (value_watcher.py, _wait_for_condition).
THEOREM WakeupsKept == Spec => []NoLostWakeup
<1>1. IInv => NoLostWakeup
    BY DEF IInv
<1> QED BY <1>1, Invariance, PTL

\* What wait_for and its like return matches, and was the value at some time
\* since the call.
THEOREM ReturnedWasHeld == Spec => []ReturnsHeldValue
<1>1. IInv => ReturnsHeldValue
    BY DEF IInv
<1> QED BY <1>1, Invariance, PTL
=============================================================================
