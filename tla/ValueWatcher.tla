---------------------------- MODULE ValueWatcher ----------------------------
(***************************************************************************)
(* ValueWatcher (connect/_internal/value_watcher.py): a value any thread   *)
(* may set, and coroutines of an event loop that wait for a value or for a *)
(* change. A setter changes the value and copies the watch list under the  *)
(* lock, then notifies queue by queue without it: threads interleave at    *)
(* every step. on_change callbacks run in the setter's thread after the    *)
(* notifications; they only log.                                           *)
(***************************************************************************)
EXTENDS Naturals, Sequences, FiniteSets, SequencesExt

CONSTANTS
    Values,     \* what the value may be
    Initial,    \* the initial value
    Final,      \* what set_if sets, unless the value is that already
    Threads,    \* setters
    Watchers,   \* calls that wait
    MaxSets     \* bound: changes of the value

ASSUME ValuesAssumption == Initial \in Values /\ Final \in Values /\ MaxSets \in Nat

VARIABLES
    value,      \* _value
    sets,       \* changes so far (bounded)
    setter,     \* per thread: the new value it notifies, and the queues left
    watch,      \* per call: what it waits for, and where it is
    queue,      \* per call: the values in its queue
    listed,     \* _watch_queues: the calls whose queue is in the list
    result,     \* per call: what it returned
    held,       \* observer, per call: the values held since it was made
    wins        \* observer: set_if calls that returned True since the value
                \* was last away from Final

vars == <<value, sets, setter, watch, queue, listed, result, held, wins>>

calls == <<watch, queue, listed, result>>

None == "none"
TimedOut == "timed out"

\* Python's None and the exception are no values of the watcher.
ASSUME SentinelsAssumption == None \notin Values /\ TimedOut \notin Values

\* What a call waits for: a value (wait_for, on_value), another value
\* (wait_for_not, wait_for_not_none) or a change; immediate is a parameter of
\* the first two.
Conditions ==
    [kind : {"is", "not"}, than : {Initial, Final}, immediate : BOOLEAN]
        \cup [kind : {"change"}, than : {Initial}, immediate : {FALSE}]

Matches(w, v) ==
    \/ watch[w].kind = "is" /\ v = watch[w].than
    \/ watch[w].kind = "not" /\ v # watch[w].than
    \/ watch[w].kind = "change"

\* Where a call is: not made, past the fast path, its queue listed, waiting,
\* returned.
Places == {"new", "called", "listed", "waiting", "done"}

Init ==
    /\ value = Initial
    /\ sets = 0
    /\ setter = [t \in Threads |-> [new |-> None, left |-> {}]]
    /\ \E c \in [Watchers -> Conditions] :
        watch = [w \in Watchers |->
                    [kind |-> c[w].kind, than |-> c[w].than,
                     immediate |-> c[w].immediate, pc |-> "new"]]
    /\ queue = [w \in Watchers |-> << >>]
    /\ listed = {}
    /\ result = [w \in Watchers |-> None]
    /\ held = [w \in Watchers |-> {}]
    /\ wins = 0

-----------------------------------------------------------------------------
(* Setters.                                                                 *)

Active(t) == setter[t].new # None

\* Mutant of Copied: the list is read when notifying, not under the lock.
CopiedLate == Watchers

\* The copy of the watch list.
Copied == listed

\* Under the lock: an equal value changes nothing and tells nobody.
Changes(t, v) ==
    /\ v # value /\ sets < MaxSets
    /\ value' = v
    /\ sets' = sets + 1
    /\ setter' = [setter EXCEPT ![t] = [new |-> v, left |-> Copied]]
    /\ held' = [w \in Watchers |->
                    IF watch[w].pc \in {"new", "done"} THEN held[w] ELSE held[w] \cup {v}]
    /\ UNCHANGED calls

\* The setter of `value`.
Set(t, v) ==
    /\ ~Active(t)
    /\ Changes(t, v)
    /\ wins' = IF v = Final THEN wins ELSE 0

\* set_if's condition.
Allowed(v) == v # Final

\* set_if(Final, v != Final): True when the condition held, also when nothing
\* changes.
SetIf(t) ==
    /\ ~Active(t) /\ Allowed(value)
    /\ wins < 2
    /\ wins' = wins + 1
    /\ \/ Changes(t, Final)
       \/ /\ value = Final
          /\ UNCHANGED <<value, sets, setter, held, calls>>

\* One call_soon_threadsafe(put_nowait): a queue no longer listed gets it too.
Notify(t, w) ==
    /\ Active(t) /\ w \in setter[t].left
    /\ queue' = [queue EXCEPT ![w] =
                    IF watch[w].pc = "done" THEN @ ELSE Append(@, setter[t].new)]
    /\ setter' = [setter EXCEPT ![t].left = @ \ {w}]
    /\ UNCHANGED <<value, sets, watch, listed, result, held, wins>>

\* Every queue was notified.
Returns(t) ==
    /\ Active(t) /\ setter[t].left = {}
    /\ setter' = [setter EXCEPT ![t].new = None]
    /\ UNCHANGED <<value, sets, calls, held, wins>>

-----------------------------------------------------------------------------
(* Calls that wait.                                                         *)

Ends(w, v) ==
    /\ watch' = [watch EXCEPT ![w].pc = "done"]
    /\ result' = [result EXCEPT ![w] = v]

Moves(w, place) ==
    /\ watch' = [watch EXCEPT ![w].pc = place]
    /\ UNCHANGED result

\* The fast path: one read of the value.
Call(w) ==
    /\ watch[w].pc = "new"
    /\ IF watch[w].immediate /\ Matches(w, value) THEN Ends(w, value)
       ELSE Moves(w, "called")
    /\ held' = [held EXCEPT ![w] = {value}]
    /\ UNCHANGED <<value, sets, setter, queue, listed, wins>>

\* _watch: the queue goes into the list.
Register(w) ==
    /\ watch[w].pc = "called"
    /\ listed' = listed \cup {w}
    /\ Moves(w, "listed")
    /\ UNCHANGED <<value, sets, setter, queue, held, wins>>

\* Mutant of Rechecked: nothing is read after the registration.
NotRechecked(w) == FALSE

\* The second read, after the registration.
Rechecked(w) == watch[w].immediate /\ Matches(w, value)

\* Mutant of Unlisted: the queue stays in the list.
StaysListed(w) == UNCHANGED listed

\* _remove_queue, on leaving the `with`.
Unlisted(w) == listed' = listed \ {w}

Recheck(w) ==
    /\ watch[w].pc = "listed"
    /\ IF Rechecked(w) THEN Ends(w, value) /\ Unlisted(w) /\ queue' = [queue EXCEPT ![w] = << >>]
       ELSE Moves(w, "waiting") /\ UNCHANGED <<listed, queue>>
    /\ UNCHANGED <<value, sets, setter, held, wins>>

\* Mutant of Wanted: only the newest value in the queue is looked at.
WantedNewest(w) == Matches(w, Last(queue[w])) /\ Len(queue[w]) = 1

\* queue.get(): a value that does not match is dropped.
Wanted(w) == Matches(w, Head(queue[w]))

Get(w) ==
    /\ watch[w].pc = "waiting" /\ queue[w] # << >>
    /\ IF Wanted(w)
       THEN /\ Ends(w, Head(queue[w]))
            /\ Unlisted(w)
            /\ queue' = [queue EXCEPT ![w] = << >>]
       ELSE /\ queue' = [queue EXCEPT ![w] = Tail(@)]
            /\ UNCHANGED <<watch, listed, result>>
    /\ UNCHANGED <<value, sets, setter, held, wins>>

\* asyncio.wait_for's timeout, or the caller was cancelled.
TimeOut(w) ==
    /\ watch[w].pc = "waiting"
    /\ Ends(w, TimedOut)
    /\ Unlisted(w)
    /\ queue' = [queue EXCEPT ![w] = << >>]
    /\ UNCHANGED <<value, sets, setter, held, wins>>

-----------------------------------------------------------------------------
Setting(t) == (\E v \in Values : Set(t, v)) \/ SetIf(t)
Notifying(t) == (\E w \in Watchers : Notify(t, w)) \/ Returns(t)
Waiting(w) == Register(w) \/ Recheck(w) \/ Get(w)

Next ==
    \/ \E t \in Threads : Setting(t) \/ Notifying(t)
    \/ \E w \in Watchers : Call(w) \/ Waiting(w) \/ TimeOut(w)

Spec == Init /\ [][Next]_vars

\* A thread that changed the value goes on to notify, and the event loop runs
\* the coroutines that can go on. No set, call or timeout is assumed.
FairSpec ==
    /\ Spec
    /\ \A t \in Threads : WF_vars(Notifying(t))
    /\ \A w \in Watchers : WF_vars(Waiting(w))

-----------------------------------------------------------------------------
(* Properties.                                                              *)

\* Types; a call that ended, by a value or a timeout, has left no queue behind
\* that setters would fill for ever; and of the threads that set_if races, one
\* is told that it made the transition (connection.py 330: whoever sets CLOSING
\* schedules the shutdown).
TypeOK ==
    /\ value \in Values
    /\ sets \in 0 .. MaxSets
    /\ setter \in [Threads -> [new : Values \cup {None}, left : SUBSET Watchers]]
    /\ \A w \in Watchers :
        /\ watch[w].pc \in Places
        /\ queue[w] \in Seq(Values)
        /\ watch[w].pc \in {"new", "called", "done"} => queue[w] = << >>
        /\ result[w] \in Values \cup {None, TimedOut}
        /\ held[w] \subseteq Values
    /\ listed \subseteq Watchers
    /\ \A w \in listed : watch[w].pc \in {"listed", "waiting"}
    /\ wins \in 0 .. 1

\* A notification for the call that matches: in its queue, or still in the
\* hands of a thread.
Told(w) ==
    \/ \E i \in DOMAIN queue[w] : Matches(w, queue[w][i])
    \/ \E t \in Threads : w \in setter[t].left /\ Matches(w, setter[t].new)

\* No wake-up is lost in the gap between the first read and the registration,
\* nor to threads that notify out of order: a call that waits with `immediate`
\* while the value matches has a matching notification under way
\* (_wait_for_condition: "Handles the TOCTOU gap").
NoLostWakeup ==
    \A w \in Watchers :
        watch[w].pc = "waiting" /\ watch[w].immediate /\ Matches(w, value) => Told(w)

\* A call returns a value that matches and that was really held while it
\* waited: no notification of a change made before the call reaches it,
\* however late its thread notifies.
ReturnsHeldValue ==
    \A w \in Watchers :
        result[w] \in Values => result[w] \in held[w] /\ Matches(w, result[w])

\* A value that was held for a moment only still ends the calls that were
\* waiting for it, whatever came after, and so does one they found at once.
EveryMatchEnds ==
    \A w \in Watchers :
        /\ (watch[w].pc = "waiting" /\ Told(w)) ~> watch[w].pc = "done"
        /\ (watch[w].pc = "called" /\ watch[w].immediate /\ Matches(w, value))
                ~> (watch[w].pc = "done" \/ ~Matches(w, value))
=============================================================================
