-------------------------------- MODULE Send --------------------------------
(***************************************************************************)
(* Sending events: Inngest.send and send_sync (client_lib/client.py), and  *)
(* the callback of step.send_event, which runs the hooks itself and calls  *)
(* send with skip_middleware. One call per caller. Inngest's Event API is  *)
(* external: it derives event ids from the seed in the request's header,   *)
(* so storing the events of one seed twice makes them once.                *)
(***************************************************************************)
EXTENDS Middleware

CONSTANTS
    Nobody,         \* no response yet
    Callers,        \* who may send
    MaxAttempts     \* MAX_SEND_ATTEMPTS

ASSUME SendAssumption == MaxAttempts \in Nat \ {0}

VARIABLES
    log,        \* per caller: the hooks of its manager, in the order called
    send,       \* per caller: its call of send
    stored      \* the seeds whose events the Event API has

\* What the Event API or something in front of it answers: the events' ids,
\* ids and an error, a 4xx or a 5xx with an error, one whose JSON has no error,
\* or one that is not JSON.
ServerErrors == {"broken", "broken, no error", "broken, not JSON"}
Responses == {"accepted", "partial", "rejected", "rejected, no error",
              "rejected, not JSON"} \cup ServerErrors
NotJson == {"rejected, not JSON", "broken, not JSON"}
WithIds == {"accepted", "partial"}
WithoutError == {"accepted", "rejected, no error", "broken, no error"}

Unsent == [pc |-> "unsent", attempts |-> 0, seed |-> 0, resp |-> Nobody]

SendInit ==
    /\ log = [c \in Callers |-> << >>]
    /\ send = [c \in Callers |-> Unsent]
    /\ stored = {}

SendEnded(c) == send[c].pc \in {"returned", "raised"}

Logged(c, called) == log' = [log EXCEPT ![c] = @ \o called.calls]

\* The hooks after sending, and how the call ends. send runs them on the
\* result of a response that parsed; step.send_event always.
Ends(c, ok, hooked, mgr, raises, sync) ==
    LET after == Called(mgr, "after_send_events", raises, sync)
        fine  == ok /\ ~(hooked /\ after.error)
    IN  /\ IF hooked THEN Logged(c, after) ELSE UNCHANGED log
        /\ send' = [send EXCEPT ![c].pc = IF fine THEN "returned" ELSE "raised"]

\* send up to its first request, with the hooks of the manager "mgr". Without
\* an event key only dev mode sends.
BeginSend(c, how, mgr, hasKey, raises, sync) ==
    LET before == Called(mgr, "before_send_events", raises, sync)
        after  == Called(mgr, "after_send_events", raises, sync)
    IN  /\ send[c].pc = "unsent"
        /\ CASE before.error ->
                  /\ Logged(c, before)
                  /\ send' = [send EXCEPT ![c].pc = "raised"]
             [] ~before.error /\ ~hasKey ->
                  /\ log' = [log EXCEPT ![c] = @ \o before.calls \o
                        (IF how = "step" THEN after.calls ELSE << >>)]
                  /\ send' = [send EXCEPT ![c].pc = "raised"]
             [] ~before.error /\ hasKey ->
                  /\ Logged(c, before)
                  /\ send' = [send EXCEPT ![c].pc = "trying", ![c].seed = 1]
        /\ UNCHANGED stored

\* Mutant of SeedOf: every attempt has a seed of its own.
SeedOfAttempt(c) == <<c, send[c].attempts>>

\* The request, and the seed in its header, is built once (_build_send_request).
SeedOf(c) == <<c, send[c].seed>>

\* Neither a 5xx nor a missing response ends the loop.
Final(resp) == resp # Nobody /\ resp \notin ServerErrors

\* One attempt: what the API does with the request, and the response, which
\* an attempt that fails in the transport leaves as it was.
Attempt(c) ==
    /\ send[c].pc = "trying"
    /\ \E resp \in Responses \cup {send[c].resp} :
        /\ stored' \in IF resp \in WithIds THEN {stored \cup {SeedOf(c)}}
                       ELSE IF resp \in Responses \ ServerErrors THEN {stored}
                       ELSE {stored, stored \cup {SeedOf(c)}}
        /\ send' = [send EXCEPT
                ![c].resp = resp,
                ![c].attempts = @ + 1,
                ![c].pc = IF Final(resp) \/ send[c].attempts + 1 = MaxAttempts
                          THEN "tried" ELSE @]
    /\ UNCHANGED log

\* The last response decides: none or one that is not JSON is an error.
FinishSend(c, how, mgr, raises, sync) ==
    /\ send[c].pc = "tried"
    /\ LET parsed == send[c].resp \notin {Nobody} \cup NotJson
       IN  Ends(c, parsed /\ send[c].resp \in WithoutError,
                how = "step" \/ parsed, mgr, raises, sync)
    /\ UNCHANGED stored

=============================================================================
