----------------------------- MODULE Middleware -----------------------------
(***************************************************************************)
(* MiddlewareManager (middleware_lib/manager.py): which middleware's hook  *)
(* a call runs, in which order, and whether the call ends with an error.   *)
(* A middleware is a name. A request's manager has LoggerMiddleware, the   *)
(* client's and then the function's; the one of client.send lacks these.   *)
(***************************************************************************)
EXTENDS Naturals, Sequences, SequencesExt

CONSTANTS
    OfClient,       \* sequence of middleware: LoggerMiddleware, the client's
    AsyncMiddleware \* those that derive from Middleware, not MiddlewareSync

ASSUME MiddlewareAssumption ==
    OfClient # << >> /\ OfClient \in Seq(Range(OfClient))

\* MiddlewareManager.from_client, and what Function.call adds to it.
Installed(own) == OfClient \o own

BeforeHooks == {"transform_input", "before_execution", "before_send_events",
                "before_response"}
AfterHooks == {"after_execution", "after_send_events", "transform_output"}
Hooks == BeforeHooks \cup AfterHooks

\* Mutant of Order: transform_output runs first to last.
OrderOfInstall(installed, hook) == installed

\* "After" hooks run in reverse order.
Order(installed, hook) ==
    IF hook \in AfterHooks THEN Reverse(installed) ELSE installed

\* A hook that is a coroutine function cannot be run by a *_sync call.
Mismatched(middleware, sync) == sync /\ middleware \in AsyncMiddleware

\* The calls a manager makes for a hook, and whether it returns an error: it
\* stops at the first hook that raises, or before the first mismatched one.
\* The hook of the middleware "raises" names is the one that raises.
Called(installed, hook, raises, sync) ==
    LET order == Order(installed, hook)
        stops == {i \in DOMAIN order : \/ <<hook, order[i]>> = raises
                                       \/ Mismatched(order[i], sync)}
        first == CHOOSE i \in stops : \A j \in stops : i <= j
        last  == IF stops = {} THEN Len(order)
                 ELSE IF Mismatched(order[first], sync) THEN first - 1 ELSE first
    IN  [calls |-> [i \in 1 .. last |-> <<hook, order[i]>>],
         error |-> stops # {}]

=============================================================================
