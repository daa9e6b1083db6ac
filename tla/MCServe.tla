------------------------------ MODULE MCServe ------------------------------
(***************************************************************************)
(* Serve for TLC: six configurations of the app, the requests that tell    *)
(* the code's cases apart, and a second request that shares threads and    *)
(* logging contexts with the first.                                        *)
(***************************************************************************)
EXTENDS Serve

\* A production app whose keys rotate: Inngest already takes the new one only,
\* or still both; one with the wrong key; Dev Server apps; sync web servers.
Rotating == [mode |-> "cloud", key |-> "k1", fallback |-> "k2",
             accepts |-> {"k2"}, streaming |-> FALSE, pool |-> TRUE,
             functions |-> {"async", "sync"}, inBandSync |-> TRUE,
             server |-> "async", eventKey |-> TRUE]
Development == [Rotating EXCEPT !.mode = "dev", !.key = None, !.fallback = None,
                                !.streaming = TRUE, !.eventKey = FALSE]
Blocking == [Rotating EXCEPT !.fallback = None, !.accepts = {"k1"},
                !.functions = {"sync"}, !.server = "sync", !.inBandSync = FALSE]

MCConfigs == {
    Rotating, Development, Blocking,
    [Rotating EXCEPT !.accepts = {"k1", "k2"}, !.streaming = TRUE,
                     !.pool = FALSE, !.inBandSync = FALSE, !.eventKey = FALSE],
    [Blocking EXCEPT !.accepts = {"k2"}],
    [Development EXCEPT !.functions = {}, !.server = "sync"]}

Run == [method |-> "POST", connect |-> FALSE, sig |-> "k1", kind |-> None,
        inBand |-> FALSE, body |-> "ok", fn |-> "async", probe |-> FALSE,
        useApi |-> FALSE, memos |-> FALSE, left |-> FALSE, events |-> TRUE,
        sends |-> "no", ends |-> "output", own |-> <<"own">>, raises |-> << >>]

Signatures == {None, "malformed", "k1", "k2", "k3"}

\* Requests that only differ in how they arrive.
Arrivals ==
    {[Run EXCEPT !.sig = sig, !.body = body] :
        sig \in Signatures, body \in {"ok", "invalid", "not JSON"}}
    \cup {[Run EXCEPT !.fn = fn] : fn \in {None, "unknown", "sync"}}
    \cup {[Run EXCEPT !.probe = TRUE], [Run EXCEPT !.events = FALSE],
          [Run EXCEPT !.connect = TRUE, !.sig = None]}
    \cup {[Run EXCEPT !.useApi = TRUE, !.events = FALSE, !.memos = TRUE,
                      !.fn = fn, !.connect = connect, !.sig = "k1"] :
            fn \in {"async", "sync"}, connect \in BOOLEAN}

\* How functions end, replayed or not or in part, and what they send.
Runs ==
    {[Run EXCEPT !.ends = ends, !.memos = memos] : memos \in BOOLEAN,
        ends \in {"unserializable", "error", "non-retriable", "retry after",
                  "step", "failed step", "plan"}}
    \cup {[Run EXCEPT !.sends = sends, !.fn = fn, !.ends = "retry after"] :
            sends \in {"client", "step"}, fn \in {"async", "sync"}}
    \cup {[Run EXCEPT !.ends = ends, !.fn = fn, !.memos = TRUE, !.left = TRUE] :
            ends \in {"step", "non-retriable"}, fn \in {"async", "sync"}}
    \cup {[Run EXCEPT !.sends = "step", !.fn = "sync", !.memos = TRUE, !.left = TRUE]}

\* Hooks that raise, and a sync function with an async middleware.
Hooked ==
    {[Run EXCEPT !.raises = <<hook, mw>>, !.fn = fn, !.memos = memos] :
        hook \in Hooks \ {"before_send_events", "after_send_events"},
        mw \in {"client's", "own"}, fn \in {"async", "sync"}, memos \in BOOLEAN}
    \cup {[Run EXCEPT !.raises = <<"before_execution", "own">>, !.fn = fn,
                      !.memos = TRUE, !.left = TRUE] : fn \in {"async", "sync"}}
    \cup {[Run EXCEPT !.raises = <<hook, "client's">>, !.sends = sends] :
            hook \in {"before_send_events", "after_send_events"},
            sends \in {"client", "step"}}
    \cup {[Run EXCEPT !.own = <<"async own">>, !.fn = "sync"],
          [Run EXCEPT !.raises = <<"transform_output", "own">>,
                      !.ends = "non-retriable"]}

\* Syncs and inspections.
Others ==
    {[Run EXCEPT !.method = method, !.sig = sig, !.inBand = inBand] :
        method \in {"PUT", "GET"}, sig \in Signatures, inBand \in BOOLEAN}
    \cup {[Run EXCEPT !.method = method, !.kind = kind, !.inBand = inBand] :
            method \in {"PUT", "GET"}, kind \in {"dev", "cloud"}, inBand \in BOOLEAN}
    \cup {[Run EXCEPT !.method = "PUT", !.inBand = TRUE, !.body = "invalid"]}
    \cup {[Run EXCEPT !.method = method, !.sig = Unreadable] :
            method \in {"POST", "PUT", "GET"}}

\* The second request: it replays or not, on a thread or on the event loop.
Second ==
    {[Run EXCEPT !.fn = fn, !.memos = memos, !.sends = sends] :
        fn \in {"async", "sync"}, memos \in BOOLEAN, sends \in {"no"}}

MCShapes == <<Arrivals \cup Runs \cup Hooked \cup Others, Second>>
MCOfClient == <<"logger", "client's">>
=============================================================================
