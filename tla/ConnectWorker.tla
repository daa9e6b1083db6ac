--------------------------- MODULE ConnectWorker ---------------------------
(***************************************************************************)
(* The lifecycle of a Connect worker                                       *)
(* (pkg/inngest/inngest/connect/_internal): the tasks of the worker        *)
(* thread's event loop (IsolatedWorker.run, its message reader, the start  *)
(* request, the handshake's send task, the heartbeat sender, requests in   *)
(* flight and _close) and the main thread, which starts and closes it.     *)
(*                                                                         *)
(* An action is what one task does between two awaits. A connection is     *)
(* identified by the number of the start response that announced it: init  *)
(* is the response conn_init holds, ws the one whose websocket State.ws    *)
(* holds, ep the one whose endpoint run() uses; 0 is None. The gateway is  *)
(* external: it greets, accepts WORKER_CONNECT, gets ready, sends requests *)
(* and announces that it closes.                                           *)
(***************************************************************************)
EXTENDS Naturals, FiniteSets

CONSTANTS
    MaxStarts,      \* bound: start responses, hence connections
    MaxRequests,    \* bound: execution requests
    MaxDrops,       \* bound: lost or refused websockets
    MaxDrains,      \* bound: GATEWAY_CLOSING messages
    MaxRefusals,    \* bound: start requests that fail for good
    MaxCloses,      \* bound: effective calls of close()
    MaxTimeouts     \* bound: expirations of GRACEFUL_SHUTDOWN_TIMEOUT_SEC

ASSUME BoundsAssumption ==
    /\ MaxStarts \in Nat /\ MaxRequests \in Nat /\ MaxDrops \in Nat
    /\ MaxDrains \in Nat /\ MaxRefusals \in Nat /\ MaxCloses \in Nat
    /\ MaxTimeouts \in Nat

VARIABLES
    st,         \* models.State, with the handshake handler's state
    pc,         \* where run() is
    ep,         \* the endpoint run() connected to
    sock,       \* that websocket: none, open, or dead
    reader,     \* whether _handle_msg runs on it
    gw,         \* the gateway's end of that websocket
    starter,    \* the task of _send_start_request
    starts,     \* start responses so far
    syncer,     \* the handshake's _send_data_task
    hb,         \* the heartbeat sender
    waiting,    \* requests that are not acknowledged yet
    working,    \* requests whose function runs
    closing,    \* handlers were told to close
    closed,     \* every handler is closed
    scheduled,  \* calls of schedule_close the loop has not run
    closers,    \* _close tasks that wait for the handlers
    left,       \* what the environment may still do
    seen        \* observer: paused connections, early heartbeats, handshake
                \* states set by an outdated task, expired shutdowns

vars == <<st, pc, ep, sock, reader, gw, starter, starts, syncer, hb, waiting,
          working, closing, closed, scheduled, closers, left, seen>>

conn == <<pc, ep, sock, reader>>
work == <<waiting, working>>
shutdown == <<closing, closed, scheduled, closers>>

Epochs == 0 .. MaxStarts

Pending == waiting + working

-----------------------------------------------------------------------------
(* The shared state.                                                        *)

\* Mutant of SetInit: the handshake state is not reset.
SetInitKeepsHandshake(s, e) ==
    IF e = s.init THEN s ELSE [s EXCEPT !.init = e, !.changed = TRUE]

\* conn_init.value = e. Equal values are not reported. A change wakes run(),
\* and a change to None the handshake's _reconnect_watcher.
SetInit(s, e) ==
    IF e = s.init THEN s
    ELSE [s EXCEPT !.init = e, !.changed = TRUE,
                   !.hs = IF e = 0 THEN "AWAITING_HELLO" ELSE @]

\* Mutants of CloseWs: CLOSED is overwritten; the state or conn_init stays.
CloseWsReopens(s) == [SetInit(s, 0) EXCEPT !.ws = 0, !.conn = "RECONNECTING"]
CloseWsKeepsState(s) == [SetInit(s, 0) EXCEPT !.ws = 0]
CloseWsKeepsInit(s) ==
    [s EXCEPT !.ws = 0, !.conn = IF @ = "CLOSED" THEN @ ELSE "RECONNECTING"]

\* State.close_ws
CloseWs(s) ==
    [SetInit(s, 0) EXCEPT !.ws = 0,
         !.conn = IF @ = "CLOSED" THEN @ ELSE "RECONNECTING"]

\* The worker's loop exists and its run() has not returned.
Alive == pc \notin {"new", "done"}

\* ws.send to the websocket of connection e works.
Reaches(e) == e = ep /\ sock = "open"

NoGateway == [greeted |-> FALSE, phase |-> "fresh"]
NoSync == [pc |-> "none", data |-> 0, to |-> 0]

Init ==
    /\ st = [conn |-> "CONNECTING", init |-> 0, ws |-> 0, changed |-> FALSE,
             hs |-> "AWAITING_HELLO", hsDone |-> FALSE, fatal |-> FALSE]
    /\ pc = "new" /\ ep = 0 /\ sock = "none" /\ reader = FALSE
    /\ gw = NoGateway
    /\ starter = "none" /\ starts = 0
    /\ syncer = NoSync
    /\ hb = [pc |-> "none", to |-> 0]
    /\ waiting = 0 /\ working = 0
    /\ closing = FALSE /\ closed = FALSE /\ scheduled = 0 /\ closers = 0
    /\ left = [requests |-> MaxRequests, drops |-> MaxDrops, drains |-> MaxDrains,
               refusals |-> MaxRefusals, closes |-> MaxCloses, timeouts |-> MaxTimeouts]
    /\ seen = [paused |-> {}, early |-> FALSE, crossed |-> FALSE, timedOut |-> FALSE]

\* Takes one from a bound of the environment.
Spend(what) == left[what] > 0 /\ left' = [left EXCEPT ![what] = @ - 1]

-----------------------------------------------------------------------------
(* WorkerConnection.start and IsolatedWorker.run.                           *)

Start ==
    /\ pc = "new"
    /\ pc' = "endpoint" /\ starter' = "wait" /\ hb' = [hb EXCEPT !.pc = "handshake"]
    /\ UNCHANGED <<st, ep, sock, reader, gw, starts, syncer, work, shutdown, left, seen>>

\* allow_reconnect() and _wait_for_gateway_endpoint, in its order of priority.
Stops == pc = "endpoint" /\ (st.fatal \/ st.conn = "CLOSED")

\* run()'s finally block closes the handlers unless _close did.
EndRun ==
    /\ Stops
    /\ pc' = "ending" /\ closing' = TRUE
    /\ UNCHANGED <<st, ep, sock, reader, gw, starter, starts, syncer, hb, work,
                   closed, scheduled, closers, left, seen>>

\* A send on a websocket that was closed returns when the websocket is gone,
\* hence before run() opens the next one.
NoSendLeft == syncer.pc # "sending" /\ hb.pc # "sending"

Connect ==
    /\ pc = "endpoint" /\ ~Stops /\ st.init # 0 /\ NoSendLeft
    /\ pc' = "connecting" /\ ep' = st.init
    /\ UNCHANGED <<st, sock, reader, gw, starter, starts, syncer, hb, work, shutdown,
                   left, seen>>

\* The websocket opens; from here run() waits for conn_init to change.
WsOpens ==
    /\ pc = "connecting"
    /\ pc' = "watching" /\ sock' = "open" /\ reader' = TRUE /\ gw' = NoGateway
    /\ st' = [st EXCEPT !.ws = ep, !.changed = FALSE]
    /\ UNCHANGED <<ep, starter, starts, syncer, hb, work, shutdown, left, seen>>

WsRefused ==
    /\ pc = "connecting"
    /\ Spend("drops")
    /\ pc' = "endpoint" /\ st' = CloseWs(st)
    /\ UNCHANGED <<ep, sock, reader, gw, starter, starts, syncer, hb, work, shutdown, seen>>

\* The change is seen, POST_CONNECT_SETTLE_SEC pass, the websocket is closed.
Notice ==
    /\ pc = "watching" /\ st.changed
    /\ pc' = "settling"
    /\ UNCHANGED <<st, ep, sock, reader, gw, starter, starts, syncer, hb, work, shutdown,
                   left, seen>>

LeaveWs ==
    /\ pc = "settling"
    /\ pc' = "joining" /\ sock' = "none"
    /\ UNCHANGED <<st, ep, reader, gw, starter, starts, syncer, hb, work, shutdown, left, seen>>

Joined ==
    /\ pc = "joining" /\ ~reader
    /\ pc' = "endpoint"
    /\ UNCHANGED <<st, ep, sock, reader, gw, starter, starts, syncer, hb, work, shutdown,
                   left, seen>>

\* _wait_for_handlers_closed returns: they are closed, or the time is over.
HandlersAwaited ==
    \/ closed /\ UNCHANGED <<left, seen>>
    \/ ~closed /\ Spend("timeouts") /\ seen' = [seen EXCEPT !.timedOut = TRUE]

RunReturns ==
    /\ pc = "ending" /\ HandlersAwaited
    /\ pc' = "done"
    /\ st' = CloseWs([st EXCEPT !.conn = "CLOSED"])
    /\ UNCHANGED <<ep, sock, reader, gw, starter, starts, syncer, hb, work, shutdown>>

\* The connection is lost (the environment).
Drop ==
    /\ sock = "open" /\ Spend("drops")
    /\ sock' = "dead"
    /\ UNCHANGED <<st, pc, ep, reader, gw, starter, starts, syncer, hb, work, shutdown, seen>>

\* The end of _handle_msg on a websocket that was closed.
ReaderEnds ==
    /\ reader /\ sock # "open"
    /\ reader' = FALSE
    /\ st' = IF st.ws # 0 THEN CloseWs(st) ELSE st
    /\ UNCHANGED <<pc, ep, sock, gw, starter, starts, syncer, hb, work, shutdown, left, seen>>

-----------------------------------------------------------------------------
(* ConnInitHandler._send_start_request.                                     *)

StarterWakes ==
    /\ Alive /\ starter = "wait" /\ st.init = 0
    /\ IF st.conn = "CLOSED"
       THEN starter' = "ended" /\ st' = st
       ELSE starter' = "fetch" /\ st' = [st EXCEPT !.conn = "CONNECTING"]
    /\ UNCHANGED <<conn, gw, starts, syncer, hb, work, shutdown, left, seen>>

\* A response after at most MAX_CONN_INIT_ATTEMPTS attempts.
StartAccepted ==
    /\ Alive /\ starter = "fetch" /\ starts < MaxStarts
    /\ starter' = "wait" /\ starts' = starts + 1
    /\ st' = SetInit(st, starts + 1)
    /\ UNCHANGED <<conn, gw, syncer, hb, work, shutdown, left, seen>>

\* 401, 403, or the last attempt failed: the error is fatal.
StartRefused ==
    /\ Alive /\ starter = "fetch"
    /\ \/ Spend("refusals")
       \/ starts = MaxStarts /\ UNCHANGED left
    /\ starter' = "ended" /\ st' = [st EXCEPT !.fatal = TRUE]
    /\ UNCHANGED <<conn, gw, starts, syncer, hb, work, shutdown, seen>>

-----------------------------------------------------------------------------
(* Messages: IsolatedWorker._handle_msg gives each to every handler, without *)
(* an await.                                                                 *)

\* What the gateway may send (external). READY answers WORKER_CONNECT.
Sends(kind) ==
    CASE kind = "HELLO"   -> ~gw.greeted /\ UNCHANGED left
      [] kind = "READY"   -> gw.greeted /\ gw.phase = "connected" /\ UNCHANGED left
      [] kind = "REQUEST" -> gw.phase = "ready" /\ Spend("requests")
      [] kind = "CLOSING" -> gw.greeted /\ Spend("drains")

Kinds == {"HELLO", "READY", "REQUEST", "CLOSING"}

GatewayAfter(kind) ==
    CASE kind = "HELLO" -> [gw EXCEPT !.greeted = TRUE]
      [] kind = "READY" -> [gw EXCEPT !.phase = "ready"]
      [] OTHER          -> gw

\* InitHandshakeHandler.handle_msg: the state it moves to.
Handshake(s, kind) ==
    CASE s.hs = "AWAITING_HELLO" /\ kind = "HELLO" ->
            [s EXCEPT !.hs = "AWAITING_SYNC_COMPLETE", !.hsDone = FALSE]
      [] s.hs = "AWAITING_READY" /\ kind = "READY" ->
            [s EXCEPT !.hs = "COMPLETE", !.conn = "ACTIVE", !.hsDone = TRUE]
      [] OTHER -> s

\* While it awaits the sync, each message replaces the task that sends it.
Message ==
    \E kind \in Kinds :
        LET s == Handshake(st, kind) IN
        /\ reader /\ sock = "open" /\ st.init # 0
        /\ Sends(kind)
        /\ gw' = GatewayAfter(kind)
        /\ syncer' = IF s.hs = "AWAITING_SYNC_COMPLETE"
                     THEN [pc |-> "wait", data |-> st.init, to |-> 0]
                     ELSE syncer
        /\ waiting' = IF kind = "REQUEST" /\ ~closing THEN waiting + 1 ELSE waiting
        /\ st' = IF kind = "CLOSING" THEN CloseWs(s) ELSE s
        /\ UNCHANGED <<conn, starter, starts, hb, working, shutdown, seen>>

\* While conn_init is None the reader stops at the next message.
ReaderStops ==
    /\ reader /\ sock = "open" /\ st.init = 0
    /\ \E kind \in Kinds : Sends(kind) /\ gw' = GatewayAfter(kind)
    /\ reader' = FALSE
    /\ UNCHANGED <<st, pc, ep, sock, starter, starts, syncer, hb, work, shutdown, seen>>

-----------------------------------------------------------------------------
(* InitHandshakeHandler._send_response.                                     *)

SyncStarts ==
    /\ Alive /\ syncer.pc = "wait" /\ st.ws # 0
    /\ syncer' = [syncer EXCEPT !.pc = "sending", !.to = st.ws]
    /\ UNCHANGED <<st, conn, gw, starter, starts, hb, work, shutdown, left, seen>>

\* WORKER_CONNECT is sent. The gateway that announced the data accepts it;
\* what another one does with it is not known.
SyncSent ==
    /\ Alive /\ syncer.pc = "sending" /\ Reaches(syncer.to)
    /\ syncer' = NoSync
    /\ st' = [st EXCEPT !.hs = "AWAITING_READY"]
    /\ \/ gw' = [gw EXCEPT !.phase = IF @ = "fresh" THEN "connected" ELSE @]
       \/ syncer.data # ep /\ gw' = gw
    /\ seen' = [seen EXCEPT !.crossed = @ \/ st.hs # "AWAITING_SYNC_COMPLETE"
                                          \/ syncer.data # ep]
    /\ UNCHANGED <<conn, starter, starts, hb, work, shutdown, left>>

\* safe_send on a websocket that is closed by now.
SyncFails ==
    /\ Alive /\ syncer.pc = "sending" /\ ~Reaches(syncer.to)
    /\ syncer' = NoSync /\ st' = CloseWs(st)
    /\ UNCHANGED <<conn, gw, starter, starts, hb, work, shutdown, left, seen>>

-----------------------------------------------------------------------------
(* HeartbeatHandler._heartbeat_sender: two waits, then a send.              *)

HandshakeSeen ==
    /\ Alive /\ hb.pc = "handshake" /\ st.hsDone
    /\ hb' = [hb EXCEPT !.pc = "ws"]
    /\ UNCHANGED <<st, conn, gw, starter, starts, syncer, work, shutdown, left, seen>>

HeartbeatStarts ==
    /\ Alive /\ hb.pc = "ws" /\ st.ws # 0
    /\ hb' = [pc |-> "sending", to |-> st.ws]
    /\ UNCHANGED <<st, conn, gw, starter, starts, syncer, work, shutdown, left, seen>>

\* Then HEARTBEAT_INTERVAL_SEC pass.
HeartbeatSent ==
    /\ Alive /\ hb.pc = "sending"
    /\ hb' = [pc |-> "handshake", to |-> 0]
    /\ IF Reaches(hb.to)
       THEN st' = st /\ seen' = [seen EXCEPT !.early = @ \/ gw.phase # "ready"]
       ELSE st' = CloseWs(st) /\ seen' = seen
    /\ UNCHANGED <<conn, gw, starter, starts, syncer, work, shutdown, left>>

-----------------------------------------------------------------------------
(* ExecutionHandler._execute_request, as far as the worker sees it.         *)

\* WORKER_REQUEST_ACK: the function is called only when it was sent. When it
\* was not, the reply fails as well and the request is over.
Acknowledge ==
    /\ Alive /\ waiting > 0 /\ st.ws # 0
    /\ waiting' = waiting - 1
    /\ IF Reaches(st.ws) THEN working' = working + 1 /\ st' = st
                         ELSE working' = working /\ st' = CloseWs(st)
    /\ UNCHANGED <<conn, gw, starter, starts, syncer, hb, shutdown, left, seen>>

\* Mutant of Reply: the request is taken off the count twice.
ReplyCountedTwice ==
    /\ Alive /\ working > 0
    /\ working' = working - 2
    /\ st' = IF st.ws = 0 \/ Reaches(st.ws) THEN st ELSE CloseWs(st)
    /\ UNCHANGED <<conn, gw, starter, starts, syncer, hb, waiting, shutdown, left, seen>>

\* The function ended: WORKER_REPLY, if there is a websocket.
Reply ==
    /\ Alive /\ working > 0
    /\ working' = working - 1
    /\ st' = IF st.ws = 0 \/ Reaches(st.ws) THEN st ELSE CloseWs(st)
    /\ UNCHANGED <<conn, gw, starter, starts, syncer, hb, waiting, shutdown, left, seen>>

-----------------------------------------------------------------------------
(* Shutdown.                                                                *)

\* WorkerConnection._close in the main thread; without a loop it only sets
\* the state.
Close ==
    /\ st.conn \notin {"CLOSING", "CLOSED"}
    /\ Spend("closes")
    /\ st' = [st EXCEPT !.conn = "CLOSING"]
    /\ scheduled' = IF pc = "new" THEN scheduled ELSE scheduled + 1
    /\ UNCHANGED <<conn, gw, starter, starts, syncer, hb, work, closing, closed, closers, seen>>

\* IsolatedWorker._close: WORKER_PAUSE, then the handlers close.
Pause ==
    /\ Alive /\ scheduled > 0
    /\ scheduled' = scheduled - 1 /\ closers' = closers + 1 /\ closing' = TRUE
    /\ seen' = IF st.ws # 0 /\ Reaches(st.ws)
               THEN [seen EXCEPT !.paused = @ \union {st.ws}] ELSE seen
    /\ UNCHANGED <<st, conn, gw, starter, starts, syncer, hb, work, closed, left>>

\* Mutant of HandlersClose: it does not wait for the requests in flight.
HandlersCloseAtOnce ==
    /\ Alive /\ closing /\ ~closed
    /\ closed' = TRUE
    /\ starter' = "ended" /\ syncer' = NoSync /\ hb' = [pc |-> "ended", to |-> 0]
    /\ UNCHANGED <<st, conn, gw, starts, work, closing, scheduled, closers, left, seen>>

\* BaseHandler.close: no request is pending, after_close_drained ends the
\* handlers' tasks.
HandlersClose ==
    /\ Alive /\ closing /\ ~closed /\ Pending = 0
    /\ closed' = TRUE
    /\ starter' = "ended" /\ syncer' = NoSync /\ hb' = [pc |-> "ended", to |-> 0]
    /\ UNCHANGED <<st, conn, gw, starts, work, closing, scheduled, closers, left, seen>>

\* Mutant of CloseEnds: conn_init stays, so run() sees no change.
CloseEndsKeepsInit ==
    /\ Alive /\ closers > 0 /\ HandlersAwaited
    /\ closers' = closers - 1
    /\ st' = [st EXCEPT !.conn = "CLOSED"]
    /\ UNCHANGED <<conn, gw, starter, starts, syncer, hb, work, closing, closed, scheduled>>

\* The end of IsolatedWorker._close.
CloseEnds ==
    /\ Alive /\ closers > 0 /\ HandlersAwaited
    /\ closers' = closers - 1
    /\ st' = SetInit([st EXCEPT !.conn = "CLOSED"], 0)
    /\ UNCHANGED <<conn, gw, starter, starts, syncer, hb, work, closing, closed, scheduled>>

-----------------------------------------------------------------------------
RunStep == EndRun \/ Connect \/ WsOpens \/ Notice \/ LeaveWs \/ Joined \/ RunReturns
StarterStep == StarterWakes \/ StartAccepted \/ StartRefused
SyncStep == SyncStarts \/ SyncSent \/ SyncFails
HeartbeatStep == HandshakeSeen \/ HeartbeatStarts \/ HeartbeatSent
RequestStep == Acknowledge \/ Reply

Next ==
    \/ Start \/ RunStep \/ WsRefused \/ Drop
    \/ Message \/ ReaderEnds \/ ReaderStops
    \/ StarterStep \/ SyncStep \/ HeartbeatStep \/ RequestStep
    \/ Close \/ Pause \/ HandlersClose \/ CloseEnds

Spec == Init /\ [][Next]_vars

\* The program starts the worker, its event loop runs every task that can go
\* on, functions end, sends return, a start request gets an answer.
Fairness ==
    /\ WF_vars(Start) /\ WF_vars(RunStep) /\ WF_vars(ReaderEnds)
    /\ WF_vars(StarterStep) /\ WF_vars(SyncStep) /\ WF_vars(HeartbeatStep)
    /\ WF_vars(RequestStep) /\ WF_vars(Pause) /\ WF_vars(HandlersClose)
    /\ WF_vars(CloseEnds)

FairSpec == Spec /\ Fairness

-----------------------------------------------------------------------------
(* Properties.                                                              *)

States == {"CONNECTING", "ACTIVE", "RECONNECTING", "CLOSING", "CLOSED"}
HandshakeStates == {"AWAITING_HELLO", "AWAITING_SYNC_COMPLETE", "AWAITING_READY", "COMPLETE"}

StateType ==
    [conn : States, init : Epochs, ws : Epochs, changed : BOOLEAN,
     hs : HandshakeStates, hsDone : BOOLEAN, fatal : BOOLEAN]

GatewayType == [greeted : BOOLEAN, phase : {"fresh", "connected", "ready"}]
SyncType == [pc : {"none", "wait", "sending"}, data : Epochs, to : Epochs]
HeartbeatType == [pc : {"none", "handshake", "ws", "sending", "ended"}, to : Epochs]
LeftType == [{"requests", "drops", "drains", "refusals", "closes", "timeouts"} -> Nat]
SeenType ==
    [paused : SUBSET Epochs, early : BOOLEAN, crossed : BOOLEAN, timedOut : BOOLEAN]

\* Types; bounds on the environment are part of them.
TypeOK ==
    /\ st \in StateType
    /\ pc \in {"new", "endpoint", "connecting", "watching", "settling", "joining",
               "ending", "done"}
    /\ ep \in Epochs /\ sock \in {"none", "open", "dead"} /\ reader \in BOOLEAN
    /\ gw \in GatewayType
    /\ starter \in {"none", "wait", "fetch", "ended"} /\ starts \in Epochs
    /\ syncer \in SyncType /\ hb \in HeartbeatType
    /\ waiting \in Nat /\ working \in Nat
    /\ closing \in BOOLEAN /\ closed \in BOOLEAN
    /\ scheduled \in Nat /\ closers \in Nat
    /\ left \in LeftType /\ seen \in SeenType

\* CLOSED is the end: start() returns on it, and no task of the worker takes
\* the state back (unless the shutdown timed out and left tasks behind).
ClosedIsFinal ==
    [][st.conn = "CLOSED" /\ ~seen.timedOut => st'.conn = "CLOSED"]_vars

\* The worker is CLOSED only after the requests in flight ended; until then
\* heartbeats go on and the worker can still fetch a new connection
\* (ARCHITECTURE.md, Graceful Shutdown), unless a fatal error ended that.
DrainsBeforeClosed ==
    /\ st.conn = "CLOSED" /\ ~seen.timedOut => Pending = 0
    /\ Pending > 0 /\ Alive => /\ hb.pc # "ended"
                               /\ starter = "ended" => st.fatal \/ st.conn = "CLOSED"

\* ACTIVE is said of a connection whose handshake is complete on both sides,
\* never of a new connection because of the previous one's handshake (unless
\* an outdated task sent WORKER_CONNECT). And a request that waits for a
\* websocket can use only one that run() opened last: before run() connects
\* again, State.ws is None (or it shuts down).
ActiveIsReady ==
    /\ st.conn = "ACTIVE" /\ ~seen.crossed =>
        /\ st.ws # 0 /\ st.init # 0
        /\ st.hs = "COMPLETE" /\ st.hsDone /\ gw.phase = "ready"
    /\ st.ws # 0 => st.ws = ep
    /\ pc \in {"endpoint", "connecting"} /\ st.ws # 0 => st.conn = "CLOSED"

\* conn_init became None while run() still connected: run() waits for another
\* change, and nobody will make it.
Hung == pc = "watching" /\ ~st.changed /\ st.init = 0 /\ starter = "ended"

\* After close(), and after a fatal error, the worker's thread ends, or hangs
\* in the way CloseReturns describes.
CloseEndsRun == (scheduled > 0 \/ (st.fatal /\ Alive)) ~> (pc = "done" \/ Hung)

\* A worker that lost its connection opens another one, shuts down or fails
\* (ARCHITECTURE.md, Draining: "must immediately reconnect").
Reconnects ==
    (Alive /\ st.ws = 0) ~> (st.ws # 0 \/ st.fatal \/ st.conn = "CLOSED")

\* The gateway greets and gets ready.
GatewayAnswers == (Message \/ ReaderStops) /\ gw' # gw

GatewaySpec == FairSpec /\ WF_vars(GatewayAnswers)

\* The handshake of an open connection completes, or the connection is given
\* up; unless an outdated task disturbed it.
HandshakeCompletes ==
    (pc = "watching" /\ sock = "open") ~>
        \/ st.hs = "COMPLETE"
        \/ pc # "watching" \/ sock # "open"
        \/ seen.crossed \/ Hung

-----------------------------------------------------------------------------
(* What the code says of itself and does not do. TLC refutes each of these  *)
(* under Spec, CloseReturns under FairSpec.                                 *)

\* "Test that the worker gracefully closes even if it never establishes a
\* connection": after close() the worker's thread ends.
CloseReturns == scheduled > 0 ~> pc = "done"

\* "We can't send heartbeats until the handshake is complete."
HeartbeatsAfterHandshake == ~seen.early

\* _HandshakeState: AWAITING_READY is reached from AWAITING_SYNC_COMPLETE.
HandshakeInOrder ==
    [][st'.hs = "AWAITING_READY" => st.hs \in {"AWAITING_SYNC_COMPLETE", "AWAITING_READY"}]_vars

\* Graceful shutdown: the pause message "tells the server to stop sending new
\* execution requests": while the requests in flight drain, a gateway that
\* may send some has got it.
PausedWhileClosing ==
    closing /\ Pending > 0 /\ st.conn = "ACTIVE" /\ st.ws # 0 /\ Reaches(st.ws) =>
        st.ws \in seen.paused
=============================================================================
