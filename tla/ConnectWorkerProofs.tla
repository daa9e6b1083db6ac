------------------------ MODULE ConnectWorkerProofs ------------------------
(***************************************************************************)
(* CLOSED is final and follows the requests in flight, for every number of  *)
(* connections, requests, faults and calls of close().                      *)
(***************************************************************************)
EXTENDS ConnectWorker, TLAPS

\* Handlers are closed once: their tasks ended, no request is pending and none
\* is accepted. The start request ended earlier only for a fatal error or
\* because the worker is CLOSED for good. CLOSED, unless the shutdown timed
\* out, means that the handlers are closed and no connection is left to
\* complete a handshake on.
Shutdown ==
    /\ pc = "new" => ~closed /\ hb.pc = "none"
    /\ hb.pc = "ended" => closed
    /\ closed => closing /\ waiting = 0 /\ working = 0 /\ starter = "ended"
    /\ starter = "ended" => closed \/ st.fatal \/ (st.conn = "CLOSED" /\ st.init = 0)
    /\ st.conn = "CLOSED" /\ ~seen.timedOut => closed /\ st.init = 0

IInv == TypeOK /\ Shutdown
-----------------------------------------------------------------------------
(* The shared state.                                                        *)

LEMMA ZeroEpoch == 0 \in Epochs
BY BoundsAssumption DEF Epochs

\* What setting conn_init keeps.
LEMMA SetInitKeeps ==
    ASSUME NEW s \in StateType, NEW e \in Epochs
    PROVE  /\ SetInit(s, e) \in StateType
           /\ SetInit(s, e).init = e
           /\ SetInit(s, e).conn = s.conn
           /\ SetInit(s, e).fatal = s.fatal
BY DEF SetInit, StateType, HandshakeStates

\* close_ws clears conn_init and leaves CLOSED alone.
LEMMA CloseWsKeeps ==
    ASSUME NEW s \in StateType
    PROVE  /\ CloseWs(s) \in StateType
           /\ CloseWs(s).init = 0
           /\ CloseWs(s).conn = "CLOSED" <=> s.conn = "CLOSED"
           /\ CloseWs(s).fatal = s.fatal
<1>1. SetInit(s, 0) \in StateType /\ SetInit(s, 0).init = 0
      /\ SetInit(s, 0).conn = s.conn /\ SetInit(s, 0).fatal = s.fatal
    BY ZeroEpoch, SetInitKeeps
<1> QED BY <1>1, ZeroEpoch DEF CloseWs, StateType, States

\* A message takes the state out of CLOSED only while a connection is set.
LEMMA HandshakeKeeps ==
    ASSUME NEW s \in StateType, NEW kind
    PROVE  /\ Handshake(s, kind) \in StateType
           /\ Handshake(s, kind).init = s.init
           /\ Handshake(s, kind).fatal = s.fatal
           /\ Handshake(s, kind).conn = "CLOSED" => s.conn = "CLOSED"
BY DEF Handshake, StateType, States, HandshakeStates

\* Spending keeps the bounds natural numbers.
LEMMA SpendTyped ==
    ASSUME left \in LeftType, NEW what \in DOMAIN left, Spend(what)
    PROVE  left' \in LeftType
BY DEF Spend, LeftType
-----------------------------------------------------------------------------
LEMMA InitIInv == Init => IInv
<1> SUFFICES ASSUME Init PROVE IInv
    OBVIOUS
<1>1. left \in LeftType
    BY BoundsAssumption DEF Init, LeftType
<1>2. TypeOK
    BY <1>1, ZeroEpoch DEF Init, TypeOK, StateType, States, HandshakeStates, NoGateway,
       NoSync, LeftType, GatewayType, SyncType,
       HeartbeatType, SeenType
<1>3. Shutdown
    BY DEF Init, Shutdown
<1> QED BY <1>2, <1>3 DEF IInv

-----------------------------------------------------------------------------

\* run() and its websocket.
LEMMA RunIInv ==
    ASSUME IInv, Start \/ EndRun \/ Connect \/ WsOpens \/ Notice \/ LeaveWs \/ Joined \/ RunReturns \/ WsRefused \/ Drop \/ ReaderEnds
    PROVE  IInv'
<1>1. TypeOK /\ Shutdown /\ st \in StateType /\ left \in LeftType /\ 0 \in Epochs
    BY ZeroEpoch DEF IInv, TypeOK
<1>2. CASE Start
  <2>1. hb' \in HeartbeatType
      BY <1>1, <1>2 DEF Start, TypeOK, HeartbeatType
  <2>2. TypeOK'
      BY <1>1, <1>2, <2>1 DEF Start, TypeOK, conn, work, shutdown
  <2>3. Shutdown'
      BY <1>1, <1>2, <2>1 DEF Start, Alive, TypeOK, Shutdown, conn, work, shutdown
  <2> QED BY <2>2, <2>3 DEF IInv
<1>3. CASE EndRun
  <2>1. TypeOK'
      BY <1>1, <1>3 DEF EndRun, TypeOK, conn, work, shutdown
  <2>2. Shutdown'
      BY <1>1, <1>3 DEF EndRun, Stops, TypeOK, Shutdown, conn, work, shutdown
  <2> QED BY <2>1, <2>2 DEF IInv
<1>4. CASE Connect
  <2>1. TypeOK'
      BY <1>1, <1>4 DEF Connect, StateType, TypeOK, conn, work, shutdown
  <2>2. Shutdown'
      BY <1>1, <1>4 DEF Connect, Stops, TypeOK, Shutdown, conn, work, shutdown
  <2> QED BY <2>1, <2>2 DEF IInv
<1>5. CASE WsOpens
  <2>1. st' \in StateType /\ gw' \in GatewayType
      BY <1>1, <1>5 DEF WsOpens, TypeOK, StateType, NoGateway, GatewayType
  <2>2. TypeOK'
      BY <1>1, <1>5, <2>1 DEF WsOpens, TypeOK, conn, work, shutdown
  <2>3. Shutdown'
      BY <1>1, <1>5, <2>1 DEF WsOpens, StateType, TypeOK, Shutdown, conn, work,
         shutdown
  <2> QED BY <2>2, <2>3 DEF IInv
<1>6. CASE Notice
  <2>1. TypeOK'
      BY <1>1, <1>6 DEF Notice, TypeOK, conn, work, shutdown
  <2>2. Shutdown'
      BY <1>1, <1>6 DEF Notice, TypeOK, Shutdown, conn, work, shutdown
  <2> QED BY <2>1, <2>2 DEF IInv
<1>7. CASE LeaveWs
  <2>1. TypeOK'
      BY <1>1, <1>7 DEF LeaveWs, TypeOK, conn, work, shutdown
  <2>2. Shutdown'
      BY <1>1, <1>7 DEF LeaveWs, TypeOK, Shutdown, conn, work, shutdown
  <2> QED BY <2>1, <2>2 DEF IInv
<1>8. CASE Joined
  <2>1. TypeOK'
      BY <1>1, <1>8 DEF Joined, TypeOK, conn, work, shutdown
  <2>2. Shutdown'
      BY <1>1, <1>8 DEF Joined, TypeOK, Shutdown, conn, work, shutdown
  <2> QED BY <2>1, <2>2 DEF IInv
<1>9. CASE RunReturns
  <2>1. [st EXCEPT !.conn = "CLOSED"] \in StateType
      BY <1>1 DEF StateType, States
  <2>2. st' \in StateType /\ st'.init = 0 /\ st'.fatal = st.fatal /\ st'.conn = "CLOSED"
      BY <1>1, <1>9, <2>1, CloseWsKeeps DEF RunReturns, StateType
  <2>3. left' \in LeftType
      BY <1>1, <1>9, SpendTyped DEF RunReturns, HandlersAwaited, LeftType
  <2>4. seen' \in SeenType /\ (closed \/ seen'.timedOut)
      BY <1>1, <1>9 DEF RunReturns, HandlersAwaited, TypeOK, SeenType
  <2>5. TypeOK'
      BY <1>1, <1>9, <2>1, <2>2, <2>3, <2>4 DEF RunReturns, TypeOK, conn, work,
         shutdown
  <2>6. Shutdown'
      BY <1>1, <1>9, <2>1, <2>2, <2>3, <2>4 DEF RunReturns, TypeOK, Shutdown, conn,
         work, shutdown
  <2> QED BY <2>5, <2>6 DEF IInv
<1>10. CASE WsRefused
  <2>1. st' \in StateType
      BY <1>1, <1>10, CloseWsKeeps DEF WsRefused
  <2>2. left' \in LeftType
      BY <1>1, <1>10, SpendTyped DEF WsRefused, LeftType
  <2>3. TypeOK'
      BY <1>1, <1>10, <2>1, <2>2 DEF WsRefused, TypeOK, conn, work, shutdown
  <2>4. Shutdown'
      BY <1>1, <1>10, <2>1, <2>2, CloseWsKeeps DEF WsRefused, TypeOK, Shutdown,
         conn, work, shutdown
  <2> QED BY <2>3, <2>4 DEF IInv
<1>11. CASE Drop
  <2>1. left' \in LeftType
      BY <1>1, <1>11, SpendTyped DEF Drop, LeftType
  <2>2. TypeOK'
      BY <1>1, <1>11, <2>1 DEF Drop, TypeOK, conn, work, shutdown
  <2>3. Shutdown'
      BY <1>1, <1>11, <2>1 DEF Drop, TypeOK, Shutdown, conn, work, shutdown
  <2> QED BY <2>2, <2>3 DEF IInv
<1>12. CASE ReaderEnds
  <2>1. st' \in StateType
      BY <1>1, <1>12, CloseWsKeeps DEF ReaderEnds
  <2>2. TypeOK'
      BY <1>1, <1>12, <2>1 DEF ReaderEnds, TypeOK, conn, work, shutdown
  <2>3. Shutdown'
      BY <1>1, <1>12, <2>1, CloseWsKeeps DEF ReaderEnds, TypeOK, Shutdown, conn,
         work, shutdown
  <2> QED BY <2>2, <2>3 DEF IInv
<1> QED BY <1>2, <1>3, <1>4, <1>5, <1>6, <1>7, <1>8, <1>9, <1>10, <1>11, <1>12

\* The start request.
LEMMA StarterIInv ==
    ASSUME IInv, StarterWakes \/ StartAccepted \/ StartRefused
    PROVE  IInv'
<1>1. TypeOK /\ Shutdown /\ st \in StateType /\ left \in LeftType /\ 0 \in Epochs
    BY ZeroEpoch DEF IInv, TypeOK
<1>2. CASE StarterWakes
  <2>1. st' \in StateType
      BY <1>1, <1>2 DEF StarterWakes, StateType, States
  <2>2. TypeOK'
      BY <1>1, <1>2, <2>1 DEF StarterWakes, TypeOK, conn, work, shutdown
  <2>3. Shutdown'
      BY <1>1, <1>2, <2>1 DEF StarterWakes, Alive, StateType, TypeOK, Shutdown,
         conn, work, shutdown
  <2> QED BY <2>2, <2>3 DEF IInv
<1>3. CASE StartAccepted
  <2>1. starts + 1 \in Epochs /\ starts + 1 # 0
      BY <1>1, <1>3, BoundsAssumption DEF StartAccepted, TypeOK, Epochs
  <2>2. st' \in StateType /\ st'.conn = st.conn /\ st'.fatal = st.fatal
      BY <1>1, <1>3, <2>1, SetInitKeeps DEF StartAccepted
  <2>3. TypeOK'
      BY <1>1, <1>3, <2>1, <2>2 DEF StartAccepted, TypeOK, conn, work, shutdown
  <2>4. Shutdown'
      BY <1>1, <1>3, <2>1, <2>2 DEF StartAccepted, Alive, TypeOK, Shutdown, conn,
         work, shutdown
  <2> QED BY <2>3, <2>4 DEF IInv
<1>4. CASE StartRefused
  <2>1. st' \in StateType
      BY <1>1, <1>4 DEF StartRefused, StateType
  <2>2. left' \in LeftType
      BY <1>1, <1>4, SpendTyped DEF StartRefused, LeftType
  <2>3. TypeOK'
      BY <1>1, <1>4, <2>1, <2>2 DEF StartRefused, TypeOK, conn, work, shutdown
  <2>4. Shutdown'
      BY <1>1, <1>4, <2>1, <2>2 DEF StartRefused, Alive, StateType, TypeOK,
         Shutdown, conn, work, shutdown
  <2> QED BY <2>3, <2>4 DEF IInv
<1> QED BY <1>2, <1>3, <1>4

\* WORKER_CONNECT.
LEMMA SyncIInv ==
    ASSUME IInv, SyncStarts \/ SyncSent \/ SyncFails
    PROVE  IInv'
<1>1. TypeOK /\ Shutdown /\ st \in StateType /\ left \in LeftType /\ 0 \in Epochs
    BY ZeroEpoch DEF IInv, TypeOK
<1>2. CASE SyncStarts
  <2>1. syncer' \in SyncType
      BY <1>1, <1>2 DEF SyncStarts, TypeOK, StateType, SyncType
  <2>2. TypeOK'
      BY <1>1, <1>2, <2>1 DEF SyncStarts, TypeOK, conn, work, shutdown
  <2>3. Shutdown'
      BY <1>1, <1>2, <2>1 DEF SyncStarts, Alive, TypeOK, Shutdown, conn, work,
         shutdown
  <2> QED BY <2>2, <2>3 DEF IInv
<1>3. CASE SyncSent
  <2>1. st' \in StateType
      BY <1>1, <1>3 DEF SyncSent, StateType, HandshakeStates
  <2>2. syncer' \in SyncType
      BY <1>1, <1>3 DEF SyncSent, NoSync, SyncType
  <2>3. gw' \in GatewayType
      BY <1>1, <1>3 DEF SyncSent, TypeOK, GatewayType
  <2>4. seen' \in SeenType /\ seen'.timedOut = seen.timedOut
      BY <1>1, <1>3 DEF SyncSent, TypeOK, StateType, SyncType, SeenType
  <2>5. TypeOK'
      BY <1>1, <1>3, <2>1, <2>2, <2>3, <2>4 DEF SyncSent, TypeOK, conn, work,
         shutdown
  <2>6. Shutdown'
      BY <1>1, <1>3, <2>1, <2>2, <2>3, <2>4 DEF SyncSent, Alive, StateType, TypeOK,
         Shutdown, conn, work, shutdown
  <2> QED BY <2>5, <2>6 DEF IInv
<1>4. CASE SyncFails
  <2>1. st' \in StateType
      BY <1>1, <1>4, CloseWsKeeps DEF SyncFails
  <2>2. syncer' \in SyncType
      BY <1>1, <1>4 DEF SyncFails, NoSync, SyncType
  <2>3. TypeOK'
      BY <1>1, <1>4, <2>1, <2>2 DEF SyncFails, TypeOK, conn, work, shutdown
  <2>4. Shutdown'
      BY <1>1, <1>4, <2>1, <2>2, CloseWsKeeps DEF SyncFails, Alive, TypeOK,
         Shutdown, conn, work, shutdown
  <2> QED BY <2>3, <2>4 DEF IInv
<1> QED BY <1>2, <1>3, <1>4

\* Heartbeats.
LEMMA HeartbeatIInv ==
    ASSUME IInv, HandshakeSeen \/ HeartbeatStarts \/ HeartbeatSent
    PROVE  IInv'
<1>1. TypeOK /\ Shutdown /\ st \in StateType /\ left \in LeftType /\ 0 \in Epochs
    BY ZeroEpoch DEF IInv, TypeOK
<1>2. CASE HandshakeSeen
  <2>1. hb' \in HeartbeatType
      BY <1>1, <1>2 DEF HandshakeSeen, TypeOK, HeartbeatType
  <2>2. TypeOK'
      BY <1>1, <1>2, <2>1 DEF HandshakeSeen, TypeOK, conn, work, shutdown
  <2>3. Shutdown'
      BY <1>1, <1>2, <2>1 DEF HandshakeSeen, Alive, TypeOK, Shutdown, conn, work,
         shutdown
  <2> QED BY <2>2, <2>3 DEF IInv
<1>3. CASE HeartbeatStarts
  <2>1. hb' \in HeartbeatType
      BY <1>1, <1>3 DEF HeartbeatStarts, TypeOK, StateType, HeartbeatType
  <2>2. TypeOK'
      BY <1>1, <1>3, <2>1 DEF HeartbeatStarts, TypeOK, conn, work, shutdown
  <2>3. Shutdown'
      BY <1>1, <1>3, <2>1 DEF HeartbeatStarts, Alive, TypeOK, Shutdown, conn, work,
         shutdown
  <2> QED BY <2>2, <2>3 DEF IInv
<1>4. CASE HeartbeatSent
  <2>1. st' \in StateType
      BY <1>1, <1>4, CloseWsKeeps DEF HeartbeatSent
  <2>2. hb' \in HeartbeatType
      BY <1>1, <1>4 DEF HeartbeatSent, HeartbeatType
  <2>3. seen' \in SeenType /\ seen'.timedOut = seen.timedOut
      BY <1>1, <1>4 DEF HeartbeatSent, TypeOK, GatewayType, SeenType
  <2>4. TypeOK'
      BY <1>1, <1>4, <2>1, <2>2, <2>3 DEF HeartbeatSent, TypeOK, conn, work,
         shutdown
  <2>5. Shutdown'
      BY <1>1, <1>4, <2>1, <2>2, <2>3, CloseWsKeeps DEF HeartbeatSent, Alive,
         TypeOK, Shutdown, conn, work, shutdown
  <2> QED BY <2>4, <2>5 DEF IInv
<1> QED BY <1>2, <1>3, <1>4

\* Requests in flight.
LEMMA RequestIInv ==
    ASSUME IInv, Acknowledge \/ Reply
    PROVE  IInv'
<1>1. TypeOK /\ Shutdown /\ st \in StateType /\ left \in LeftType /\ 0 \in Epochs
    BY ZeroEpoch DEF IInv, TypeOK
<1>2. CASE Acknowledge
  <2>1. st' \in StateType
      BY <1>1, <1>2, CloseWsKeeps DEF Acknowledge
  <2>2. waiting' \in Nat /\ working' \in Nat
      BY <1>1, <1>2 DEF Acknowledge, TypeOK
  <2>3. TypeOK'
      BY <1>1, <1>2, <2>1, <2>2 DEF Acknowledge, TypeOK, conn, work, shutdown
  <2>4. Shutdown'
      BY <1>1, <1>2, <2>1, <2>2, CloseWsKeeps DEF Acknowledge, Alive, TypeOK,
         Shutdown, conn, work, shutdown
  <2> QED BY <2>3, <2>4 DEF IInv
<1>3. CASE Reply
  <2>1. st' \in StateType
      BY <1>1, <1>3, CloseWsKeeps DEF Reply
  <2>2. working' \in Nat
      BY <1>1, <1>3 DEF Reply, TypeOK
  <2>3. TypeOK'
      BY <1>1, <1>3, <2>1, <2>2 DEF Reply, TypeOK, conn, work, shutdown
  <2>4. Shutdown'
      BY <1>1, <1>3, <2>1, <2>2, CloseWsKeeps DEF Reply, Alive, TypeOK, Shutdown,
         conn, work, shutdown
  <2> QED BY <2>3, <2>4 DEF IInv
<1> QED BY <1>2, <1>3

\* The shutdown.
LEMMA CloseIInv ==
    ASSUME IInv, Close \/ Pause \/ HandlersClose \/ CloseEnds
    PROVE  IInv'
<1>1. TypeOK /\ Shutdown /\ st \in StateType /\ left \in LeftType /\ 0 \in Epochs
    BY ZeroEpoch DEF IInv, TypeOK
<1>2. CASE Close
  <2>1. st' \in StateType
      BY <1>1, <1>2 DEF Close, StateType, States
  <2>2. left' \in LeftType
      BY <1>1, <1>2, SpendTyped DEF Close, LeftType
  <2>3. scheduled' \in Nat
      BY <1>1, <1>2 DEF Close, TypeOK
  <2>4. TypeOK'
      BY <1>1, <1>2, <2>1, <2>2, <2>3 DEF Close, TypeOK, conn, work, shutdown
  <2>5. Shutdown'
      BY <1>1, <1>2, <2>1, <2>2, <2>3 DEF Close, StateType, TypeOK, Shutdown, conn,
         work, shutdown
  <2> QED BY <2>4, <2>5 DEF IInv
<1>3. CASE Pause
  <2>1. seen' \in SeenType /\ seen'.timedOut = seen.timedOut
      BY <1>1, <1>3 DEF Pause, TypeOK, StateType, SeenType
  <2>2. scheduled' \in Nat /\ closers' \in Nat
      BY <1>1, <1>3 DEF Pause, TypeOK
  <2>3. TypeOK'
      BY <1>1, <1>3, <2>1, <2>2 DEF Pause, TypeOK, conn, work, shutdown
  <2>4. Shutdown'
      BY <1>1, <1>3, <2>1, <2>2 DEF Pause, Alive, TypeOK, Shutdown, conn, work,
         shutdown
  <2> QED BY <2>3, <2>4 DEF IInv
<1>4. CASE HandlersClose
  <2>1. syncer' \in SyncType /\ hb' \in HeartbeatType
      BY <1>1, <1>4 DEF HandlersClose, NoSync, SyncType, HeartbeatType
  <2>2. TypeOK'
      BY <1>1, <1>4, <2>1 DEF HandlersClose, TypeOK, conn, work, shutdown
  <2>3. Shutdown'
      BY <1>1, <1>4, <2>1 DEF HandlersClose, Alive, Pending, TypeOK, Shutdown,
         conn, work, shutdown
  <2> QED BY <2>2, <2>3 DEF IInv
<1>5. CASE CloseEnds
  <2>1. [st EXCEPT !.conn = "CLOSED"] \in StateType
      BY <1>1 DEF StateType, States
  <2>2. st' \in StateType /\ st'.init = 0 /\ st'.fatal = st.fatal /\ st'.conn = "CLOSED"
      BY <1>5, <1>1, <2>1, SetInitKeeps DEF CloseEnds, StateType
  <2>3. left' \in LeftType
      BY <1>1, <1>5, SpendTyped DEF CloseEnds, HandlersAwaited, LeftType
  <2>4. seen' \in SeenType /\ (closed \/ seen'.timedOut)
      BY <1>1, <1>5 DEF CloseEnds, HandlersAwaited, TypeOK, SeenType
  <2>5. closers' \in Nat
      BY <1>1, <1>5 DEF CloseEnds, TypeOK
  <2>6. TypeOK'
      BY <1>1, <1>5, <2>1, <2>2, <2>3, <2>4, <2>5 DEF CloseEnds, TypeOK, conn,
         work, shutdown
  <2>7. Shutdown'
      BY <1>1, <1>5, <2>1, <2>2, <2>3, <2>4, <2>5 DEF CloseEnds, Alive, TypeOK,
         Shutdown, conn, work, shutdown
  <2> QED BY <2>6, <2>7 DEF IInv
<1> QED BY <1>2, <1>3, <1>4, <1>5

\* The gateway's messages. No request is accepted once the handlers close, and
\* none is handled without a connection.
LEMMA MessageIInv ==
    ASSUME IInv, Message \/ ReaderStops
    PROVE  IInv'
<1>1. TypeOK /\ Shutdown /\ st \in StateType /\ left \in LeftType /\ 0 \in Epochs
    BY ZeroEpoch DEF IInv, TypeOK
<1>2. ASSUME NEW kind, Sends(kind), kind \in Kinds
      PROVE  left' \in LeftType
    BY <1>1, <1>2, SpendTyped DEF Sends, LeftType, Kinds
<1>3. ASSUME NEW kind
      PROVE  GatewayAfter(kind) \in GatewayType
    BY <1>1 DEF TypeOK, GatewayAfter, GatewayType
<1>4. CASE Message
  <2> PICK kind \in Kinds :
        LET s == Handshake(st, kind) IN
        /\ st.init # 0 /\ Sends(kind)
        /\ gw' = GatewayAfter(kind)
        /\ syncer' = IF s.hs = "AWAITING_SYNC_COMPLETE"
                     THEN [pc |-> "wait", data |-> st.init, to |-> 0]
                     ELSE syncer
        /\ waiting' = IF kind = "REQUEST" /\ ~closing THEN waiting + 1 ELSE waiting
        /\ st' = IF kind = "CLOSING" THEN CloseWs(s) ELSE s
        /\ UNCHANGED <<conn, starter, starts, hb, working, shutdown, seen>>
      BY <1>4 DEF Message
  <2> DEFINE s == Handshake(st, kind)
  <2>1. /\ s \in StateType /\ s.init = st.init /\ s.fatal = st.fatal
        /\ s.conn = "CLOSED" => st.conn = "CLOSED"
      BY <1>1, HandshakeKeeps
  <2>2. /\ st' \in StateType /\ st'.fatal = st.fatal
        /\ st'.conn = "CLOSED" => st.conn = "CLOSED"
      BY <2>1, CloseWsKeeps
  <2>3. left' \in LeftType /\ gw' \in GatewayType
      BY <1>2, <1>3
  <2>4. syncer' \in SyncType /\ waiting' \in Nat
      BY <1>1 DEF TypeOK, SyncType, StateType
  <2>5. closed => waiting' = 0
      BY <1>1 DEF Shutdown
  <2>6. TypeOK'
      BY <1>1, <2>2, <2>3, <2>4 DEF TypeOK, conn, shutdown
  <2>7. Shutdown'
      BY <1>1, <2>2, <2>5 DEF TypeOK, Shutdown, conn, shutdown
  <2> QED BY <2>6, <2>7 DEF IInv
<1>5. CASE ReaderStops
  <2>1. left' \in LeftType /\ gw' \in GatewayType /\ reader' = FALSE
      BY <1>2, <1>3, <1>5 DEF ReaderStops
  <2>2. TypeOK'
      BY <1>1, <1>5, <2>1 DEF ReaderStops, TypeOK, work, shutdown
  <2>3. Shutdown'
      BY <1>1, <1>5 DEF ReaderStops, TypeOK, Shutdown, work, shutdown
  <2> QED BY <2>2, <2>3 DEF IInv
<1> QED BY <1>4, <1>5

-----------------------------------------------------------------------------
\* IInv is an inductive invariant of the specification.
THEOREM Invariance == Spec => []IInv
<1>1. ASSUME IInv, [Next]_vars PROVE IInv'
  <2>1. CASE Next
      BY <1>1, <2>1, RunIInv, StarterIInv, SyncIInv, HeartbeatIInv, RequestIInv,
         CloseIInv, MessageIInv
         DEF Next, RunStep, StarterStep, SyncStep, HeartbeatStep, RequestStep
  <2>2. CASE UNCHANGED vars
      BY <1>1, <2>2 DEF vars, work, IInv, TypeOK, Shutdown
  <2> QED BY <1>1, <2>1, <2>2
<1> QED BY InitIInv, <1>1, PTL DEF Spec

\* Type correctness: in particular no request is taken off the count twice.
THEOREM TypeCorrect == Spec => []TypeOK
<1>1. IInv => TypeOK
    BY DEF IInv
<1> QED BY Invariance, <1>1, PTL

\* The worker is CLOSED only after the requests in flight ended, and its
\* heartbeats outlive them.
THEOREM Drained == Spec => []DrainsBeforeClosed
<1>1. IInv => DrainsBeforeClosed
    BY DEF IInv, Shutdown, DrainsBeforeClosed, Pending, TypeOK
<1> QED BY Invariance, <1>1, PTL

\* No task of the worker takes the state out of CLOSED.
THEOREM Final == Spec => ClosedIsFinal
<1>1. ASSUME IInv, [Next]_vars, st.conn = "CLOSED", ~seen.timedOut
      PROVE  st'.conn = "CLOSED"
  <2>1. st \in StateType /\ st.init = 0 /\ closed /\ starter = "ended"
      BY <1>1 DEF IInv, TypeOK, Shutdown
  <2>2. CASE UNCHANGED vars
      BY <1>1, <2>2 DEF vars
  <2>3. CASE Message \/ ReaderStops
      BY <1>1, <2>1, <2>3 DEF Message, ReaderStops
  <2>4. CASE RunStep \/ WsRefused \/ Drop \/ ReaderEnds \/ Start
    <3>1. [st EXCEPT !.conn = "CLOSED"] = st
        BY <1>1, <2>1 DEF StateType
    <3> QED BY <1>1, <2>1, <2>4, <3>1, CloseWsKeeps
            DEF RunStep, EndRun, Connect, WsOpens, Notice, LeaveWs, Joined, RunReturns,
                WsRefused, Drop, ReaderEnds, Start, StateType
  <2>5. CASE StarterStep
      BY <2>1, <2>5 DEF StarterStep, StarterWakes, StartAccepted, StartRefused
  <2>6. CASE SyncStep \/ HeartbeatStep \/ RequestStep
      BY <1>1, <2>1, <2>6, CloseWsKeeps
      DEF SyncStep, SyncStarts, SyncSent, SyncFails, HeartbeatStep, HandshakeSeen,
          HeartbeatStarts, HeartbeatSent, RequestStep, Acknowledge, Reply, StateType
  <2>7. CASE Close \/ Pause \/ HandlersClose \/ CloseEnds
      BY <1>1, <2>1, <2>7 DEF Close, Pause, HandlersClose, CloseEnds, SetInit, StateType
  <2> QED BY <1>1, <2>2, <2>3, <2>4, <2>5, <2>6, <2>7 DEF Next
<1>2. IInv /\ [Next]_vars
        => [st.conn = "CLOSED" /\ ~seen.timedOut => st'.conn = "CLOSED"]_vars
    BY <1>1
<1> QED BY Invariance, <1>2, PTL DEF Spec, ClosedIsFinal
-----------------------------------------------------------------------------
(* The connection.                                                          *)

\* run() holds a websocket only between opening and leaving it, and connects
\* without a reader, a websocket in State.ws or a send that is left over. So
\* State.ws, and every send, is of the websocket run() opened last, and it is
\* set only while that one's reader runs and conn_init is set, or the worker
\* is CLOSED. On an open websocket that is not State.ws any more the gateway
\* has greeted, so the handshake that was reset waits for a HELLO in vain.
Connection ==
    /\ sock # "none" => pc \in {"watching", "settling"}
    /\ pc \in {"new", "endpoint", "connecting"} => ~reader
    /\ pc \in {"new", "connecting"} => st.ws = 0
    /\ pc = "connecting" => /\ ep # 0 /\ NoSendLeft
                            /\ st.init = 0 => st.conn = "CLOSED"
    /\ st.ws # 0 => /\ st.ws = ep
                    /\ (reader /\ st.init # 0) \/ st.conn = "CLOSED"
    /\ syncer.pc = "sending" => syncer.to = ep
    /\ hb.pc = "sending" => hb.to = ep
    /\ sock = "open" /\ st.ws = 0 =>
            gw.greeted /\ (st.hs = "AWAITING_HELLO" \/ seen.crossed)
    /\ st.conn = "ACTIVE" /\ ~seen.crossed =>
            /\ st.ws # 0 /\ st.init # 0
            /\ st.hs = "COMPLETE" /\ st.hsDone /\ gw.phase = "ready"

\* close_ws resets the handshake with the connection.
LEMMA CloseWsResets ==
    ASSUME NEW s \in StateType
    PROVE  /\ CloseWs(s).ws = 0 /\ CloseWs(s).init = 0
           /\ CloseWs(s).conn # "ACTIVE"
           /\ CloseWs(s).conn = "CLOSED" <=> s.conn = "CLOSED"
           /\ s.init # 0 => CloseWs(s).hs = "AWAITING_HELLO"
BY DEF CloseWs, SetInit, StateType, States, HandshakeStates

\* Closing State.ws once run()'s websocket does not work any more.
LEMMA CloseWsKeepsConnection ==
    ASSUME TypeOK, Connection, st' = CloseWs(st), sock # "open", pc # "connecting",
           UNCHANGED <<pc, ep, sock>>,
           reader' => reader,
           syncer' = syncer \/ syncer' = NoSync,
           hb' = hb \/ hb'.pc # "sending"
    PROVE  Connection'
<1>1. /\ st'.ws = 0 /\ st'.init = 0 /\ st'.conn # "ACTIVE"
    BY CloseWsResets DEF TypeOK
<1>2. syncer'.pc = "sending" => syncer' = syncer
    BY DEF NoSync
<1> QED BY <1>1, <1>2 DEF Connection

LEMMA InitConnection == Init => Connection
BY DEF Init, Connection, NoSync

\* run() and its websocket.
LEMMA RunConnection ==
    ASSUME IInv, Connection,
           Start \/ EndRun \/ Connect \/ WsOpens \/ Notice \/ LeaveWs \/ Joined \/ RunReturns \/ WsRefused \/ Drop \/ ReaderEnds
    PROVE  Connection'
<1>1. TypeOK /\ st \in StateType /\ st.ws \in Epochs /\ reader \in BOOLEAN
    BY DEF IInv, TypeOK, StateType
<1>2. CASE Start
  <2>1. hb.pc = "none" /\ hb'.pc = "handshake"
      BY <1>1, <1>2 DEF Start, IInv, Shutdown, TypeOK, HeartbeatType
  <2> QED BY <1>2, <2>1 DEF Start, Connection
<1>3. CASE EndRun
    BY <1>1, <1>3 DEF EndRun, Stops, Connection
<1>4. CASE Connect
  <2>1. st.ws = 0 /\ st.conn # "CLOSED" /\ ~reader
      BY <1>4 DEF Connect, Stops, Connection
  <2> QED BY <1>1, <1>4, <2>1 DEF Connect, Connection, NoSendLeft
<1>5. CASE WsOpens
  <2>1. /\ st'.ws = ep /\ st'.init = st.init /\ st'.conn = st.conn
      BY <1>1, <1>5 DEF WsOpens, StateType
  <2>2. ep # 0 /\ NoSendLeft /\ (st.init = 0 => st.conn = "CLOSED")
        /\ (st.conn = "ACTIVE" => seen.crossed)
      BY <1>1, <1>5 DEF WsOpens, Connection
  <2> QED BY <1>1, <1>5, <2>1, <2>2 DEF WsOpens, Connection, NoSendLeft
<1>6. CASE Notice
    BY <1>1, <1>6 DEF Notice, Connection
<1>7. CASE LeaveWs
    BY <1>1, <1>7 DEF LeaveWs, Connection
<1>8. CASE Joined
    BY <1>1, <1>8 DEF Joined, Connection
<1>9. CASE RunReturns
  <2> DEFINE s == [st EXCEPT !.conn = "CLOSED"]
  <2>1. s \in StateType /\ st' = CloseWs(s)
      BY <1>1, <1>9 DEF RunReturns, StateType, States
  <2>2. st'.ws = 0 /\ st'.conn # "ACTIVE" /\ pc' = "done"
      BY <1>9, <2>1, CloseWsResets DEF RunReturns
  <2> QED BY <1>1, <1>9, <2>2 DEF RunReturns, Connection
<1>10. CASE WsRefused
  <2>1. st'.ws = 0 /\ st'.conn # "ACTIVE" /\ pc' = "endpoint" /\ sock = "none"
      BY <1>1, <1>10, CloseWsResets DEF WsRefused, Connection
  <2> QED BY <1>1, <1>10, <2>1 DEF WsRefused, Connection
<1>11. CASE Drop
    BY <1>1, <1>11 DEF Drop, Connection
<1>12. CASE ReaderEnds
  <2>1. CASE st.ws = 0
      BY <1>1, <1>12, <2>1 DEF ReaderEnds, Connection
  <2>2. CASE st.ws # 0
    <3>1. pc # "connecting" /\ st' = CloseWs(st)
        BY <1>12, <2>2 DEF ReaderEnds, Connection
    <3> QED BY <1>1, <1>12, <3>1, CloseWsKeepsConnection DEF ReaderEnds
  <2> QED BY <2>1, <2>2
<1> QED BY <1>2, <1>3, <1>4, <1>5, <1>6, <1>7, <1>8, <1>9, <1>10, <1>11, <1>12

\* The start request.
LEMMA StarterConnection ==
    ASSUME IInv, Connection, StarterWakes \/ StartAccepted \/ StartRefused
    PROVE  Connection'
<1>1. TypeOK /\ st \in StateType /\ reader \in BOOLEAN
    BY DEF IInv, TypeOK
<1>2. CASE StarterWakes
    BY <1>1, <1>2 DEF StarterWakes, Connection, NoSendLeft, StateType, conn
<1>3. CASE StartAccepted
  <2>1. starts + 1 \in Epochs /\ starts + 1 # 0
      BY <1>1, <1>3, BoundsAssumption DEF StartAccepted, TypeOK, Epochs
  <2>2. /\ st'.init # 0 /\ st'.conn = st.conn /\ st'.ws = st.ws
        /\ st'.hs = st.hs /\ st'.hsDone = st.hsDone
      BY <1>1, <1>3, <2>1 DEF StartAccepted, SetInit, StateType
  <2> QED BY <1>1, <1>3, <2>2 DEF StartAccepted, Connection, NoSendLeft, conn
<1>4. CASE StartRefused
    BY <1>1, <1>4 DEF StartRefused, Connection, NoSendLeft, StateType, conn
<1> QED BY <1>2, <1>3, <1>4

\* WORKER_CONNECT: out of turn it is an outdated task's.
LEMMA SyncConnection ==
    ASSUME IInv, Connection, SyncStarts \/ SyncSent \/ SyncFails
    PROVE  Connection'
<1>1. TypeOK /\ st \in StateType /\ reader \in BOOLEAN /\ syncer \in SyncType
    BY DEF IInv, TypeOK
<1>2. CASE SyncStarts
  <2>1. pc # "connecting" /\ syncer'.to = ep
      BY <1>1, <1>2 DEF SyncStarts, Connection, SyncType
  <2> QED BY <1>1, <1>2, <2>1 DEF SyncStarts, Connection, conn
<1>3. CASE SyncSent
  <2>1. /\ st'.init = st.init /\ st'.conn = st.conn /\ st'.ws = st.ws
        /\ st'.hsDone = st.hsDone
      BY <1>1, <1>3 DEF SyncSent, StateType
  <2>2. ~seen'.crossed => ~seen.crossed /\ st.hs = "AWAITING_SYNC_COMPLETE"
      BY <1>1, <1>3 DEF SyncSent, TypeOK, SeenType
  <2>3. gw.greeted => gw'.greeted
      BY <1>1, <1>3 DEF SyncSent, TypeOK, GatewayType
  <2>4. syncer'.pc # "sending" /\ pc # "connecting"
      BY <1>3 DEF SyncSent, NoSync, Connection, NoSendLeft
  <2> QED BY <1>1, <1>3, <2>1, <2>2, <2>3, <2>4 DEF SyncSent, Connection, conn
<1>4. CASE SyncFails
  <2>1. pc # "connecting" /\ sock # "open"
      BY <1>4 DEF SyncFails, Connection, NoSendLeft, Reaches
  <2> QED BY <1>1, <1>4, <2>1, CloseWsKeepsConnection DEF SyncFails, conn
<1> QED BY <1>2, <1>3, <1>4

\* Heartbeats.
LEMMA HeartbeatConnection ==
    ASSUME IInv, Connection, HandshakeSeen \/ HeartbeatStarts \/ HeartbeatSent
    PROVE  Connection'
<1>1. TypeOK /\ st \in StateType /\ reader \in BOOLEAN /\ hb \in HeartbeatType
    BY DEF IInv, TypeOK
<1>2. CASE HandshakeSeen
  <2>1. hb'.pc = "ws"
      BY <1>1, <1>2 DEF HandshakeSeen, HeartbeatType
  <2> QED BY <1>1, <1>2, <2>1 DEF HandshakeSeen, Connection, NoSendLeft, conn
<1>3. CASE HeartbeatStarts
  <2>1. pc # "connecting" /\ hb'.to = ep
      BY <1>1, <1>3 DEF HeartbeatStarts, Connection
  <2> QED BY <1>1, <1>3, <2>1 DEF HeartbeatStarts, Connection, conn
<1>4. CASE HeartbeatSent
  <2>1. pc # "connecting" /\ hb'.pc # "sending" /\ hb.to = ep
      BY <1>4 DEF HeartbeatSent, Connection, NoSendLeft
  <2>2. CASE Reaches(hb.to)
    <3>1. seen'.crossed = seen.crossed /\ st' = st
        BY <1>1, <1>4, <2>2 DEF HeartbeatSent, TypeOK, SeenType
    <3> QED BY <1>1, <1>4, <2>1, <3>1 DEF HeartbeatSent, Connection, conn
  <2>3. CASE ~Reaches(hb.to)
    <3>1. sock # "open" /\ st' = CloseWs(st)
        BY <1>4, <2>1, <2>3 DEF HeartbeatSent, Reaches
    <3> QED BY <1>1, <1>4, <2>1, <3>1, CloseWsKeepsConnection DEF HeartbeatSent, conn
  <2> QED BY <2>2, <2>3
<1> QED BY <1>2, <1>3, <1>4

\* Requests in flight: they use State.ws, and close it only when it is gone.
LEMMA RequestConnection ==
    ASSUME IInv, Connection, Acknowledge \/ Reply
    PROVE  Connection'
<1>1. TypeOK /\ st \in StateType /\ reader \in BOOLEAN
    BY DEF IInv, TypeOK
<1>2. UNCHANGED <<pc, ep, sock, reader, gw, syncer, hb, seen>>
    BY DEF Acknowledge, Reply, conn
<1>3. CASE st' = st
    BY <1>2, <1>3 DEF Connection, NoSendLeft
<1>4. CASE st' # st
  <2>1. st' = CloseWs(st) /\ st.ws # 0 /\ ~Reaches(st.ws)
      BY <1>4 DEF Acknowledge, Reply
  <2>2. pc # "connecting" /\ sock # "open"
      BY <2>1 DEF Connection, Reaches
  <2> QED BY <1>1, <1>2, <2>1, <2>2, CloseWsKeepsConnection
<1> QED BY <1>3, <1>4

\* The shutdown.
LEMMA CloseConnection ==
    ASSUME IInv, Connection, Close \/ Pause \/ HandlersClose \/ CloseEnds
    PROVE  Connection'
<1>1. TypeOK /\ st \in StateType /\ reader \in BOOLEAN
    BY DEF IInv, TypeOK
<1>2. CASE Close
  <2>1. /\ st'.init = st.init /\ st'.conn = "CLOSING" /\ st'.ws = st.ws
        /\ st'.hs = st.hs /\ st.conn # "CLOSED"
      BY <1>1, <1>2 DEF Close, StateType
  <2> QED BY <1>1, <1>2, <2>1 DEF Close, Connection, NoSendLeft, conn
<1>3. CASE Pause
  <2>1. seen'.crossed = seen.crossed
      BY <1>1, <1>3 DEF Pause, TypeOK, SeenType
  <2> QED BY <1>1, <1>3, <2>1 DEF Pause, Connection, NoSendLeft, conn
<1>4. CASE HandlersClose
  <2>1. syncer'.pc # "sending" /\ hb'.pc # "sending"
      BY <1>4 DEF HandlersClose, NoSync
  <2> QED BY <1>1, <1>4, <2>1 DEF HandlersClose, Connection, NoSendLeft, conn
<1>5. CASE CloseEnds
  <2>1. st'.ws = st.ws /\ st'.conn = "CLOSED"
        /\ (st'.hs = st.hs \/ st'.hs = "AWAITING_HELLO")
      BY <1>1, <1>5 DEF CloseEnds, SetInit, StateType
  <2>2. seen'.crossed = seen.crossed
      BY <1>1, <1>5 DEF CloseEnds, HandlersAwaited, TypeOK, SeenType
  <2> QED BY <1>1, <1>5, <2>1, <2>2 DEF CloseEnds, Connection, NoSendLeft, conn
<1> QED BY <1>2, <1>3, <1>4, <1>5

\* The gateway's messages. READY makes the worker ACTIVE only while State.ws
\* is the websocket it comes from, unless an outdated task disturbed the
\* handshake.
LEMMA MessageConnection ==
    ASSUME IInv, Connection, Message \/ ReaderStops
    PROVE  Connection'
<1>1. TypeOK /\ st \in StateType /\ reader \in BOOLEAN /\ gw \in GatewayType
    BY DEF IInv, TypeOK
<1>2. ASSUME NEW kind \in Kinds, gw' = GatewayAfter(kind)
      PROVE  /\ gw.greeted => gw'.greeted
             /\ gw.phase = "ready" => gw'.phase = "ready"
    BY <1>1, <1>2 DEF GatewayAfter, GatewayType
<1>3. CASE Message
  <2> PICK kind \in Kinds :
        LET s == Handshake(st, kind) IN
        /\ reader /\ sock = "open" /\ st.init # 0
        /\ Sends(kind)
        /\ gw' = GatewayAfter(kind)
        /\ syncer' = IF s.hs = "AWAITING_SYNC_COMPLETE"
                     THEN [pc |-> "wait", data |-> st.init, to |-> 0]
                     ELSE syncer
        /\ st' = IF kind = "CLOSING" THEN CloseWs(s) ELSE s
        /\ UNCHANGED <<conn, hb, seen>>
      BY <1>3 DEF Message
  <2> DEFINE s == Handshake(st, kind)
  <2>1. /\ s \in StateType /\ s.init = st.init /\ s.ws = st.ws
        /\ s.conn = "CLOSED" => st.conn = "CLOSED"
      BY <1>1, HandshakeKeeps DEF Handshake, StateType
  <2>2. UNCHANGED <<pc, ep, sock, reader, hb, seen>>
      BY DEF conn
  <2>3. syncer'.pc = "sending" => syncer' = syncer
      OBVIOUS
  <2>4. pc \notin {"new", "endpoint", "connecting"} /\ (gw.greeted => gw'.greeted)
        /\ (gw.phase = "ready" => gw'.phase = "ready")
      BY <1>2 DEF Connection
  <2>5. CASE kind = "CLOSING"
    <3>1. /\ st' = CloseWs(s) /\ st'.ws = 0 /\ st'.conn # "ACTIVE"
          /\ st'.hs = "AWAITING_HELLO"
        BY <2>1, <2>5, CloseWsResets
    <3>2. gw'.greeted
        BY <2>4, <2>5 DEF Sends
    <3> QED BY <1>1, <2>2, <2>3, <2>4, <3>1, <3>2 DEF Connection
  <2>6. CASE kind # "CLOSING"
    <3>1. st' = s
        BY <2>6
    <3>2. sock = "open" /\ st'.ws = 0 =>
              gw'.greeted /\ (st'.hs = "AWAITING_HELLO" \/ seen'.crossed)
        BY <1>1, <2>1, <2>2, <2>4, <3>1 DEF Connection, Handshake, Sends
    <3>3. st'.conn = "ACTIVE" /\ ~seen'.crossed =>
              /\ st'.ws # 0 /\ st'.init # 0
              /\ st'.hs = "COMPLETE" /\ st'.hsDone /\ gw'.phase = "ready"
      <4>1. CASE st.hs = "AWAITING_READY" /\ kind = "READY"
        <5>1. gw'.phase = "ready" /\ s.hs = "COMPLETE" /\ s.hsDone
            BY <1>1, <4>1 DEF GatewayAfter, GatewayType, Handshake, StateType
        <5>2. st.ws = 0 => seen.crossed
            BY <4>1 DEF Connection
        <5> QED BY <2>1, <2>2, <3>1, <5>1, <5>2
      <4>2. CASE st.hs = "AWAITING_HELLO" /\ kind = "HELLO"
        <5>1. s.conn = st.conn
            BY <1>1, <4>2 DEF Handshake, StateType
        <5> QED BY <2>2, <3>1, <4>2, <5>1 DEF Connection
      <4>3. CASE s = st
          BY <2>2, <2>4, <3>1, <4>3 DEF Connection
      <4> QED BY <4>1, <4>2, <4>3 DEF Handshake
    <3> QED BY <1>1, <2>1, <2>2, <2>3, <2>4, <3>1, <3>2, <3>3 DEF Connection
  <2> QED BY <2>5, <2>6
<1>4. CASE ReaderStops
  <2>1. PICK kind \in Kinds : gw' = GatewayAfter(kind)
      BY <1>4 DEF ReaderStops
  <2>2. reader' = FALSE
      BY <1>4 DEF ReaderStops
  <2> QED BY <1>1, <1>2, <1>4, <2>1, <2>2 DEF ReaderStops, Connection, NoSendLeft
<1> QED BY <1>3, <1>4

\* ACTIVE is said of a connection that is ready on both sides, and State.ws is
\* of the websocket run() opened last.
THEOREM Connected == Spec => []ActiveIsReady
<1>1. ASSUME IInv, Connection, [Next]_vars PROVE Connection'
  <2>1. CASE Next
      BY <1>1, <2>1, RunConnection, StarterConnection, SyncConnection,
         HeartbeatConnection, RequestConnection, CloseConnection, MessageConnection
         DEF Next, RunStep, StarterStep, SyncStep, HeartbeatStep, RequestStep
  <2>2. CASE UNCHANGED vars
      BY <1>1, <2>2 DEF vars, Connection, NoSendLeft
  <2> QED BY <1>1, <2>1, <2>2
<1>2. Connection => ActiveIsReady
    BY DEF Connection, ActiveIsReady
<1> QED BY Invariance, InitConnection, <1>1, <1>2, PTL DEF Spec
=============================================================================
