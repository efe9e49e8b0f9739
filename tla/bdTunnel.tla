------------------------------ MODULE bdTunnel ------------------------------
(***************************************************************************)
(* The tunnel: bdTunnelManager and the bdTunnelNode it is, run by a thread *)
(* of UdpTunnel.  The application names the peers to be connected to; when *)
(* the tunnel runs, it makes a request of each peer now and then, and each *)
(* turn of the thread sends one more question for every request there is.  *)
(* What comes back is not used yet.                                        *)
(*                                                                         *)
(* The thread holds the mutex of its UdpTunnel for a turn, and for a tick. *)
(***************************************************************************)
EXTENDS bdMsgs, FiniteSets, SequencesExt

CONSTANTS
    TunnelPeers,            \* bdIds the application connects to
    TunnelOwnId,
    TunnelTransIds,
    TunnelDatagrams,        \* what may come in: [msg, addr]
    MAX_STARTUP_TIME, MAX_REFRESH_TIME,     \* 10 seconds each
    TUNNEL_MAX_MSG_PER_TICK,                \* 100
    MaxTunnelLoad           \* bound on the messages that wait

ASSUME TunnelAssumption ==
    /\ IsFiniteSet(TunnelPeers)
    /\ \A p \in TunnelPeers : {"id", "addr"} \subseteq DOMAIN p
    /\ TunnelTransIds # {}
    /\ MAX_STARTUP_TIME \in Nat /\ MAX_REFRESH_TIME \in Nat
    /\ TUNNEL_MAX_MSG_PER_TICK \in Nat \ {0}
    /\ MaxTunnelLoad \in Nat

VARIABLES
    tMode,              \* mMode
    tAge,               \* seconds since mModeTS, up to one more than is asked for
    tpc,                \* where the thread is in a turn
    mTunnelPeers,       \* the status of each peer connected to
    mTunnelRequests,    \* bdIds asked every turn
    tIncomingMsgs, tOutgoingMsgs

clock == <<tMode, tAge>>
wanted == <<mTunnelPeers, mTunnelRequests>>
tunnelVars == <<clock, tpc, wanted, tIncomingMsgs, tOutgoingMsgs>>

(******************************* Messages **********************************)

SendTo(addr, msg) == [msg |-> msg, addr |-> addr]

\* The dgram is a question for the address it came from.
IsNewConn(dgram) == Parses(dgram.msg) /\ beMsgType(dgram.msg) = "NEWCONN"

\* There is no checksum around the answer, as bdNode wants one.
Answer(dgram) ==
    LET srcId == [id |-> Body(dgram.msg).id, addr |-> dgram.addr]
    IN  SendTo(srcId.addr, bitdht_reply_myip_msg(dgram.msg.t, TunnelOwnId, srcId, TRUE))

Question(id, tid) == SendTo(id.addr, bitdht_ask_myip_msg(tid, TunnelOwnId))

\* All that a tunnel ever sends.
Outgoing ==
    {Question(id, tid) : id \in TunnelPeers, tid \in TunnelTransIds}
      \cup {Answer(dgram) : dgram \in {d \in TunnelDatagrams : IsNewConn(d)}}

MaxTunnelAge == MAX_STARTUP_TIME + MAX_REFRESH_TIME + 1

TunnelTypeOK ==
    /\ tMode \in {"OFF", "STARTUP", "NEWCONN"}
    /\ tAge \in 0 .. MaxTunnelAge
    /\ tpc \in {"idle", "off", "recv"}
    /\ DOMAIN mTunnelPeers \subseteq TunnelPeers
    /\ \A p \in DOMAIN mTunnelPeers : mTunnelPeers[p] \in {"CONNECTING", "DISCONNECTED"}
    /\ mTunnelRequests \in Seq(TunnelPeers)
    /\ tIncomingMsgs \in Seq(TunnelDatagrams)
    /\ tOutgoingMsgs \in Seq(Outgoing)

(******************************* The application ***************************)

connectNode(id) ==
    /\ tpc = "idle"
    /\ mTunnelPeers' = IF id \in DOMAIN mTunnelPeers THEN mTunnelPeers
                       ELSE [p \in DOMAIN mTunnelPeers \cup {id} |->
                               IF p = id THEN "CONNECTING" ELSE mTunnelPeers[p]]
    /\ UNCHANGED <<clock, tpc, mTunnelRequests, tIncomingMsgs, tOutgoingMsgs>>

\* The request there may be for it stays.
disconnectNode(id) ==
    /\ tpc = "idle"
    /\ mTunnelPeers' = [p \in DOMAIN mTunnelPeers \ {id} |-> mTunnelPeers[p]]
    /\ UNCHANGED <<clock, tpc, mTunnelRequests, tIncomingMsgs, tOutgoingMsgs>>

startTunnel ==
    /\ tpc = "idle"
    /\ tMode' = "STARTUP" /\ tAge' = 0
    /\ UNCHANGED <<tpc, wanted, tIncomingMsgs, tOutgoingMsgs>>

\* Peers and requests are still there after the next start.
stopTunnel ==
    /\ tpc = "idle"
    /\ tMode' = "OFF" /\ tAge' = 0
    /\ tOutgoingMsgs' = <<>>
    /\ mTunnelPeers' = [p \in DOMAIN mTunnelPeers |-> "DISCONNECTED"]
    /\ UNCHANGED <<tpc, mTunnelRequests, tIncomingMsgs>>

(******************************* The thread ********************************)

\* A turn begins when tick has nothing left to send.
BeginTurn(next) ==
    /\ tpc = "idle" /\ tOutgoingMsgs = <<>>
    /\ tpc' = next
    /\ UNCHANGED <<tIncomingMsgs, tOutgoingMsgs>>

tunnelOff == BeginTurn("off") /\ tMode = "OFF" /\ UNCHANGED <<clock, wanted>>

\* Peers appear in the order of the map, after the requests there are.
\* Mutant: a request is made whether there is one or not.
addTunnelAgain(peers) == mTunnelRequests' = mTunnelRequests \o SetToSeq(peers)

addTunnel(peers) ==
    mTunnelRequests' = mTunnelRequests \o SetToSeq(peers \ ToSet(mTunnelRequests))

\* Mutant: the time starts again with every turn.
RestartTimer(due) == tAge' = 0

TimerUnless(due) == tAge' = IF due THEN 0 ELSE tAge

\* Without peers, it starts to wait once more.
startup ==
    /\ BeginTurn("recv") /\ tMode = "STARTUP"
    /\ LET due == tAge > MAX_STARTUP_TIME
       IN  /\ tMode' = IF due /\ DOMAIN mTunnelPeers # {} THEN "NEWCONN" ELSE tMode
           /\ TimerUnless(due)
    /\ UNCHANGED wanted

newConn ==
    /\ BeginTurn("recv") /\ tMode = "NEWCONN"
    /\ LET due == tAge > MAX_REFRESH_TIME
       IN  /\ tMode' = IF due THEN "STARTUP" ELSE tMode
           /\ TimerUnless(due)
           /\ IF due THEN addTunnel(DOMAIN mTunnelPeers) ELSE UNCHANGED mTunnelRequests
    /\ UNCHANGED mTunnelPeers

\* iterationOff
dropAll ==
    /\ tpc = "off"
    /\ tpc' = "idle"
    /\ tIncomingMsgs' = <<>>
    /\ UNCHANGED <<clock, wanted, tOutgoingMsgs>>

\* msgin_newconn
replyNewConn ==
    /\ tpc = "recv" /\ tIncomingMsgs # <<>>
    /\ IsNewConn(Head(tIncomingMsgs))
    /\ tOutgoingMsgs' = Append(tOutgoingMsgs, Answer(Head(tIncomingMsgs)))
    /\ tIncomingMsgs' = Tail(tIncomingMsgs)
    /\ UNCHANGED <<clock, tpc, wanted>>

\* msgin_reply_newconn does nothing, and other messages are not handled.
ignoreMsg ==
    /\ tpc = "recv" /\ tIncomingMsgs # <<>>
    /\ ~ IsNewConn(Head(tIncomingMsgs))
    /\ tIncomingMsgs' = Tail(tIncomingMsgs)
    /\ UNCHANGED <<clock, tpc, wanted, tOutgoingMsgs>>

\* msgout_newconn for every request; all of them take a turn at the front, so that they end
\* up in the order they had.
askAll ==
    /\ tpc = "recv" /\ tIncomingMsgs = <<>>
    /\ tpc' = "idle"
    /\ \E transId \in [DOMAIN mTunnelRequests -> TunnelTransIds] :
         tOutgoingMsgs' = tOutgoingMsgs \o
            [i \in DOMAIN mTunnelRequests |-> Question(mTunnelRequests[i], transId[i])]
    /\ UNCHANGED <<clock, wanted, tIncomingMsgs>>

tunnelTick ==
    /\ tpc = "idle" /\ tOutgoingMsgs # <<>>
    /\ tOutgoingMsgs' = SubSeq(tOutgoingMsgs, TUNNEL_MAX_MSG_PER_TICK + 1, Len(tOutgoingMsgs))
    /\ UNCHANGED <<clock, tpc, wanted, tIncomingMsgs>>

TunnelThread ==
    \/ tunnelOff \/ startup \/ newConn \/ dropAll \/ replyNewConn \/ ignoreMsg \/ askAll
    \/ tunnelTick

(******************************* The rest **********************************)

\* UdpTunnel::recvPkt
tunnelMsgIn(dgram) ==
    /\ tpc = "idle"
    /\ Len(tIncomingMsgs) < MaxTunnelLoad
    /\ beMsgType(dgram.msg) # "UNKNOWN"
    /\ tIncomingMsgs' = Append(tIncomingMsgs, dgram)
    /\ UNCHANGED <<clock, tpc, wanted, tOutgoingMsgs>>

tunnelTime ==
    /\ tAge < MaxTunnelAge
    /\ tAge' = tAge + 1
    /\ UNCHANGED <<tMode, tpc, wanted, tIncomingMsgs, tOutgoingMsgs>>

TunnelInit ==
    /\ tMode = "OFF" /\ tAge = 0 /\ tpc = "idle"
    /\ mTunnelPeers = [p \in {} |-> "CONNECTING"]
    /\ mTunnelRequests = <<>>
    /\ tIncomingMsgs = <<>> /\ tOutgoingMsgs = <<>>

\* The process dies and is started again: the tunnel is as it was at first.
tunnelLost ==
    /\ tMode' = "OFF" /\ tAge' = 0 /\ tpc' = "idle"
    /\ mTunnelPeers' = [p \in {} |-> "CONNECTING"]
    /\ mTunnelRequests' = <<>>
    /\ tIncomingMsgs' = <<>> /\ tOutgoingMsgs' = <<>>

Application ==
    \/ \E id \in TunnelPeers : connectNode(id) \/ disconnectNode(id)
    \/ startTunnel \/ stopTunnel

TunnelRuns ==
    \/ Application \/ TunnelThread \/ tunnelTime
    \/ \E dgram \in TunnelDatagrams : tunnelMsgIn(dgram)

TunnelNext == TunnelRuns \/ tunnelLost

TunnelSpec == TunnelInit /\ [][TunnelNext]_tunnelVars

(******************************* Properties ********************************)

\* However often the tunnel goes round, is stopped and started, and peers come and go, no
\* peer is asked twice in a turn, so that a turn never sends more questions than there
\* were peers (addTunnel, bdtunnelnode.cc:146).
TunnelOnce ==
    \A i, j \in DOMAIN mTunnelRequests :
        mTunnelRequests[i] = mTunnelRequests[j] => i = j

\* A peer that stays connected is asked again and again while the tunnel runs, unless the
\* application starts it over and over (iteration, bdtunnelmanager.cc:178).
Asked(p) == \E i \in DOMAIN tOutgoingMsgs :
    tOutgoingMsgs[i].addr = p.addr /\ beMsgType(tOutgoingMsgs[i].msg) = "NEWCONN"

ConnectedAsked ==
    \A p \in TunnelPeers :
        \/ []<><<startTunnel>>_tunnelVars
        \/ []<>(tMode = "OFF" \/ p \notin DOMAIN mTunnelPeers \/ Asked(p))
=============================================================================
