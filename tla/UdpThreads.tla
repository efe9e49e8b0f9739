----------------------------- MODULE UdpThreads -----------------------------
(***************************************************************************)
(* The threads and mutexes of src/udp and src/util/bdthreads.cc: the       *)
(* receive thread of UdpLayer, the thread of every UdpBitDht or UdpTunnel, *)
(* and the threads of the application, which call the DHT, add and remove  *)
(* receivers and reset the address of the stack.                           *)
(*                                                                         *)
(* stackMtx, dhtMtx and the mutex of the receive thread (mMutex) are held  *)
(* across steps.  The sections under sockMtx call nothing that waits, so   *)
(* each of them is a single step; so is a section under dhtMtx or stackMtx *)
(* in which nothing waits for another mutex.                               *)
(*                                                                         *)
(* A UdpBitDht is a bdThread: a receiver stands for itself and its thread. *)
(* Messages to be sent count by their number; what a received packet does  *)
(* to its node is left to the other modules.                               *)
(***************************************************************************)
EXTENDS Naturals, Sequences, SequencesExt, FiniteSets

CONSTANTS
    Receiver,           \* the UdpBitDhts and UdpTunnels of a stack
    RecvThread,         \* ids of receive threads
    App,                \* threads of the application
    Resetter,           \* the one that resets the address, if any
    NoThread,
    MAX_MSG_PER_TICK,   \* 100
    MaxOut              \* bound on the messages a turn leaves in mOutgoingMsgs

ASSUME ThreadAssumption ==
    /\ IsFiniteSet(Receiver)
    /\ Receiver \cap RecvThread = {}
    /\ App \cap (Receiver \cup RecvThread) = {}
    /\ Resetter \subseteq App
    /\ \A a, b \in Resetter : a = b
    /\ NoThread \notin Receiver \cup RecvThread \cup App
    /\ MAX_MSG_PER_TICK \in Nat \ {0}
    /\ MaxOut \in Nat

VARIABLES
    pc,             \* where a thread is
    stackMtx,       \* who holds it
    dhtMtx,         \* by receiver
    mMutex,
    mReceivers,
    rest,           \* the receivers the loop of UdpStack::recvPkt has still ahead
    stopThread,
    mTid,           \* the receive thread, as the UdpLayer knows it
    sock,
    outgoing,       \* number of mOutgoingMsgs
    sent,           \* messages sent in this tick (i)
    arg             \* the receiver that a call of the application is about

mutexes == <<stackMtx, dhtMtx, mMutex>>
layer == <<stopThread, mTid, sock>>
queue == <<outgoing, sent>>
vars == <<pc, mutexes, mReceivers, rest, layer, queue, arg>>

Thread == Receiver \cup RecvThread \cup App

RecvLabel == {"dead", "check", "select", "receive", "recvPkt", "offer"}
DhtLabel  == {"tick", "send", "iteration"}
CallLabel == {"dhtCall", "stopDht", "addReceiver", "removeReceiver"}
ResetLabel ==
    {"reset", "join", "joining", "closeSocket", "openSocket", "setRunning", "createThread"}

TypeOK ==
    /\ pc \in [Thread -> RecvLabel \cup DhtLabel \cup CallLabel \cup ResetLabel \cup {"idle"}]
    /\ \A t \in RecvThread : pc[t] \in RecvLabel
    /\ \A r \in Receiver : pc[r] \in DhtLabel
    /\ \A a \in App : pc[a] \in CallLabel \cup ResetLabel \cup {"idle"}
    /\ stackMtx \in RecvThread \cup {NoThread}
    /\ dhtMtx \in [Receiver -> Receiver \cup {NoThread}]
    /\ mMutex \in App \cup {NoThread}
    /\ mReceivers \in Seq(Receiver)
    /\ rest \in [RecvThread -> Seq(Receiver)]
    /\ stopThread \in BOOLEAN
    /\ mTid \in RecvThread \cup {NoThread}
    /\ sock \in {"bound", "unbound", "closed"}
    /\ outgoing \in [Receiver -> 0 .. MaxOut]
    /\ sent \in [Receiver -> 0 .. MAX_MSG_PER_TICK]
    /\ arg \in [App -> Receiver \cup {NoThread}]
    /\ \A a \in App : pc[a] \in CallLabel <=> arg[a] # NoThread

Goto(t, from, to) == pc[t] = from /\ pc' = [pc EXCEPT ![t] = to]

-----------------------------------------------------------------------------
(***************************************************************************)
(* UdpLayer::recv_loop, in thread t.                                       *)
(***************************************************************************)
CheckStop(t) ==
    /\ Goto(t, "check", IF stopThread THEN "dead" ELSE "select")
    /\ UNCHANGED <<mutexes, mReceivers, rest, layer, queue, arg>>

\* Data has come, or select has timed out or failed.
Select(t) ==
    /\ Goto(t, "select", "receive") \/ Goto(t, "select", "check")
    /\ UNCHANGED <<mutexes, mReceivers, rest, layer, queue, arg>>

\* A datagram is read, or there is none.
receiveUdpPacket(t) ==
    /\ Goto(t, "receive", "recvPkt") \/ Goto(t, "receive", "check")
    /\ UNCHANGED <<mutexes, mReceivers, rest, layer, queue, arg>>

\* UdpStack::recvPkt takes stackMtx and begins to iterate.
LockStack(t) ==
    /\ Goto(t, "recvPkt", "offer")
    /\ stackMtx = NoThread
    /\ stackMtx' = t
    /\ rest' = [rest EXCEPT ![t] = mReceivers]
    /\ UNCHANGED <<dhtMtx, mMutex, mReceivers, layer, queue, arg>>

UnlockStack(t) ==
    /\ Goto(t, "offer", "check")
    /\ stackMtx' = NoThread
    /\ rest' = [rest EXCEPT ![t] = <<>>]

\* Mutant: the early end of the loop leaves the mutex locked.
AcceptLocked(t) ==
    /\ rest[t] # <<>>
    /\ dhtMtx[Head(rest[t])] = NoThread
    /\ Goto(t, "offer", "check")
    /\ rest' = [rest EXCEPT ![t] = <<>>]
    /\ UNCHANGED <<mutexes, mReceivers, layer, queue, arg>>

\* The receiver wants the packet: the loop ends.
Accept(t) ==
    /\ rest[t] # <<>>
    /\ dhtMtx[Head(rest[t])] = NoThread
    /\ UnlockStack(t)
    /\ UNCHANGED <<dhtMtx, mMutex, mReceivers, layer, queue, arg>>

\* The receiver does not want it.
Decline(t) ==
    /\ pc[t] = "offer"
    /\ rest[t] # <<>>
    /\ dhtMtx[Head(rest[t])] = NoThread
    /\ rest' = [rest EXCEPT ![t] = Tail(@)]
    /\ UNCHANGED <<pc, mutexes, mReceivers, layer, queue, arg>>

NobodyLeft(t) ==
    /\ rest[t] = <<>>
    /\ UnlockStack(t)
    /\ UNCHANGED <<dhtMtx, mMutex, mReceivers, layer, queue, arg>>

Receive(t) ==
    \/ CheckStop(t) \/ Select(t) \/ receiveUdpPacket(t)
    \/ LockStack(t) \/ Accept(t) \/ Decline(t) \/ NobodyLeft(t)

-----------------------------------------------------------------------------
(***************************************************************************)
(* UdpBitDht::run and tick, in the thread of receiver r.                   *)
(***************************************************************************)
LockTick(r) ==
    /\ Goto(r, "tick", "send")
    /\ dhtMtx[r] = NoThread
    /\ dhtMtx' = [dhtMtx EXCEPT ![r] = r]
    /\ UNCHANGED <<stackMtx, mMutex, mReceivers, rest, layer, queue, arg>>

\* Mutant: the limit is forgotten.
MaySendUnlimited(r) == outgoing[r] > 0

MaySend(r) == sent[r] < MAX_MSG_PER_TICK /\ outgoing[r] > 0

SendPkt(r) ==
    /\ pc[r] = "send"
    /\ MaySend(r)
    /\ outgoing' = [outgoing EXCEPT ![r] = @ - 1]
    /\ sent' = [sent EXCEPT ![r] = @ + 1]
    /\ UNCHANGED <<pc, mutexes, mReceivers, rest, layer, arg>>

\* Mutants: the comparison is off by one; the limit is taken for not reached.
KeepOnTickingAbove(n) == n > MAX_MSG_PER_TICK
KeepOnTickingUpTo(n) == n <= MAX_MSG_PER_TICK

KeepOnTicking(n) == n = MAX_MSG_PER_TICK

TickDone(r) ==
    /\ sent[r] = MAX_MSG_PER_TICK \/ outgoing[r] = 0
    /\ Goto(r, "send", IF KeepOnTicking(sent[r]) THEN "tick" ELSE "iteration")
    /\ dhtMtx' = [dhtMtx EXCEPT ![r] = NoThread]
    /\ sent' = [sent EXCEPT ![r] = 0]
    /\ UNCHANGED <<stackMtx, mMutex, mReceivers, rest, layer, outgoing, arg>>

\* The turn deals with all that has come in, and queue some messages.
Iteration(r) ==
    /\ Goto(r, "iteration", "tick")
    /\ dhtMtx[r] = NoThread
    /\ \E n \in outgoing[r] .. MaxOut : outgoing' = [outgoing EXCEPT ![r] = n]
    /\ UNCHANGED <<mutexes, mReceivers, rest, layer, sent, arg>>

Run(r) == LockTick(r) \/ SendPkt(r) \/ TickDone(r) \/ Iteration(r)

-----------------------------------------------------------------------------
(***************************************************************************)
(* The application: thread a calls, and the call returns to "idle".        *)
(***************************************************************************)
Call(a, label, r) ==
    /\ Goto(a, "idle", label)
    /\ arg' = [arg EXCEPT ![a] = r]
    /\ UNCHANGED <<mutexes, mReceivers, rest, layer, queue>>

Returned(a, label) ==
    /\ Goto(a, label, "idle")
    /\ arg' = [arg EXCEPT ![a] = NoThread]

\* addFindNode and the other calls that queue no message.
DhtCall(a) ==
    /\ Returned(a, "dhtCall")
    /\ dhtMtx[arg[a]] = NoThread
    /\ UNCHANGED <<mutexes, mReceivers, rest, layer, queue>>

\* bdNode::shutdownNode drops the messages to be sent.
StopDht(a) ==
    /\ Returned(a, "stopDht")
    /\ dhtMtx[arg[a]] = NoThread
    /\ outgoing' = [outgoing EXCEPT ![arg[a]] = 0]
    /\ UNCHANGED <<mutexes, mReceivers, rest, layer, sent>>

AddReceiver(a) ==
    /\ Returned(a, "addReceiver")
    /\ stackMtx = NoThread
    /\ mReceivers' = IF arg[a] \in ToSet(mReceivers) THEN mReceivers
                     ELSE Append(mReceivers, arg[a])
    /\ UNCHANGED <<mutexes, rest, layer, queue>>

EraseReceiver(r) ==
    \/ \E k \in DOMAIN mReceivers :
         mReceivers[k] = r /\ mReceivers' = RemoveAt(mReceivers, k)
    \/ r \notin ToSet(mReceivers) /\ UNCHANGED mReceivers

\* Mutant: does not take stackMtx.
RemoveReceiverUnlocked(a) ==
    /\ Returned(a, "removeReceiver")
    /\ EraseReceiver(arg[a])
    /\ UNCHANGED <<mutexes, rest, layer, queue>>

RemoveReceiver(a) ==
    /\ Returned(a, "removeReceiver")
    /\ stackMtx = NoThread
    /\ EraseReceiver(arg[a])
    /\ UNCHANGED <<mutexes, rest, layer, queue>>

-----------------------------------------------------------------------------
(***************************************************************************)
(* UdpLayer::reset, called through UdpStack::resetAddress.                 *)
(***************************************************************************)
StopRecvThread(a) ==
    /\ Goto(a, "reset", "join")
    /\ stopThread' = TRUE
    /\ UNCHANGED <<mutexes, mReceivers, rest, mTid, sock, queue, arg>>

LockJoin(a) ==
    /\ Goto(a, "join", "joining")
    /\ mMutex = NoThread
    /\ mMutex' = a
    /\ UNCHANGED <<stackMtx, dhtMtx, mReceivers, rest, layer, queue, arg>>

\* Mutant: does not wait for the thread.
NotWaitedFor == TRUE

RecvThreadEnded == mTid # NoThread => pc[mTid] = "dead"

\* pthread_join waits for the end of the thread, if there is one.
Join(a) ==
    /\ Goto(a, "joining", "closeSocket")
    /\ RecvThreadEnded
    /\ mTid' = NoThread
    /\ mMutex' = NoThread
    /\ UNCHANGED <<stackMtx, dhtMtx, mReceivers, rest, stopThread, sock, queue, arg>>

CloseSocket(a) ==
    /\ Goto(a, "closeSocket", "openSocket")
    /\ sock' = "closed"
    /\ UNCHANGED <<mutexes, mReceivers, rest, stopThread, mTid, queue, arg>>

\* When bind fails no thread is started.
OpenSocket(a) ==
    /\ \/ Goto(a, "openSocket", "setRunning") /\ sock' = "bound"
       \/ Goto(a, "openSocket", "idle") /\ sock' = "unbound"
    /\ UNCHANGED <<mutexes, mReceivers, rest, stopThread, mTid, queue, arg>>

\* Mutant: the flag stays.
SkipRunning(a) ==
    /\ Goto(a, "setRunning", "createThread")
    /\ UNCHANGED <<mutexes, mReceivers, rest, layer, queue, arg>>

SetRunning(a) ==
    /\ Goto(a, "setRunning", "createThread")
    /\ stopThread' = FALSE
    /\ UNCHANGED <<mutexes, mReceivers, rest, mTid, sock, queue, arg>>

CreateThread(a) ==
    /\ pc[a] = "createThread"
    /\ mMutex = NoThread
    /\ \E t \in RecvThread :
         /\ pc[t] = "dead"
         /\ pc' = [pc EXCEPT ![a] = "idle", ![t] = "check"]
         /\ mTid' = t
    /\ UNCHANGED <<mutexes, mReceivers, rest, stopThread, sock, queue, arg>>

Return(a) ==
    \/ DhtCall(a) \/ StopDht(a) \/ AddReceiver(a) \/ RemoveReceiver(a)
    \/ StopRecvThread(a) \/ LockJoin(a) \/ Join(a) \/ CloseSocket(a) \/ OpenSocket(a)
    \/ SetRunning(a) \/ CreateThread(a)

-----------------------------------------------------------------------------
\* The stack is set up and its threads run, unless the port was taken.
Init ==
    /\ \E t \in RecvThread, bound \in BOOLEAN :
         /\ pc = [u \in Thread |-> CASE u \in RecvThread -> IF bound /\ u = t THEN "check"
                                                            ELSE "dead"
                                     [] u \in Receiver   -> "tick"
                                     [] u \in App        -> "idle"]
         /\ mTid = IF bound THEN t ELSE NoThread
         /\ sock = IF bound THEN "bound" ELSE "unbound"
         /\ stopThread \in IF bound THEN {FALSE} ELSE BOOLEAN
    /\ stackMtx = NoThread
    /\ dhtMtx = [r \in Receiver |-> NoThread]
    /\ mMutex = NoThread
    /\ mReceivers \in SetToSeqs(Receiver)
    /\ rest = [t \in RecvThread |-> <<>>]
    /\ outgoing = [r \in Receiver |-> 0]
    /\ sent = [r \in Receiver |-> 0]
    /\ arg = [a \in App |-> NoThread]

Next ==
    \/ \E t \in RecvThread : Receive(t)
    \/ \E r \in Receiver : Run(r)
    \/ \E a \in App :
         \/ \E label \in CallLabel, r \in Receiver : Call(a, label, r)
         \/ a \in Resetter /\ Call(a, "reset", NoThread)
         \/ Return(a)

Spec == Init /\ [][Next]_vars

\* Every thread that can go on again and again does: the loops wait in select and
\* sleep with no mutex held, far longer than a thread needs to wake up.
FairSpec ==
    /\ Spec
    /\ \A t \in RecvThread : SF_vars(Receive(t))
    /\ \A r \in Receiver : SF_vars(Run(r))
    /\ \A a \in App : SF_vars(Return(a))

-----------------------------------------------------------------------------
(***************************************************************************)
(* Properties.                                                             *)
(***************************************************************************)
\* The receive thread reads the descriptor without a mutex of its own (select):
\* reset must not close or reopen the socket under it.
ReadsOpenSocket ==
    \A t \in RecvThread : pc[t] \in {"select", "receive"} => sock = "bound"

\* Whatever was reset, a bound socket has one thread that reads it, and that thread
\* has not been told to stop.
OneListener ==
    (/\ sock = "bound"
     /\ \A a \in Resetter : pc[a] \notin ResetLabel)
      => /\ ~ stopThread
         /\ \E t \in RecvThread : {u \in RecvThread : pc[u] # "dead"} = {t}

\* The loop over mReceivers calls only receivers that are registered: once
\* removeReceiver has returned, its receiver may be deleted.
OffersToRegistered ==
    \A t \in RecvThread : ToSet(rest[t]) \subseteq ToSet(mReceivers)

\* "keep on ticking": what one turn has queued is sent before the next turn.
SentBeforeNextTurn ==
    \A r \in Receiver : pc[r] = "iteration" => outgoing[r] = 0

\* Nobody waits for ever: every call of the application, reset among them, returns.
CallsReturn == \A a \in App : pc[a] # "idle" ~> pc[a] = "idle"

\* Every DHT thread keeps turning.
TurnsGoOn == \A r \in Receiver : []<>(pc[r] = "iteration")

=============================================================================
