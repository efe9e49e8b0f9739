-------------------------- MODULE UdpThreadsProofs --------------------------
(***************************************************************************)
(* Theorems about UdpThreads, for any number of receivers and of threads   *)
(* of the application.                                                     *)
(*                                                                         *)
(* A mutex is held exactly by the thread whose label says so (MutexInv),   *)
(* so that nobody changes mReceivers while a packet is offered.  A receive *)
(* thread that lives is the one the layer knows, and while reset is        *)
(* between join and createThread none lives (LayerInv).  With both, who    *)
(* waits for whom goes down a hierarchy, so that nobody waits for himself. *)
(***************************************************************************)
EXTENDS UdpThreads, SeqLemmas, FiniteSetTheorems

MutexInv ==
    /\ \A t \in RecvThread : pc[t] = "offer" <=> stackMtx = t
    /\ \A t \in RecvThread : pc[t] # "offer" => rest[t] = <<>>
    /\ \A r \in Receiver : IF pc[r] = "send" THEN dhtMtx[r] = r ELSE dhtMtx[r] = NoThread
    /\ \A a \in App : pc[a] = "joining" <=> mMutex = a

Alive(t) == pc[t] # "dead"

InReset == \E a \in Resetter : pc[a] \in ResetLabel

LayerInv ==
    /\ \A a \in App : pc[a] \in ResetLabel => a \in Resetter
    /\ \A t \in RecvThread : Alive(t) => mTid = t /\ sock = "bound"
    /\ \A a \in Resetter :
         /\ pc[a] \in {"closeSocket", "openSocket", "setRunning", "createThread"}
              => mTid = NoThread
         /\ pc[a] \in {"setRunning", "createThread"} => sock = "bound"
         /\ pc[a] = "createThread" => ~ stopThread
         /\ pc[a] \in {"join", "joining"} => stopThread
    /\ sock = "bound" /\ ~ InReset => ~ stopThread /\ mTid \in RecvThread /\ Alive(mTid)

IInv ==
    /\ TypeOK
    /\ MutexInv
    /\ LayerInv
    /\ OffersToRegistered
    /\ SentBeforeNextTurn

-----------------------------------------------------------------------------
\* The labels of the three kinds of threads are different, and so are the threads.
LEMMA InitInv == ASSUME Init PROVE IInv
  <1> USE ThreadAssumption
  <1>1. PICK t0 \in RecvThread, bound \in BOOLEAN :
          /\ pc = [u \in Thread |-> CASE u \in RecvThread -> IF bound /\ u = t0 THEN "check"
                                                             ELSE "dead"
                                      [] u \in Receiver   -> "tick"
                                      [] u \in App        -> "idle"]
          /\ mTid = IF bound THEN t0 ELSE NoThread
          /\ sock = IF bound THEN "bound" ELSE "unbound"
          /\ stopThread \in IF bound THEN {FALSE} ELSE BOOLEAN
    BY DEF Init
  <1>2. /\ \A t \in RecvThread : pc[t] = IF bound /\ t = t0 THEN "check" ELSE "dead"
        /\ \A r \in Receiver : pc[r] = "tick"
        /\ \A a \in App : pc[a] = "idle"
    BY <1>1 DEF Thread
  <1>3. mReceivers \in Seq(Receiver)
    <2>1. Cardinality(Receiver) \in Nat
      BY FS_CardinalityType
    <2>2. mReceivers \in [1 .. Cardinality(Receiver) -> Receiver]
      BY DEF Init, SetToSeqs
    <2>3. QED
      BY <2>1, <2>2
  <1>4. TypeOK
    <2>1. pc \in [Thread ->
             RecvLabel \cup DhtLabel \cup CallLabel \cup ResetLabel \cup {"idle"}]
      BY <1>1 DEF Thread, RecvLabel, DhtLabel
    <2>2. /\ \A t \in RecvThread : pc[t] \in RecvLabel
          /\ \A r \in Receiver : pc[r] \in DhtLabel
          /\ \A a \in App : pc[a] \in CallLabel \cup ResetLabel \cup {"idle"}
          /\ \A a \in App : pc[a] \in CallLabel <=> arg[a] # NoThread
      BY <1>2 DEF Init, RecvLabel, DhtLabel, CallLabel
    <2>3. /\ stackMtx \in RecvThread \cup {NoThread}
          /\ dhtMtx \in [Receiver -> Receiver \cup {NoThread}]
          /\ mMutex \in App \cup {NoThread}
          /\ rest \in [RecvThread -> Seq(Receiver)]
          /\ arg \in [App -> Receiver \cup {NoThread}]
      BY DEF Init
    <2>4. /\ stopThread \in BOOLEAN
          /\ mTid \in RecvThread \cup {NoThread}
          /\ sock \in {"bound", "unbound", "closed"}
      BY <1>1
    <2>5. /\ outgoing \in [Receiver -> 0 .. MaxOut]
          /\ sent \in [Receiver -> 0 .. MAX_MSG_PER_TICK]
      BY DEF Init
    <2>6. QED
      BY <1>3, <2>1, <2>2, <2>3, <2>4, <2>5 DEF TypeOK
  <1>5. MutexInv
    BY <1>2 DEF Init, MutexInv
  <1>6. LayerInv
    <2>1. \A a \in App : pc[a] \notin ResetLabel
      BY <1>2 DEF ResetLabel
    <2>2. \A t \in RecvThread : Alive(t) => bound /\ t = t0
      BY <1>2 DEF Alive
    <2>3. bound => Alive(t0)
      BY <1>2 DEF Alive
    <2>4. QED
      BY <1>1, <2>1, <2>2, <2>3 DEF LayerInv, ResetLabel
  <1>7. OffersToRegistered
    BY DEF Init, OffersToRegistered, ToSet
  <1>8. SentBeforeNextTurn
    BY <1>2 DEF SentBeforeNextTurn
  <1>9. QED
    BY <1>4, <1>5, <1>6, <1>7, <1>8 DEF IInv

\* Every step keeps the types.
LEMMA TypeStep ==
  ASSUME TypeOK, [Next]_vars
  PROVE  TypeOK'
  <1> USE ThreadAssumption DEF Goto, Returned, mutexes, layer, queue, TypeOK, Thread,
           RecvLabel, DhtLabel, CallLabel, ResetLabel
  <1>1. ASSUME NEW t \in RecvThread, CheckStop(t) PROVE TypeOK'
    BY <1>1 DEF CheckStop
  <1>2. ASSUME NEW t \in RecvThread, Select(t) PROVE TypeOK'
    <2>1. CASE Goto(t, "select", "receive")
      BY <1>2, <2>1 DEF Select
    <2>2. CASE Goto(t, "select", "check")
      BY <1>2, <2>2 DEF Select
    <2>3. QED
      BY <1>2, <2>1, <2>2 DEF Select
  <1>3. ASSUME NEW t \in RecvThread, receiveUdpPacket(t) PROVE TypeOK'
    <2>1. CASE Goto(t, "receive", "recvPkt")
      BY <1>3, <2>1 DEF receiveUdpPacket
    <2>2. CASE Goto(t, "receive", "check")
      BY <1>3, <2>2 DEF receiveUdpPacket
    <2>3. QED
      BY <1>3, <2>1, <2>2 DEF receiveUdpPacket
  <1>4. ASSUME NEW t \in RecvThread, LockStack(t) PROVE TypeOK'
    BY <1>4 DEF LockStack
  <1>5. ASSUME NEW t \in RecvThread, Accept(t) PROVE TypeOK'
    BY <1>5, SMTT(20) DEF Accept, UnlockStack
  <1>6. ASSUME NEW t \in RecvThread, Decline(t) PROVE TypeOK'
    BY <1>6, SMTT(20) DEF Decline
  <1>7. ASSUME NEW t \in RecvThread, NobodyLeft(t) PROVE TypeOK'
    BY <1>7 DEF NobodyLeft, UnlockStack
  <1>8. ASSUME NEW r \in Receiver, LockTick(r) PROVE TypeOK'
    BY <1>8 DEF LockTick
  <1>9. ASSUME NEW r \in Receiver, SendPkt(r) PROVE TypeOK'
    BY <1>9 DEF SendPkt, MaySend
  <1>10. ASSUME NEW r \in Receiver, TickDone(r) PROVE TypeOK'
    BY <1>10 DEF TickDone, KeepOnTicking
  <1>11. ASSUME NEW r \in Receiver, Iteration(r) PROVE TypeOK'
    BY <1>11 DEF Iteration
  <1>12. ASSUME NEW a \in App, NEW label \in CallLabel, NEW r \in Receiver, Call(a, label, r)
        PROVE  TypeOK'
    BY <1>12 DEF Call
  <1>13. ASSUME NEW a \in App, a \in Resetter /\ Call(a, "reset", NoThread) PROVE TypeOK'
    BY <1>13 DEF Call
  <1>14. ASSUME NEW a \in App, DhtCall(a) PROVE TypeOK'
    BY <1>14 DEF DhtCall
  <1>15. ASSUME NEW a \in App, StopDht(a) PROVE TypeOK'
    BY <1>15 DEF StopDht
  <1>16. ASSUME NEW a \in App, AddReceiver(a) PROVE TypeOK'
    BY <1>16 DEF AddReceiver
  <1>17. ASSUME NEW a \in App, RemoveReceiver(a) PROVE TypeOK'
    <2>1. mReceivers' \in Seq(Receiver)
      <3>1. ASSUME NEW k \in DOMAIN mReceivers, mReceivers' = RemoveAt(mReceivers, k)
            PROVE mReceivers' \in Seq(Receiver)
        <4>1. mReceivers \in Seq(Receiver) /\ k \in 1 .. Len(mReceivers)
          BY DEF TypeOK
        <4>2. QED
          BY <3>1, <4>1, RemoveAtProperties
      <3>2. QED
        BY <1>17, <3>1 DEF RemoveReceiver, EraseReceiver, TypeOK
    <2>2. QED
      BY <1>17, <2>1 DEF RemoveReceiver
  <1>18. ASSUME NEW a \in App, StopRecvThread(a) PROVE TypeOK'
    BY <1>18 DEF StopRecvThread
  <1>19. ASSUME NEW a \in App, LockJoin(a) PROVE TypeOK'
    BY <1>19 DEF LockJoin
  <1>20. ASSUME NEW a \in App, Join(a) PROVE TypeOK'
    BY <1>20 DEF Join, RecvThreadEnded
  <1>21. ASSUME NEW a \in App, CloseSocket(a) PROVE TypeOK'
    BY <1>21 DEF CloseSocket
  <1>22. ASSUME NEW a \in App, OpenSocket(a) PROVE TypeOK'
    <2>1. CASE Goto(a, "openSocket", "setRunning")
      BY <1>22, <2>1 DEF OpenSocket
    <2>2. CASE Goto(a, "openSocket", "idle")
      BY <1>22, <2>2 DEF OpenSocket
    <2>3. QED
      BY <1>22, <2>1, <2>2 DEF OpenSocket
  <1>23. ASSUME NEW a \in App, SetRunning(a) PROVE TypeOK'
    BY <1>23 DEF SetRunning
  <1>24. ASSUME NEW a \in App, CreateThread(a) PROVE TypeOK'
    <2>1. PICK t \in RecvThread :
            pc' = [pc EXCEPT ![a] = "idle", ![t] = "check"] /\ mTid' = t
      BY <1>24 DEF CreateThread
    <2>2. pc[a] = "createThread"
      BY <1>24 DEF CreateThread
    <2>3. pc'[a] = "idle" /\ pc'[t] = "check" /\ \A u \in Thread \ {a, t} : pc'[u] = pc[u]
      BY <2>1
    <2>4. pc' \in [Thread -> RecvLabel \cup DhtLabel \cup CallLabel \cup ResetLabel \cup {"idle"}]
      BY <2>1
    <2>5. /\ \A u \in RecvThread : pc'[u] \in RecvLabel
          /\ \A r \in Receiver : pc'[r] \in DhtLabel
      BY <2>3
    <2>6. \A b \in App : /\ pc'[b] \in CallLabel \cup ResetLabel \cup {"idle"}
                         /\ pc'[b] \in CallLabel <=> arg[b] # NoThread
      BY <2>2, <2>3
    <2>7. QED
      BY <1>24, <2>1, <2>4, <2>5, <2>6 DEF CreateThread
  <1>25. ASSUME UNCHANGED vars PROVE TypeOK'
    BY <1>25 DEF vars
  <1> HIDE DEF Goto, Returned, TypeOK, Thread, RecvLabel, DhtLabel, CallLabel, ResetLabel
  <1>26. QED
    BY <1>1, <1>2, <1>3, <1>4, <1>5, <1>6, <1>7, <1>8, <1>9, <1>10, <1>11, <1>12, <1>13,
       <1>14, <1>15, <1>16, <1>17, <1>18, <1>19, <1>20, <1>21, <1>22, <1>23, <1>24,
       <1>25 DEF Next, Receive, Run, Return

\* Every step keeps the mutexes with the threads whose labels say so.
LEMMA MutexStep ==
  ASSUME TypeOK, MutexInv, [Next]_vars
  PROVE  MutexInv'
  <1> USE ThreadAssumption DEF Goto, Returned, mutexes, layer, queue, MutexInv, TypeOK,
           Thread, RecvLabel, DhtLabel, CallLabel, ResetLabel
  <1>1. ASSUME NEW t \in RecvThread, CheckStop(t) PROVE MutexInv'
    BY <1>1 DEF CheckStop
  <1>2. ASSUME NEW t \in RecvThread, Select(t) PROVE MutexInv'
    BY <1>2 DEF Select
  <1>3. ASSUME NEW t \in RecvThread, receiveUdpPacket(t) PROVE MutexInv'
    BY <1>3 DEF receiveUdpPacket
  <1>4. ASSUME NEW t \in RecvThread, LockStack(t) PROVE MutexInv'
    <2>1. /\ pc[t] = "recvPkt" /\ pc' = [pc EXCEPT ![t] = "offer"]
          /\ stackMtx = NoThread /\ stackMtx' = t
          /\ rest' = [rest EXCEPT ![t] = mReceivers]
          /\ UNCHANGED <<dhtMtx, mMutex>>
      BY <1>4 DEF LockStack
    <2>2. \A u \in RecvThread : /\ pc'[u] = "offer" <=> u = t
                                /\ u # t => rest'[u] = <<>>
      BY <2>1
    <2>3. QED
      BY <2>1, <2>2
  <1>5. ASSUME NEW t \in RecvThread, Accept(t) PROVE MutexInv'
    <2>1. /\ pc[t] = "offer" /\ pc' = [pc EXCEPT ![t] = "check"]
          /\ rest' = [rest EXCEPT ![t] = <<>>] /\ stackMtx' = NoThread
          /\ UNCHANGED <<dhtMtx, mMutex>>
      BY <1>5 DEF Accept, UnlockStack
    <2>2. \A u \in RecvThread : pc'[u] # "offer" /\ rest'[u] = <<>>
      BY <2>1
    <2>3. QED
      BY <2>1, <2>2
  <1>6. ASSUME NEW t \in RecvThread, Decline(t) PROVE MutexInv'
    BY <1>6 DEF Decline
  <1>7. ASSUME NEW t \in RecvThread, NobodyLeft(t) PROVE MutexInv'
    BY <1>7 DEF NobodyLeft, UnlockStack
  <1>8. ASSUME NEW r \in Receiver, LockTick(r) PROVE MutexInv'
    BY <1>8 DEF LockTick
  <1>9. ASSUME NEW r \in Receiver, SendPkt(r) PROVE MutexInv'
    BY <1>9 DEF SendPkt, MaySend
  <1>10. ASSUME NEW r \in Receiver, TickDone(r) PROVE MutexInv'
    BY <1>10 DEF TickDone, KeepOnTicking
  <1>11. ASSUME NEW r \in Receiver, Iteration(r) PROVE MutexInv'
    BY <1>11 DEF Iteration
  <1>12. ASSUME NEW a \in App, NEW label \in CallLabel, NEW r \in Receiver, Call(a, label, r)
        PROVE  MutexInv'
    BY <1>12 DEF Call
  <1>13. ASSUME NEW a \in App, a \in Resetter /\ Call(a, "reset", NoThread) PROVE MutexInv'
    BY <1>13 DEF Call
  <1>14. ASSUME NEW a \in App, DhtCall(a) PROVE MutexInv'
    BY <1>14 DEF DhtCall
  <1>15. ASSUME NEW a \in App, StopDht(a) PROVE MutexInv'
    BY <1>15 DEF StopDht
  <1>16. ASSUME NEW a \in App, AddReceiver(a) PROVE MutexInv'
    BY <1>16 DEF AddReceiver
  <1>17. ASSUME NEW a \in App, RemoveReceiver(a) PROVE MutexInv'
    BY <1>17 DEF RemoveReceiver, EraseReceiver
  <1>18. ASSUME NEW a \in App, StopRecvThread(a) PROVE MutexInv'
    BY <1>18 DEF StopRecvThread
  <1>19. ASSUME NEW a \in App, LockJoin(a) PROVE MutexInv'
    BY <1>19 DEF LockJoin
  <1>20. ASSUME NEW a \in App, Join(a) PROVE MutexInv'
    BY <1>20 DEF Join, RecvThreadEnded
  <1>21. ASSUME NEW a \in App, CloseSocket(a) PROVE MutexInv'
    BY <1>21 DEF CloseSocket
  <1>22. ASSUME NEW a \in App, OpenSocket(a) PROVE MutexInv'
    BY <1>22 DEF OpenSocket
  <1>23. ASSUME NEW a \in App, SetRunning(a) PROVE MutexInv'
    BY <1>23 DEF SetRunning
  <1>24. ASSUME NEW a \in App, CreateThread(a) PROVE MutexInv'
    BY <1>24 DEF CreateThread
  <1>25. ASSUME UNCHANGED vars PROVE MutexInv'
    BY <1>25 DEF vars
  <1>26. QED
    BY <1>1, <1>2, <1>3, <1>4, <1>5, <1>6, <1>7, <1>8, <1>9, <1>10, <1>11, <1>12, <1>13,
       <1>14, <1>15, <1>16, <1>17, <1>18, <1>19, <1>20, <1>21, <1>22, <1>23, <1>24,
       <1>25 DEF Next, Receive, Run, Return

\* Every step keeps the layer in line with its receive thread.
LEMMA LayerStep ==
  ASSUME TypeOK, LayerInv, [Next]_vars
  PROVE  LayerInv'
  <1> USE ThreadAssumption DEF Goto, Returned, mutexes, layer, queue, LayerInv, InReset,
           Alive, TypeOK, Thread, RecvLabel, DhtLabel, CallLabel, ResetLabel
  <1>1. ASSUME NEW t \in RecvThread, CheckStop(t) PROVE LayerInv'
    BY <1>1 DEF CheckStop
  <1>2. ASSUME NEW t \in RecvThread, Select(t) PROVE LayerInv'
    BY <1>2 DEF Select
  <1>3. ASSUME NEW t \in RecvThread, receiveUdpPacket(t) PROVE LayerInv'
    BY <1>3 DEF receiveUdpPacket
  <1>4. ASSUME NEW t \in RecvThread, LockStack(t) PROVE LayerInv'
    BY <1>4 DEF LockStack
  <1>5. ASSUME NEW t \in RecvThread, Accept(t) PROVE LayerInv'
    BY <1>5 DEF Accept, UnlockStack
  <1>6. ASSUME NEW t \in RecvThread, Decline(t) PROVE LayerInv'
    BY <1>6 DEF Decline
  <1>7. ASSUME NEW t \in RecvThread, NobodyLeft(t) PROVE LayerInv'
    BY <1>7 DEF NobodyLeft, UnlockStack
  <1>8. ASSUME NEW r \in Receiver, LockTick(r) PROVE LayerInv'
    BY <1>8 DEF LockTick
  <1>9. ASSUME NEW r \in Receiver, SendPkt(r) PROVE LayerInv'
    BY <1>9 DEF SendPkt, MaySend
  <1>10. ASSUME NEW r \in Receiver, TickDone(r) PROVE LayerInv'
    BY <1>10 DEF TickDone, KeepOnTicking
  <1>11. ASSUME NEW r \in Receiver, Iteration(r) PROVE LayerInv'
    BY <1>11 DEF Iteration
  <1>12. ASSUME NEW a \in App, NEW label \in CallLabel, NEW r \in Receiver, Call(a, label, r)
        PROVE  LayerInv'
    BY <1>12 DEF Call
  <1>13. ASSUME NEW a \in App, a \in Resetter /\ Call(a, "reset", NoThread) PROVE LayerInv'
    BY <1>13 DEF Call
  <1>14. ASSUME NEW a \in App, DhtCall(a) PROVE LayerInv'
    BY <1>14 DEF DhtCall
  <1>15. ASSUME NEW a \in App, StopDht(a) PROVE LayerInv'
    BY <1>15 DEF StopDht
  <1>16. ASSUME NEW a \in App, AddReceiver(a) PROVE LayerInv'
    BY <1>16 DEF AddReceiver
  <1>17. ASSUME NEW a \in App, RemoveReceiver(a) PROVE LayerInv'
    BY <1>17 DEF RemoveReceiver, EraseReceiver
  <1>18. ASSUME NEW a \in App, StopRecvThread(a) PROVE LayerInv'
    BY <1>18 DEF StopRecvThread
  <1>19. ASSUME NEW a \in App, LockJoin(a) PROVE LayerInv'
    BY <1>19 DEF LockJoin
  <1>20. ASSUME NEW a \in App, Join(a) PROVE LayerInv'
    BY <1>20 DEF Join, RecvThreadEnded
  <1>21. ASSUME NEW a \in App, CloseSocket(a) PROVE LayerInv'
    BY <1>21 DEF CloseSocket
  <1>22. ASSUME NEW a \in App, OpenSocket(a) PROVE LayerInv'
    BY <1>22 DEF OpenSocket
  <1>23. ASSUME NEW a \in App, SetRunning(a) PROVE LayerInv'
    BY <1>23 DEF SetRunning
  <1>24. ASSUME NEW a \in App, CreateThread(a) PROVE LayerInv'
    <2>1. PICK t \in RecvThread :
            pc' = [pc EXCEPT ![a] = "idle", ![t] = "check"] /\ mTid' = t
      BY <1>24 DEF CreateThread
    <2>2. /\ pc[a] = "createThread"
          /\ UNCHANGED <<stopThread, sock>>
      BY <1>24 DEF CreateThread
    <2>3. /\ a \in Resetter
          /\ \A b \in Resetter : b = a
          /\ mTid = NoThread /\ sock = "bound" /\ ~ stopThread
      BY <2>2 DEF LayerInv, ResetLabel
    <2>4. \A u \in RecvThread : ~ Alive(u)
      BY <2>3 DEF LayerInv
    <2>5. /\ pc'[a] = "idle" /\ pc'[t] = "check"
          /\ \A u \in Thread \ {a, t} : pc'[u] = pc[u]
      BY <2>1 DEF TypeOK, Thread
    <2>6. \A u \in RecvThread : Alive(u)' <=> u = t
      BY <2>4, <2>5 DEF Alive, Thread
    <2>7. \A b \in App : pc'[b] \notin ResetLabel
      BY <2>3, <2>5 DEF Thread, LayerInv, ResetLabel
    <2>8. (\A b \in App : pc[b] \in ResetLabel => b \in Resetter)'
          /\ (\A u \in RecvThread : Alive(u) => mTid = u /\ sock = "bound")'
      BY <2>1, <2>2, <2>3, <2>6, <2>7
    <2>9. \A b \in Resetter : pc'[b] = "idle"
      BY <2>3, <2>5
    <2>10. (sock = "bound" /\ ~ InReset => ~ stopThread /\ mTid \in RecvThread /\ Alive(mTid))'
      BY <2>1, <2>2, <2>3, <2>6
    <2>11. QED
      BY <2>8, <2>9, <2>10 DEF LayerInv
  <1>25. ASSUME UNCHANGED vars PROVE LayerInv'
    BY <1>25 DEF vars
  <1>26. QED
    BY <1>1, <1>2, <1>3, <1>4, <1>5, <1>6, <1>7, <1>8, <1>9, <1>10, <1>11, <1>12, <1>13,
       <1>14, <1>15, <1>16, <1>17, <1>18, <1>19, <1>20, <1>21, <1>22, <1>23, <1>24,
       <1>25 DEF Next, Receive, Run, Return

\* While a packet is offered stackMtx is taken, so that mReceivers does not change.
LEMMA OffersStep ==
  ASSUME TypeOK, MutexInv, OffersToRegistered, [Next]_vars
  PROVE  OffersToRegistered'
  <1> USE ThreadAssumption
  <1>1. ASSUME UNCHANGED <<rest, mReceivers>>
        PROVE  OffersToRegistered'
    BY <1>1 DEF OffersToRegistered
  <1>2. ASSUME NEW t \in RecvThread, LockStack(t) PROVE OffersToRegistered'
    BY <1>2 DEF LockStack, OffersToRegistered, TypeOK
  <1>3. ASSUME NEW t \in RecvThread, UnlockStack(t), UNCHANGED mReceivers
        PROVE  OffersToRegistered'
    <2>1. ToSet(<<>>) = {}
      BY DEF ToSet
    <2>2. /\ rest'[t] = <<>>
          /\ \A u \in RecvThread \ {t} : rest'[u] = rest[u]
      BY <1>3 DEF UnlockStack, TypeOK
    <2>3. QED
      BY <1>3, <2>1, <2>2 DEF OffersToRegistered
  <1>4. ASSUME NEW t \in RecvThread, Decline(t) PROVE OffersToRegistered'
    <2>1. rest[t] \in Seq(Receiver) /\ rest[t] # <<>>
      BY <1>4 DEF Decline, TypeOK
    <2>2. ToSet(Tail(rest[t])) \subseteq ToSet(rest[t])
      BY <2>1 DEF ToSet
    <2>3. /\ rest'[t] = Tail(rest[t])
          /\ \A u \in RecvThread \ {t} : rest'[u] = rest[u]
          /\ mReceivers' = mReceivers
      BY <1>4 DEF Decline, TypeOK
    <2>4. QED
      BY <2>2, <2>3 DEF OffersToRegistered
  <1>5. ASSUME stackMtx = NoThread, UNCHANGED rest PROVE OffersToRegistered'
    <2>1. \A t \in RecvThread : rest'[t] = <<>>
      BY <1>5 DEF MutexInv
    <2>2. ToSet(<<>>) = {}
      BY DEF ToSet
    <2>3. QED
      BY <2>1, <2>2 DEF OffersToRegistered
  <1>6. ASSUME NEW t \in RecvThread, Receive(t) PROVE OffersToRegistered'
    BY <1>1, <1>2, <1>3, <1>4, <1>6
       DEF Receive, CheckStop, Select, receiveUdpPacket, Accept, NobodyLeft
  <1>7. ASSUME NEW r \in Receiver, Run(r) PROVE OffersToRegistered'
    BY <1>1, <1>7 DEF Run, LockTick, SendPkt, TickDone, Iteration
  <1>8. ASSUME NEW a \in App, AddReceiver(a) \/ RemoveReceiver(a) PROVE OffersToRegistered'
    BY <1>5, <1>8 DEF AddReceiver, RemoveReceiver
  <1>9. ASSUME NEW a \in App, Return(a) PROVE OffersToRegistered'
    BY <1>1, <1>8, <1>9
       DEF Return, DhtCall, StopDht, StopRecvThread, LockJoin, Join, CloseSocket, OpenSocket,
           SetRunning, CreateThread
  <1>10. ASSUME NEW a \in App, NEW label, NEW r, Call(a, label, r) PROVE OffersToRegistered'
    BY <1>1, <1>10 DEF Call
  <1>11. CASE UNCHANGED vars
    BY <1>1, <1>11 DEF vars
  <1>12. QED
    BY <1>6, <1>7, <1>9, <1>10, <1>11 DEF Next

\* A thread leaves its tick for the next turn only when nothing is left to send.
LEMMA SentStep ==
  ASSUME TypeOK, SentBeforeNextTurn, [Next]_vars
  PROVE  SentBeforeNextTurn'
  <1> USE ThreadAssumption DEF Goto, Returned, mutexes, layer, queue,
           SentBeforeNextTurn, TypeOK, Thread
  <1>1. ASSUME NEW t \in RecvThread, CheckStop(t) PROVE SentBeforeNextTurn'
    BY <1>1 DEF CheckStop
  <1>2. ASSUME NEW t \in RecvThread, Select(t) PROVE SentBeforeNextTurn'
    BY <1>2 DEF Select
  <1>3. ASSUME NEW t \in RecvThread, receiveUdpPacket(t) PROVE SentBeforeNextTurn'
    BY <1>3 DEF receiveUdpPacket
  <1>4. ASSUME NEW t \in RecvThread, LockStack(t) PROVE SentBeforeNextTurn'
    BY <1>4 DEF LockStack
  <1>5. ASSUME NEW t \in RecvThread, Accept(t) PROVE SentBeforeNextTurn'
    BY <1>5 DEF Accept, UnlockStack
  <1>6. ASSUME NEW t \in RecvThread, Decline(t) PROVE SentBeforeNextTurn'
    BY <1>6 DEF Decline
  <1>7. ASSUME NEW t \in RecvThread, NobodyLeft(t) PROVE SentBeforeNextTurn'
    BY <1>7 DEF NobodyLeft, UnlockStack
  <1>8. ASSUME NEW r \in Receiver, LockTick(r) PROVE SentBeforeNextTurn'
    BY <1>8 DEF LockTick
  <1>9. ASSUME NEW r \in Receiver, SendPkt(r) PROVE SentBeforeNextTurn'
    BY <1>9 DEF SendPkt, MaySend
  <1>10. ASSUME NEW r \in Receiver, TickDone(r) PROVE SentBeforeNextTurn'
    BY <1>10 DEF TickDone, KeepOnTicking
  <1>11. ASSUME NEW r \in Receiver, Iteration(r) PROVE SentBeforeNextTurn'
    BY <1>11 DEF Iteration
  <1>12. ASSUME NEW a \in App, NEW label \in CallLabel, NEW r \in Receiver, Call(a, label, r)
        PROVE  SentBeforeNextTurn'
    BY <1>12 DEF Call
  <1>13. ASSUME NEW a \in App, a \in Resetter /\ Call(a, "reset", NoThread)
        PROVE  SentBeforeNextTurn'
    BY <1>13 DEF Call
  <1>14. ASSUME NEW a \in App, DhtCall(a) PROVE SentBeforeNextTurn'
    BY <1>14 DEF DhtCall
  <1>15. ASSUME NEW a \in App, StopDht(a) PROVE SentBeforeNextTurn'
    BY <1>15 DEF StopDht
  <1>16. ASSUME NEW a \in App, AddReceiver(a) PROVE SentBeforeNextTurn'
    BY <1>16 DEF AddReceiver
  <1>17. ASSUME NEW a \in App, RemoveReceiver(a) PROVE SentBeforeNextTurn'
    BY <1>17 DEF RemoveReceiver, EraseReceiver
  <1>18. ASSUME NEW a \in App, StopRecvThread(a) PROVE SentBeforeNextTurn'
    BY <1>18 DEF StopRecvThread
  <1>19. ASSUME NEW a \in App, LockJoin(a) PROVE SentBeforeNextTurn'
    BY <1>19 DEF LockJoin
  <1>20. ASSUME NEW a \in App, Join(a) PROVE SentBeforeNextTurn'
    BY <1>20 DEF Join, RecvThreadEnded
  <1>21. ASSUME NEW a \in App, CloseSocket(a) PROVE SentBeforeNextTurn'
    BY <1>21 DEF CloseSocket
  <1>22. ASSUME NEW a \in App, OpenSocket(a) PROVE SentBeforeNextTurn'
    BY <1>22 DEF OpenSocket
  <1>23. ASSUME NEW a \in App, SetRunning(a) PROVE SentBeforeNextTurn'
    BY <1>23 DEF SetRunning
  <1>24. ASSUME NEW a \in App, CreateThread(a) PROVE SentBeforeNextTurn'
    BY <1>24 DEF CreateThread
  <1>25. ASSUME UNCHANGED vars PROVE SentBeforeNextTurn'
    BY <1>25 DEF vars
  <1>26. QED
    BY <1>1, <1>2, <1>3, <1>4, <1>5, <1>6, <1>7, <1>8, <1>9, <1>10, <1>11, <1>12, <1>13,
       <1>14, <1>15, <1>16, <1>17, <1>18, <1>19, <1>20, <1>21, <1>22, <1>23, <1>24,
       <1>25 DEF Next, Receive, Run, Return

-----------------------------------------------------------------------------
\* The inductive invariant holds in every reachable state.
THEOREM ThreadsInvariant == Spec => []IInv
  <1>1. IInv /\ [Next]_vars => IInv'
    BY TypeStep, MutexStep, LayerStep, OffersStep, SentStep DEF IInv
  <1>2. QED
    BY <1>1, InitInv, PTL DEF Spec

\* Types are kept, for any number of receivers and threads.
THEOREM TypeCorrect == Spec => []TypeOK
  <1>1. IInv => TypeOK
    BY DEF IInv
  <1>2. QED
    BY <1>1, ThreadsInvariant, PTL

\* The receive thread waits on and reads a bound socket only: reset never closes the
\* socket under it, because no thread outlives join.
THEOREM SocketStaysOpen == Spec => []ReadsOpenSocket
  <1>1. IInv => ReadsOpenSocket
    BY DEF IInv, LayerInv, Alive, ReadsOpenSocket
  <1>2. QED
    BY <1>1, ThreadsInvariant, PTL

\* With its socket bound and no reset under way, the layer has one receive thread, which
\* goes on.
THEOREM OneThreadListens == Spec => []OneListener
  <1>1. IInv => OneListener
    <2>1. SUFFICES ASSUME IInv, sock = "bound", \A a \in Resetter : pc[a] \notin ResetLabel
                   PROVE  /\ ~ stopThread
                          /\ \E t \in RecvThread : {u \in RecvThread : pc[u] # "dead"} = {t}
      BY DEF OneListener
    <2>2. ~ stopThread /\ mTid \in RecvThread /\ Alive(mTid)
      BY <2>1 DEF IInv, LayerInv, InReset
    <2>3. {u \in RecvThread : pc[u] # "dead"} = {mTid}
      BY <2>1, <2>2 DEF IInv, LayerInv, Alive
    <2>4. QED
      BY <2>2, <2>3
  <1>2. QED
    BY <1>1, ThreadsInvariant, PTL

\* A packet is offered only to receivers that are registered at that moment.
THEOREM OffersAreToRegistered == Spec => []OffersToRegistered
  <1>1. IInv => OffersToRegistered
    BY DEF IInv
  <1>2. QED
    BY <1>1, ThreadsInvariant, PTL

\* What a turn has queued is sent before the next one, whatever the limit of a tick.
THEOREM NothingLeftUnsent == Spec => []SentBeforeNextTurn
  <1>1. IInv => SentBeforeNextTurn
    BY DEF IInv
  <1>2. QED
    BY <1>1, ThreadsInvariant, PTL
-----------------------------------------------------------------------------
(***************************************************************************)
(* Who waits for whom.  The threads of the receivers are at the bottom:    *)
(* they hold dhtMtx and wait for nobody.  Above are the receive thread     *)
(* that holds stackMtx, a receive thread that does not, the application's  *)
(* thread that holds mMutex, and the other threads of the application.     *)
(***************************************************************************)
\* Thread t cannot go on before u has given up a mutex, or has ended.
WaitsFor(t, u) ==
    \/ pc[t] \in {"recvPkt", "addReceiver", "removeReceiver"} /\ stackMtx = u
    \/ pc[t] = "offer" /\ rest[t] # <<>> /\ dhtMtx[Head(rest[t])] = u
    \/ pc[t] \in {"tick", "iteration"} /\ dhtMtx[t] = u
    \/ pc[t] \in {"dhtCall", "stopDht"} /\ dhtMtx[arg[t]] = u
    \/ pc[t] \in {"join", "createThread"} /\ mMutex = u
    \/ pc[t] = "joining" /\ mTid = u /\ pc[u] # "dead"

Level(t) ==
    CASE t \in Receiver   -> 0
      [] t \in RecvThread -> IF pc[t] = "offer" THEN 1 ELSE 2
      [] t \in App        -> IF pc[t] = "joining" THEN 3 ELSE 4

\* Who waits, waits for one further down.
NoCircle == \A t, u \in Thread : WaitsFor(t, u) => Level(u) < Level(t)

\* Reset waits for the receive thread only while that one is told to stop.
ToldToStop == \A a \in App : pc[a] \in {"join", "joining"} => stopThread

LEMMA WaitsGoDown ==
    ASSUME IInv, NEW t \in Thread, NEW u \in Thread, WaitsFor(t, u)
    PROVE  Level(u) < Level(t)
  <1> USE ThreadAssumption DEF Thread
  <1>1. /\ \A r \in Receiver : Level(r) = 0
        /\ \A v \in RecvThread : Level(v) = IF pc[v] = "offer" THEN 1 ELSE 2
        /\ \A a \in App : Level(a) = IF pc[a] = "joining" THEN 3 ELSE 4
    BY DEF Level
  <1>2. /\ \A v \in RecvThread : pc[v] \in RecvLabel
        /\ \A r \in Receiver : pc[r] \in DhtLabel
        /\ \A a \in App : pc[a] \in CallLabel \cup ResetLabel \cup {"idle"}
        /\ stackMtx \in RecvThread \cup {NoThread}
        /\ mMutex \in App \cup {NoThread}
        /\ mTid \in RecvThread \cup {NoThread}
        /\ \A a \in App : pc[a] \in CallLabel => arg[a] \in Receiver
    BY DEF IInv, TypeOK
  <1>3. \A r, v \in Receiver : dhtMtx[r] = v => pc[r] = "send" /\ v = r
    BY DEF IInv, MutexInv
  <1>4. \A r \in Receiver : dhtMtx[r] = NoThread \/ dhtMtx[r] = r
    BY DEF IInv, MutexInv
  <1>5. CASE pc[t] \in {"recvPkt", "addReceiver", "removeReceiver"} /\ stackMtx = u
    <2>1. u \in RecvThread /\ pc[u] = "offer"
      BY <1>2, <1>5 DEF IInv, MutexInv
    <2>2. t \notin Receiver
      BY <1>2, <1>5 DEF DhtLabel
    <2> QED
      BY <1>1, <1>5, <2>1, <2>2
  <1>6. CASE pc[t] = "offer" /\ rest[t] # <<>> /\ dhtMtx[Head(rest[t])] = u
    <2>1. t \in RecvThread
      BY <1>2, <1>6 DEF DhtLabel, CallLabel, ResetLabel
    <2>2. Head(rest[t]) \in Receiver
      BY <1>6, <2>1 DEF IInv, TypeOK
    <2>3. u \in Receiver
      BY <1>4, <1>6, <2>2
    <2> QED
      BY <1>1, <1>6, <2>1, <2>3
  <1>7. CASE pc[t] \in {"tick", "iteration"} /\ dhtMtx[t] = u
    <2>1. t \in Receiver
      BY <1>2, <1>7 DEF RecvLabel, CallLabel, ResetLabel
    <2> QED
      BY <1>7, <2>1 DEF IInv, MutexInv
  <1>8. CASE pc[t] \in {"dhtCall", "stopDht"} /\ dhtMtx[arg[t]] = u
    <2>1. t \in App /\ pc[t] # "joining"
      BY <1>2, <1>8 DEF RecvLabel, DhtLabel
    <2>2. u \in Receiver
      BY <1>2, <1>4, <1>8, <2>1 DEF CallLabel
    <2> QED
      BY <1>1, <2>1, <2>2
  <1>9. CASE pc[t] \in {"join", "createThread"} /\ mMutex = u
    <2>1. t \in App /\ pc[t] # "joining"
      BY <1>2, <1>9 DEF RecvLabel, DhtLabel
    <2>2. u \in App /\ pc[u] = "joining"
      BY <1>2, <1>9 DEF IInv, MutexInv
    <2> QED
      BY <1>1, <2>1, <2>2
  <1>10. CASE pc[t] = "joining" /\ mTid = u /\ pc[u] # "dead"
    <2>1. t \in App
      BY <1>2, <1>10 DEF RecvLabel, DhtLabel
    <2>2. u \in RecvThread
      BY <1>2, <1>10
    <2> QED
      BY <1>1, <1>10, <2>1, <2>2
  <1> QED
    BY <1>5, <1>6, <1>7, <1>8, <1>9, <1>10 DEF WaitsFor

\* Whoever waits, for a mutex or for the end of a thread, waits for one further down, so that
\* no set of threads waits in a circle: receivers that are called with stackMtx held, the DHT
\* threads that send under dhtMtx and reset, which joins (udpstack.cc:60, bdthreads.cc:110).
THEOREM NobodyWaitsInACircle == Spec => []NoCircle
  <1>1. IInv => NoCircle
    BY WaitsGoDown DEF NoCircle
  <1>2. QED
    BY <1>1, ThreadsInvariant, PTL

\* The receive thread that reset waits for has been told to stop, and nobody takes that back
\* while reset waits (UdpLayer::reset, udplayer.cc:183).
THEOREM JoinedWillStop == Spec => []ToldToStop
  <1>1. IInv => ToldToStop
    BY DEF IInv, LayerInv, ToldToStop, ResetLabel
  <1>2. QED
    BY <1>1, ThreadsInvariant, PTL
=============================================================================
