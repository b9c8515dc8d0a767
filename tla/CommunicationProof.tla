------------------------- MODULE CommunicationProof -------------------------
(***************************************************************************)
(* Proofs about module Communication, for any set of clients.              *)
(*                                                                         *)
(* TypeOK, TransportInv and OwnerInv are inductive on their own or on top  *)
(* of each other, in this order; CloseInv rests on all three.              *)
(***************************************************************************)
EXTENDS Communication, TLAPS

-----------------------------------------------------------------------------
(* Every variable starts with its type.                                    *)
LEMMA TypeInit == Init => TypeOK
<1> SUFFICES ASSUME Init PROVE TypeOK
  OBVIOUS
<1>1. /\ mReadReady \in [Clients -> BOOLEAN] /\ closed \in [Clients -> BOOLEAN]
      /\ mStarted \in [Clients -> BOOLEAN]
  BY DEF Init
<1>2. failures \in 0..MaxFailures
  BY CommunicationAssumption DEF Init
<1>3. /\ handler = [c \in Clients |-> "exited"] /\ owner = [c \in Clients |-> "setup"]
      /\ appStop = [c \in Clients |-> "none"]
  BY DEF Init
<1> QED
  BY <1>1, <1>2, <1>3 DEF Init, TypeOK

(* Every action of every thread keeps the types.                           *)
LEMMA TypeNext == TypeOK /\ [Next]_vars => TypeOK'
<1> SUFFICES ASSUME TypeOK, [Next]_vars PROVE TypeOK'
  OBVIOUS
<1> USE CommunicationAssumption
<1>1. CASE CheckClose
  BY <1>1 DEF CheckClose, CMMoves, CMGoto, TypeOK, cmVars, chanVars, clientVars,
     appVars
<1>2. CASE TryConnect
  BY <1>2 DEF TryConnect, CMGoto, TypeOK, cmVars, chanVars, clientVars, appVars
<1>3. CASE TryConnectFails
  BY <1>3 DEF TryConnectFails, CMMoves, CMGoto, TypeOK, cmVars, chanVars,
     clientVars, appVars
<1>4. CASE WaitTimeout
  BY <1>4 DEF WaitTimeout, CMMoves, CMGoto, TypeOK, cmVars, chanVars,
     clientVars, appVars
<1>5. CASE WaitChannels
  BY <1>5 DEF WaitChannels, CMMoves, CMGoto, TypeOK, cmVars, chanVars,
     clientVars, appVars
<1>6. CASE ReadClosed
  BY <1>6 DEF ReadClosed, CMMoves, CMGoto, TypeOK, cmVars, chanVars, clientVars,
     appVars
<1>7. CASE ReadFails
  BY <1>7 DEF ReadFails, CMGoto, TypeOK, cmVars, chanVars, clientVars, appVars
<1>8. CASE WaitRead
  BY <1>8 DEF WaitRead, CMMoves, CMGoto, TypeOK, cmVars, chanVars, clientVars,
     appVars
<1>9. CASE WaitReadFails
  BY <1>9 DEF WaitReadFails, FrameDone, CMGoto, TypeOK, cmVars, chanVars,
     clientVars, appVars
<1>10. CASE ReadDone
  BY <1>10 DEF ReadDone, FrameDone, CMGoto, TypeOK, cmVars, chanVars,
     clientVars, appVars
<1>11. CASE CloseTransport
  BY <1>11 DEF CloseTransport, CMGoto, TypeOK, cmVars, chanVars, clientVars,
     appVars
<1>12. CASE CloseChannels
  BY <1>12 DEF CloseChannels, CMGoto, TypeOK, cmVars, chanVars, clientVars,
     appVars
<1>13. CASE ChannelsClosed
  BY <1>13 DEF ChannelsClosed, CMMoves, CMGoto, TypeOK, cmVars, chanVars,
     clientVars, appVars
<1>14. CASE AppStop
  BY <1>14 DEF AppStop, TypeOK, cmVars, chanVars, clientVars, appVars
<1>15. CASE ChannelManagerStop
  BY <1>15 DEF ChannelManagerStop, TypeOK, cmVars, chanVars, clientVars, appVars
<1>16. CASE ChannelManagerJoin
  BY <1>16 DEF ChannelManagerJoin, TypeOK, cmVars, chanVars, clientVars, appVars
<1>17. CASE AppDone
  BY <1>17 DEF AppDone, TypeOK, cmVars, chanVars, clientVars, appVars
<1>18. ASSUME NEW c \in Clients, ReadFrame(c)
      PROVE  TypeOK'
  BY <1>18 DEF ReadFrame, CMGoto, TypeOK, cmVars, chanVars, clientVars, appVars
<1>19. ASSUME NEW c \in Clients, CloseChannel(c)
      PROVE  TypeOK'
  BY <1>19 DEF CloseChannel, CMGoto, TypeOK, cmVars, chanVars, clientVars,
     appVars
<1>20. ASSUME NEW c \in Clients, CheckStarted(c)
      PROVE  TypeOK'
  BY <1>20 DEF CheckStarted, HandlerMoves, HandlerGoto, TypeOK, cmVars,
     chanVars, clientVars, appVars
<1>21. ASSUME NEW c \in Clients, Connect(c)
      PROVE  TypeOK'
  BY <1>21 DEF Connect, HandlerMoves, HandlerGoto, TypeOK, cmVars, chanVars,
     clientVars, appVars
<1>22. ASSUME NEW c \in Clients, ConnectSucceeds(c)
      PROVE  TypeOK'
  BY <1>22 DEF ConnectSucceeds, HandlerGoto, TypeOK, cmVars, chanVars,
     clientVars, appVars
<1>23. ASSUME NEW c \in Clients, ConnectFails(c)
      PROVE  TypeOK'
  BY <1>23 DEF ConnectFails, HandlerMoves, HandlerGoto, TypeOK, cmVars,
     chanVars, clientVars, appVars
<1>24. ASSUME NEW c \in Clients, WaitReconnect(c)
      PROVE  TypeOK'
  BY <1>24 DEF WaitReconnect, HandlerMoves, HandlerGoto, TypeOK, cmVars,
     chanVars, clientVars, appVars
<1>25. ASSUME NEW c \in Clients, CallbackDone(c)
      PROVE  TypeOK'
  BY <1>25 DEF CallbackDone, HandlerMoves, HandlerGoto, TypeOK, cmVars,
     chanVars, clientVars, appVars
<1>26. ASSUME NEW c \in Clients, SendMessage(c)
      PROVE  TypeOK'
  BY <1>26 DEF SendMessage, HandlerMoves, HandlerGoto, TypeOK, cmVars, chanVars,
     clientVars, appVars
<1>27. ASSUME NEW c \in Clients, Write(c)
      PROVE  TypeOK'
  BY <1>27 DEF Write, HandlerMoves, HandlerGoto, TypeOK, cmVars, chanVars,
     clientVars, appVars
<1>28. ASSUME NEW c \in Clients, WriteReturns(c)
      PROVE  TypeOK'
  BY <1>28 DEF WriteReturns, HandlerMoves, HandlerGoto, TypeOK, cmVars,
     chanVars, clientVars, appVars
<1>29. ASSUME NEW c \in Clients, Read(c)
      PROVE  TypeOK'
  BY <1>29 DEF Read, HandlerGoto, TypeOK, cmVars, chanVars, clientVars, appVars
<1>30. ASSUME NEW c \in Clients, ReadReturns(c)
      PROVE  TypeOK'
  BY <1>30 DEF ReadReturns, HandlerMoves, HandlerGoto, TypeOK, cmVars, chanVars,
     clientVars, appVars
<1>31. ASSUME NEW c \in Clients, ReadReset(c)
      PROVE  TypeOK'
  BY <1>31 DEF ReadReset, HandlerMoves, HandlerGoto, TypeOK, cmVars, chanVars,
     clientVars, appVars
<1>32. ASSUME NEW c \in Clients, CreateChannel(c)
      PROVE  TypeOK'
  BY <1>32 DEF CreateChannel, OwnerGoto, TypeOK, cmVars, chanVars, clientVars,
     appVars
<1>33. ASSUME NEW c \in Clients, HandlerStart(c)
      PROVE  TypeOK'
  BY <1>33 DEF HandlerStart, OwnerGoto, TypeOK, cmVars, chanVars, clientVars,
     appVars
<1>34. ASSUME NEW c \in Clients, OwnerWakes(c)
      PROVE  TypeOK'
  BY <1>34 DEF OwnerWakes, OwnerMoves, OwnerGoto, TypeOK, cmVars, chanVars,
     clientVars, appVars
<1>35. ASSUME NEW c \in Clients, HandlerStop(c)
      PROVE  TypeOK'
  BY <1>35 DEF HandlerStop, OwnerGoto, TypeOK, cmVars, chanVars, clientVars,
     appVars
<1>36. ASSUME NEW c \in Clients, HandlerClose(c)
      PROVE  TypeOK'
  BY <1>36 DEF HandlerClose, OwnerGoto, TypeOK, cmVars, chanVars, clientVars,
     appVars
<1>37. ASSUME NEW c \in Clients, HandlerJoin(c)
      PROVE  TypeOK'
  BY <1>37 DEF HandlerJoin, OwnerMoves, OwnerGoto, TypeOK, cmVars, chanVars,
     clientVars, appVars
<1>38. ASSUME NEW c \in Clients, DeleteChannel(c)
      PROVE  TypeOK'
  BY <1>38 DEF DeleteChannel, OwnerGoto, TypeOK, cmVars, chanVars, clientVars,
     appVars
<1>39. ASSUME NEW c \in Clients, OwnerDone(c)
      PROVE  TypeOK'
  BY <1>39 DEF OwnerDone, OwnerMoves, OwnerGoto, TypeOK, cmVars, chanVars,
     clientVars, appVars
<1>40. ASSUME NEW c \in Clients, ClientStop(c)
      PROVE  TypeOK'
  BY <1>40 DEF ClientStop, AppGoto, TypeOK, cmVars, chanVars, clientVars,
     appVars
<1>41. ASSUME NEW c \in Clients, ClientCloseChannel(c)
      PROVE  TypeOK'
  BY <1>41 DEF ClientCloseChannel, AppGoto, TypeOK, cmVars, chanVars,
     clientVars, appVars
<1>42. ASSUME NEW c \in Clients, ClientJoin(c)
      PROVE  TypeOK'
  BY <1>42 DEF ClientJoin, AppGoto, TypeOK, cmVars, chanVars, clientVars,
     appVars
<1>43. ASSUME NEW c \in Clients, ClientClose(c)
      PROVE  TypeOK'
  BY <1>43 DEF ClientClose, AppGoto, TypeOK, cmVars, chanVars, clientVars,
     appVars
<1>44. CASE Stopped \/ UNCHANGED vars
  BY <1>44 DEF Stopped, vars, TypeOK, cmVars, chanVars, clientVars, appVars
<1> QED
  BY <1>1, <1>2, <1>3, <1>4, <1>5, <1>6, <1>7, <1>8, <1>9, <1>10, <1>11, <1>12,
     <1>13, <1>14, <1>15, <1>16, <1>17, <1>18, <1>19, <1>20, <1>21, <1>22,
     <1>23, <1>24, <1>25, <1>26, <1>27, <1>28, <1>29, <1>30, <1>31, <1>32,
     <1>33, <1>34, <1>35, <1>36, <1>37, <1>38, <1>39, <1>40, <1>41, <1>42,
     <1>43, <1>44
  DEF Next, ChannelManagerThread, Transport, HandlerThread, OwnerThread,
      AppThread

(* Every variable keeps its type, for any number of clients.               *)
THEOREM TypeCorrect == Spec => []TypeOK
  BY TypeInit, TypeNext, PTL DEF Spec

-----------------------------------------------------------------------------
(* Only TryConnect opens the transport, and only Run leaves HandleRead: at *)
(* every control point of Run outside HandleRead the transport is closed.  *)
(* App::Stop goes on to the clients when the thread of ChannelManager is   *)
(* over.                                                                   *)
OutsideHandleRead ==
  cmPc \in {"check", "try", "wait", "closed", "closeChannels", "done"}
TransportInv ==
  /\ OutsideHandleRead => ~opened
  /\ app \in {"clients", "done"} => cmPc = "done"
  /\ \A c \in Clients : appStop[c] # "none" => app \in {"clients", "done"}

(* It holds before ChannelManager has tried to connect.                    *)
LEMMA TransportInit == Init => TransportInv
  BY DEF Init, TransportInv

(* Every action of every thread keeps the transport closed outside of      *)
(* HandleRead, and App::Stop in order.                                     *)
LEMMA TransportNext == TypeOK /\ TransportInv /\ [Next]_vars => TransportInv'
<1> SUFFICES ASSUME TypeOK, TransportInv, [Next]_vars PROVE TransportInv'
  OBVIOUS
<1> USE DEF OutsideHandleRead
<1>1. CASE CheckClose
  BY <1>1 DEF CheckClose, CMMoves, CMGoto, TypeOK, TransportInv, cmVars,
     chanVars, clientVars, appVars
<1>2. CASE TryConnect
  BY <1>2 DEF TryConnect, CMGoto, TypeOK, TransportInv, cmVars, chanVars,
     clientVars, appVars
<1>3. CASE TryConnectFails
  BY <1>3 DEF TryConnectFails, CMMoves, CMGoto, TypeOK, TransportInv, cmVars,
     chanVars, clientVars, appVars
<1>4. CASE WaitTimeout
  BY <1>4 DEF WaitTimeout, CMMoves, CMGoto, TypeOK, TransportInv, cmVars,
     chanVars, clientVars, appVars
<1>5. CASE WaitChannels
  BY <1>5 DEF WaitChannels, CMMoves, CMGoto, TypeOK, TransportInv, cmVars,
     chanVars, clientVars, appVars
<1>6. CASE ReadClosed
  BY <1>6 DEF ReadClosed, CMMoves, CMGoto, TypeOK, TransportInv, cmVars,
     chanVars, clientVars, appVars
<1>7. CASE ReadFails
  BY <1>7 DEF ReadFails, CMGoto, TypeOK, TransportInv, cmVars, chanVars,
     clientVars, appVars
<1>8. CASE WaitRead
  BY <1>8 DEF WaitRead, CMMoves, CMGoto, TypeOK, TransportInv, cmVars, chanVars,
     clientVars, appVars
<1>9. CASE WaitReadFails
  BY <1>9 DEF WaitReadFails, FrameDone, CMGoto, TypeOK, TransportInv, cmVars,
     chanVars, clientVars, appVars
<1>10. CASE ReadDone
  BY <1>10 DEF ReadDone, FrameDone, CMGoto, TypeOK, TransportInv, cmVars,
     chanVars, clientVars, appVars
<1>11. CASE CloseTransport
  BY <1>11 DEF CloseTransport, CMGoto, TypeOK, TransportInv, cmVars, chanVars,
     clientVars, appVars
<1>12. CASE CloseChannels
  BY <1>12 DEF CloseChannels, CMGoto, TypeOK, TransportInv, cmVars, chanVars,
     clientVars, appVars
<1>13. CASE ChannelsClosed
  BY <1>13 DEF ChannelsClosed, CMMoves, CMGoto, TypeOK, TransportInv, cmVars,
     chanVars, clientVars, appVars
<1>14. CASE AppStop
  BY <1>14 DEF AppStop, TypeOK, TransportInv, cmVars, chanVars, clientVars,
     appVars
<1>15. CASE ChannelManagerStop
  BY <1>15 DEF ChannelManagerStop, TypeOK, TransportInv, cmVars, chanVars,
     clientVars, appVars
<1>16. CASE ChannelManagerJoin
  BY <1>16 DEF ChannelManagerJoin, TypeOK, TransportInv, cmVars, chanVars,
     clientVars, appVars
<1>17. CASE AppDone
  BY <1>17 DEF AppDone, TypeOK, TransportInv, cmVars, chanVars, clientVars,
     appVars
<1>18. ASSUME NEW c \in Clients, ReadFrame(c)
      PROVE  TransportInv'
  BY <1>18 DEF ReadFrame, CMGoto, TypeOK, TransportInv, cmVars, chanVars,
     clientVars, appVars
<1>19. ASSUME NEW c \in Clients, CloseChannel(c)
      PROVE  TransportInv'
  BY <1>19 DEF CloseChannel, CMGoto, TypeOK, TransportInv, cmVars, chanVars,
     clientVars, appVars
<1>20. ASSUME NEW c \in Clients, CheckStarted(c)
      PROVE  TransportInv'
  BY <1>20 DEF CheckStarted, HandlerMoves, HandlerGoto, TypeOK, TransportInv,
     cmVars, chanVars, clientVars, appVars
<1>21. ASSUME NEW c \in Clients, Connect(c)
      PROVE  TransportInv'
  BY <1>21 DEF Connect, HandlerMoves, HandlerGoto, TypeOK, TransportInv, cmVars,
     chanVars, clientVars, appVars
<1>22. ASSUME NEW c \in Clients, ConnectSucceeds(c)
      PROVE  TransportInv'
  BY <1>22 DEF ConnectSucceeds, HandlerGoto, TypeOK, TransportInv, cmVars,
     chanVars, clientVars, appVars
<1>23. ASSUME NEW c \in Clients, ConnectFails(c)
      PROVE  TransportInv'
  BY <1>23 DEF ConnectFails, HandlerMoves, HandlerGoto, TypeOK, TransportInv,
     cmVars, chanVars, clientVars, appVars
<1>24. ASSUME NEW c \in Clients, WaitReconnect(c)
      PROVE  TransportInv'
  BY <1>24 DEF WaitReconnect, HandlerMoves, HandlerGoto, TypeOK, TransportInv,
     cmVars, chanVars, clientVars, appVars
<1>25. ASSUME NEW c \in Clients, CallbackDone(c)
      PROVE  TransportInv'
  BY <1>25 DEF CallbackDone, HandlerMoves, HandlerGoto, TypeOK, TransportInv,
     cmVars, chanVars, clientVars, appVars
<1>26. ASSUME NEW c \in Clients, SendMessage(c)
      PROVE  TransportInv'
  BY <1>26 DEF SendMessage, HandlerMoves, HandlerGoto, TypeOK, TransportInv,
     cmVars, chanVars, clientVars, appVars
<1>27. ASSUME NEW c \in Clients, Write(c)
      PROVE  TransportInv'
  BY <1>27 DEF Write, HandlerMoves, HandlerGoto, TypeOK, TransportInv, cmVars,
     chanVars, clientVars, appVars
<1>28. ASSUME NEW c \in Clients, WriteReturns(c)
      PROVE  TransportInv'
  BY <1>28 DEF WriteReturns, HandlerMoves, HandlerGoto, TypeOK, TransportInv,
     cmVars, chanVars, clientVars, appVars
<1>29. ASSUME NEW c \in Clients, Read(c)
      PROVE  TransportInv'
  BY <1>29 DEF Read, HandlerGoto, TypeOK, TransportInv, cmVars, chanVars,
     clientVars, appVars
<1>30. ASSUME NEW c \in Clients, ReadReturns(c)
      PROVE  TransportInv'
  BY <1>30 DEF ReadReturns, HandlerMoves, HandlerGoto, TypeOK, TransportInv,
     cmVars, chanVars, clientVars, appVars
<1>31. ASSUME NEW c \in Clients, ReadReset(c)
      PROVE  TransportInv'
  BY <1>31 DEF ReadReset, HandlerMoves, HandlerGoto, TypeOK, TransportInv,
     cmVars, chanVars, clientVars, appVars
<1>32. ASSUME NEW c \in Clients, CreateChannel(c)
      PROVE  TransportInv'
  BY <1>32 DEF CreateChannel, OwnerGoto, TypeOK, TransportInv, cmVars, chanVars,
     clientVars, appVars
<1>33. ASSUME NEW c \in Clients, HandlerStart(c)
      PROVE  TransportInv'
  BY <1>33 DEF HandlerStart, OwnerGoto, TypeOK, TransportInv, cmVars, chanVars,
     clientVars, appVars
<1>34. ASSUME NEW c \in Clients, OwnerWakes(c)
      PROVE  TransportInv'
  BY <1>34 DEF OwnerWakes, OwnerMoves, OwnerGoto, TypeOK, TransportInv, cmVars,
     chanVars, clientVars, appVars
<1>35. ASSUME NEW c \in Clients, HandlerStop(c)
      PROVE  TransportInv'
  BY <1>35 DEF HandlerStop, OwnerGoto, TypeOK, TransportInv, cmVars, chanVars,
     clientVars, appVars
<1>36. ASSUME NEW c \in Clients, HandlerClose(c)
      PROVE  TransportInv'
  BY <1>36 DEF HandlerClose, OwnerGoto, TypeOK, TransportInv, cmVars, chanVars,
     clientVars, appVars
<1>37. ASSUME NEW c \in Clients, HandlerJoin(c)
      PROVE  TransportInv'
  BY <1>37 DEF HandlerJoin, OwnerMoves, OwnerGoto, TypeOK, TransportInv, cmVars,
     chanVars, clientVars, appVars
<1>38. ASSUME NEW c \in Clients, DeleteChannel(c)
      PROVE  TransportInv'
  BY <1>38 DEF DeleteChannel, OwnerGoto, TypeOK, TransportInv, cmVars, chanVars,
     clientVars, appVars
<1>39. ASSUME NEW c \in Clients, OwnerDone(c)
      PROVE  TransportInv'
  BY <1>39 DEF OwnerDone, OwnerMoves, OwnerGoto, TypeOK, TransportInv, cmVars,
     chanVars, clientVars, appVars
<1>40. ASSUME NEW c \in Clients, ClientStop(c)
      PROVE  TransportInv'
  BY <1>40 DEF ClientStop, AppGoto, TypeOK, TransportInv, cmVars, chanVars,
     clientVars, appVars
<1>41. ASSUME NEW c \in Clients, ClientCloseChannel(c)
      PROVE  TransportInv'
  BY <1>41 DEF ClientCloseChannel, AppGoto, TypeOK, TransportInv, cmVars,
     chanVars, clientVars, appVars
<1>42. ASSUME NEW c \in Clients, ClientJoin(c)
      PROVE  TransportInv'
  BY <1>42 DEF ClientJoin, AppGoto, TypeOK, TransportInv, cmVars, chanVars,
     clientVars, appVars
<1>43. ASSUME NEW c \in Clients, ClientClose(c)
      PROVE  TransportInv'
  BY <1>43 DEF ClientClose, AppGoto, TypeOK, TransportInv, cmVars, chanVars,
     clientVars, appVars
<1>44. CASE Stopped \/ UNCHANGED vars
  BY <1>44 DEF Stopped, vars, TypeOK, TransportInv, cmVars, chanVars,
     clientVars, appVars
<1> QED
  BY <1>1, <1>2, <1>3, <1>4, <1>5, <1>6, <1>7, <1>8, <1>9, <1>10, <1>11, <1>12,
     <1>13, <1>14, <1>15, <1>16, <1>17, <1>18, <1>19, <1>20, <1>21, <1>22,
     <1>23, <1>24, <1>25, <1>26, <1>27, <1>28, <1>29, <1>30, <1>31, <1>32,
     <1>33, <1>34, <1>35, <1>36, <1>37, <1>38, <1>39, <1>40, <1>41, <1>42,
     <1>43, <1>44
  DEF Next, ChannelManagerThread, Transport, HandlerThread, OwnerThread,
      AppThread

(* Whenever ChannelManager::Stop has returned, the transport is closed and *)
(* stays so, though TryConnect may run between the Close of Stop and the   *)
(* next test of mClose.                                                    *)
THEOREM TransportStaysClosed == Spec => []ClosedAfterStop
<1>1. TypeOK /\ TransportInv => ClosedAfterStop
  BY DEF TransportInv, ClosedAfterStop, OutsideHandleRead
<1> QED
  BY <1>1, TypeInit, TypeNext, TransportInit, TransportNext, PTL DEF Spec

-----------------------------------------------------------------------------
(* One Stop at a time: either no client stops its handler from App::Stop,  *)
(* or no channel is replaced while the program runs.                       *)
OneStopAtATime == StopsHandler = {} \/ ~Releases

(* What the owner of a handler, and App::Stop while it stops the handler   *)
(* in the place of the owner, may rely on.                                 *)
OwnerInvOf(c) ==
  /\ appStop[c] \in {"closing", "join"}
       => c \in StopsHandler /\ owner[c] = "wait" /\ ~mStarted[c]
  /\ owner[c] \in {"setup", "start", "delete", "done"} => handler[c] = "exited"
  /\ owner[c] \notin {"setup", "done"} => c \in mChannels
  /\ owner[c] \notin {"wait", "stop"} => ~mStarted[c]
  /\ owner[c] \in {"wait", "stop"} /\ ~mStarted[c]
       => appStop[c] \in {"closing", "join"} \/ handler[c] = "exited"
  /\ owner[c] \in {"stop", "closing", "join", "delete"} /\ ~Releases
       => appStop[c] = "told"
OwnerInv == \A c \in Clients : OwnerInvOf(c)

(* It holds before any client has set up its channel.                      *)
LEMMA OwnerInit == Init => OwnerInv
  BY DEF Init, OwnerInv, OwnerInvOf

(* Every action of every thread keeps the channel in mChannels while the    *)
(* thread of the handler runs.                                             *)
LEMMA OwnerNext ==
  ASSUME OneStopAtATime
  PROVE  TypeOK /\ OwnerInv /\ [Next]_vars => OwnerInv'
<1> SUFFICES ASSUME TypeOK, OwnerInv, [Next]_vars PROVE OwnerInv'
  OBVIOUS
<1> USE OneStopAtATime, CommunicationAssumption DEF OneStopAtATime, OwnerInvOf, Closing
<1>1. CASE CheckClose
  BY <1>1 DEF CheckClose, CMMoves, CMGoto, TypeOK, OwnerInv, cmVars, chanVars,
     clientVars, appVars
<1>2. CASE TryConnect
  BY <1>2 DEF TryConnect, CMGoto, TypeOK, OwnerInv, cmVars, chanVars,
     clientVars, appVars
<1>3. CASE TryConnectFails
  BY <1>3 DEF TryConnectFails, CMMoves, CMGoto, TypeOK, OwnerInv, cmVars,
     chanVars, clientVars, appVars
<1>4. CASE WaitTimeout
  BY <1>4 DEF WaitTimeout, CMMoves, CMGoto, TypeOK, OwnerInv, cmVars, chanVars,
     clientVars, appVars
<1>5. CASE WaitChannels
  BY <1>5 DEF WaitChannels, CMMoves, CMGoto, TypeOK, OwnerInv, cmVars, chanVars,
     clientVars, appVars
<1>6. CASE ReadClosed
  BY <1>6 DEF ReadClosed, CMMoves, CMGoto, TypeOK, OwnerInv, cmVars, chanVars,
     clientVars, appVars
<1>7. CASE ReadFails
  BY <1>7 DEF ReadFails, CMGoto, TypeOK, OwnerInv, cmVars, chanVars, clientVars,
     appVars
<1>8. CASE WaitRead
  BY <1>8 DEF WaitRead, CMMoves, CMGoto, TypeOK, OwnerInv, cmVars, chanVars,
     clientVars, appVars
<1>9. CASE WaitReadFails
  BY <1>9 DEF WaitReadFails, FrameDone, CMGoto, TypeOK, OwnerInv, cmVars,
     chanVars, clientVars, appVars
<1>10. CASE ReadDone
  BY <1>10 DEF ReadDone, FrameDone, CMGoto, TypeOK, OwnerInv, cmVars, chanVars,
     clientVars, appVars
<1>11. CASE CloseTransport
  BY <1>11 DEF CloseTransport, CMGoto, TypeOK, OwnerInv, cmVars, chanVars,
     clientVars, appVars
<1>12. CASE CloseChannels
  BY <1>12 DEF CloseChannels, CMGoto, TypeOK, OwnerInv, cmVars, chanVars,
     clientVars, appVars
<1>13. CASE ChannelsClosed
  BY <1>13 DEF ChannelsClosed, CMMoves, CMGoto, TypeOK, OwnerInv, cmVars,
     chanVars, clientVars, appVars
<1>14. CASE AppStop
  BY <1>14 DEF AppStop, TypeOK, OwnerInv, cmVars, chanVars, clientVars, appVars
<1>15. CASE ChannelManagerStop
  BY <1>15 DEF ChannelManagerStop, TypeOK, OwnerInv, cmVars, chanVars,
     clientVars, appVars
<1>16. CASE ChannelManagerJoin
  BY <1>16 DEF ChannelManagerJoin, TypeOK, OwnerInv, cmVars, chanVars,
     clientVars, appVars
<1>17. CASE AppDone
  BY <1>17 DEF AppDone, TypeOK, OwnerInv, cmVars, chanVars, clientVars, appVars
<1>18. ASSUME NEW c \in Clients, ReadFrame(c)
      PROVE  OwnerInv'
  BY <1>18 DEF ReadFrame, CMGoto, TypeOK, OwnerInv, cmVars, chanVars,
     clientVars, appVars
<1>19. ASSUME NEW c \in Clients, CloseChannel(c)
      PROVE  OwnerInv'
  BY <1>19 DEF CloseChannel, CMGoto, TypeOK, OwnerInv, cmVars, chanVars,
     clientVars, appVars
<1>20. ASSUME NEW c \in Clients, CheckStarted(c)
      PROVE  OwnerInv'
  BY <1>20 DEF CheckStarted, HandlerMoves, HandlerGoto, TypeOK, OwnerInv,
     cmVars, chanVars, clientVars, appVars
<1>21. ASSUME NEW c \in Clients, Connect(c)
      PROVE  OwnerInv'
  BY <1>21 DEF Connect, HandlerMoves, HandlerGoto, TypeOK, OwnerInv, cmVars,
     chanVars, clientVars, appVars
<1>22. ASSUME NEW c \in Clients, ConnectSucceeds(c)
      PROVE  OwnerInv'
  BY <1>22 DEF ConnectSucceeds, HandlerGoto, TypeOK, OwnerInv, cmVars, chanVars,
     clientVars, appVars
<1>23. ASSUME NEW c \in Clients, ConnectFails(c)
      PROVE  OwnerInv'
  BY <1>23 DEF ConnectFails, HandlerMoves, HandlerGoto, TypeOK, OwnerInv,
     cmVars, chanVars, clientVars, appVars
<1>24. ASSUME NEW c \in Clients, WaitReconnect(c)
      PROVE  OwnerInv'
  BY <1>24 DEF WaitReconnect, HandlerMoves, HandlerGoto, TypeOK, OwnerInv,
     cmVars, chanVars, clientVars, appVars
<1>25. ASSUME NEW c \in Clients, CallbackDone(c)
      PROVE  OwnerInv'
  BY <1>25 DEF CallbackDone, HandlerMoves, HandlerGoto, TypeOK, OwnerInv,
     cmVars, chanVars, clientVars, appVars
<1>26. ASSUME NEW c \in Clients, SendMessage(c)
      PROVE  OwnerInv'
  BY <1>26 DEF SendMessage, HandlerMoves, HandlerGoto, TypeOK, OwnerInv, cmVars,
     chanVars, clientVars, appVars
<1>27. ASSUME NEW c \in Clients, Write(c)
      PROVE  OwnerInv'
  BY <1>27 DEF Write, HandlerMoves, HandlerGoto, TypeOK, OwnerInv, cmVars,
     chanVars, clientVars, appVars
<1>28. ASSUME NEW c \in Clients, WriteReturns(c)
      PROVE  OwnerInv'
  BY <1>28 DEF WriteReturns, HandlerMoves, HandlerGoto, TypeOK, OwnerInv,
     cmVars, chanVars, clientVars, appVars
<1>29. ASSUME NEW c \in Clients, Read(c)
      PROVE  OwnerInv'
  BY <1>29 DEF Read, HandlerGoto, TypeOK, OwnerInv, cmVars, chanVars,
     clientVars, appVars
<1>30. ASSUME NEW c \in Clients, ReadReturns(c)
      PROVE  OwnerInv'
  BY <1>30 DEF ReadReturns, HandlerMoves, HandlerGoto, TypeOK, OwnerInv, cmVars,
     chanVars, clientVars, appVars
<1>31. ASSUME NEW c \in Clients, ReadReset(c)
      PROVE  OwnerInv'
  BY <1>31 DEF ReadReset, HandlerMoves, HandlerGoto, TypeOK, OwnerInv, cmVars,
     chanVars, clientVars, appVars
<1>32. ASSUME NEW c \in Clients, CreateChannel(c)
      PROVE  OwnerInv'
  BY <1>32 DEF CreateChannel, OwnerGoto, TypeOK, OwnerInv, cmVars, chanVars,
     clientVars, appVars
<1>33. ASSUME NEW c \in Clients, HandlerStart(c)
      PROVE  OwnerInv'
  BY <1>33 DEF HandlerStart, OwnerGoto, TypeOK, OwnerInv, cmVars, chanVars,
     clientVars, appVars
<1>34. ASSUME NEW c \in Clients, OwnerWakes(c)
      PROVE  OwnerInv'
  BY <1>34 DEF OwnerWakes, OwnerMoves, OwnerGoto, TypeOK, OwnerInv, cmVars,
     chanVars, clientVars, appVars
<1>35. ASSUME NEW c \in Clients, HandlerStop(c)
      PROVE  OwnerInv'
  BY <1>35 DEF HandlerStop, OwnerGoto, TypeOK, OwnerInv, cmVars, chanVars,
     clientVars, appVars
<1>36. ASSUME NEW c \in Clients, HandlerClose(c)
      PROVE  OwnerInv'
  BY <1>36 DEF HandlerClose, OwnerGoto, TypeOK, OwnerInv, cmVars, chanVars,
     clientVars, appVars
<1>37. ASSUME NEW c \in Clients, HandlerJoin(c)
      PROVE  OwnerInv'
  BY <1>37 DEF HandlerJoin, OwnerMoves, OwnerGoto, TypeOK, OwnerInv, cmVars,
     chanVars, clientVars, appVars
<1>38. ASSUME NEW c \in Clients, DeleteChannel(c)
      PROVE  OwnerInv'
  BY <1>38 DEF DeleteChannel, OwnerGoto, TypeOK, OwnerInv, cmVars, chanVars,
     clientVars, appVars
<1>39. ASSUME NEW c \in Clients, OwnerDone(c)
      PROVE  OwnerInv'
  BY <1>39 DEF OwnerDone, OwnerMoves, OwnerGoto, TypeOK, OwnerInv, cmVars,
     chanVars, clientVars, appVars
<1>40. ASSUME NEW c \in Clients, ClientStop(c)
      PROVE  OwnerInv'
  BY <1>40 DEF ClientStop, AppGoto, TypeOK, OwnerInv, cmVars, chanVars,
     clientVars, appVars
<1>41. ASSUME NEW c \in Clients, ClientCloseChannel(c)
      PROVE  OwnerInv'
  BY <1>41 DEF ClientCloseChannel, AppGoto, TypeOK, OwnerInv, cmVars, chanVars,
     clientVars, appVars
<1>42. ASSUME NEW c \in Clients, ClientJoin(c)
      PROVE  OwnerInv'
  BY <1>42 DEF ClientJoin, AppGoto, TypeOK, OwnerInv, cmVars, chanVars,
     clientVars, appVars
<1>43. ASSUME NEW c \in Clients, ClientClose(c)
      PROVE  OwnerInv'
  BY <1>43 DEF ClientClose, AppGoto, TypeOK, OwnerInv, cmVars, chanVars,
     clientVars, appVars
<1>44. CASE Stopped \/ UNCHANGED vars
  BY <1>44 DEF Stopped, vars, TypeOK, OwnerInv, cmVars, chanVars, clientVars,
     appVars
<1> QED
  BY <1>1, <1>2, <1>3, <1>4, <1>5, <1>6, <1>7, <1>8, <1>9, <1>10, <1>11, <1>12,
     <1>13, <1>14, <1>15, <1>16, <1>17, <1>18, <1>19, <1>20, <1>21, <1>22,
     <1>23, <1>24, <1>25, <1>26, <1>27, <1>28, <1>29, <1>30, <1>31, <1>32,
     <1>33, <1>34, <1>35, <1>36, <1>37, <1>38, <1>39, <1>40, <1>41, <1>42,
     <1>43, <1>44
  DEF Next, ChannelManagerThread, Transport, HandlerThread, OwnerThread,
      AppThread

(* No thread of a handler uses a deleted channel, also when channels are   *)
(* replaced at any time and the transport fails at any time, as long as    *)
(* only one thread at a time stops the handler.                            *)
THEOREM ChannelLivesLongEnough ==
  ASSUME OneStopAtATime
  PROVE  Spec => []ChannelOutlivesHandler
<1>1. TypeOK /\ OwnerInv => ChannelOutlivesHandler
  BY DEF OwnerInv, OwnerInvOf, ChannelOutlivesHandler
<1>2. TypeOK /\ OwnerInv /\ [Next]_vars => OwnerInv'
  BY OwnerNext
<1> QED
  BY <1>1, <1>2, TypeInit, TypeNext, OwnerInit, PTL DEF Spec

-----------------------------------------------------------------------------
(* Closing the channels goes through all of them: a handler that is        *)
(* connected and finds its channel open is one CloseChannels will visit,   *)
(* or the walk has not begun.                                              *)
CloseInv ==
  \A c \in Clients :
    Connected(c) /\ ~closed[c] =>
      /\ ~BetweenConnections
      /\ cmPc = "closeChannels" => c \in toClose

(* It holds before any handler is started.                                 *)
LEMMA CloseInit == Init => CloseInv
  BY DEF Init, CloseInv, Connected

(* Every action of every thread keeps each connected handler either open,   *)
(* or told, or still on the list of CloseChannels.                         *)
LEMMA CloseNext ==
  ASSUME ~Releases
  PROVE  TypeOK /\ TransportInv /\ OwnerInv /\ CloseInv /\ [Next]_vars => CloseInv'
<1> SUFFICES ASSUME ~Releases, TypeOK, TransportInv, OwnerInv, CloseInv, [Next]_vars
             PROVE  CloseInv'
  OBVIOUS
<1> USE DEF OutsideHandleRead, OwnerInv, OwnerInvOf, Connected, BetweenConnections, Closing
<1>1. CASE CheckClose
  BY <1>1 DEF CheckClose, CMMoves, CMGoto, TypeOK, TransportInv, CloseInv,
     cmVars, chanVars, clientVars, appVars
<1>2. CASE TryConnect
  BY <1>2 DEF TryConnect, CMGoto, TypeOK, TransportInv, CloseInv, cmVars,
     chanVars, clientVars, appVars
<1>3. CASE TryConnectFails
  BY <1>3 DEF TryConnectFails, CMMoves, CMGoto, TypeOK, TransportInv, CloseInv,
     cmVars, chanVars, clientVars, appVars
<1>4. CASE WaitTimeout
  BY <1>4 DEF WaitTimeout, CMMoves, CMGoto, TypeOK, TransportInv, CloseInv,
     cmVars, chanVars, clientVars, appVars
<1>5. CASE WaitChannels
  BY <1>5 DEF WaitChannels, CMMoves, CMGoto, TypeOK, TransportInv, CloseInv,
     cmVars, chanVars, clientVars, appVars
<1>6. CASE ReadClosed
  BY <1>6 DEF ReadClosed, CMMoves, CMGoto, TypeOK, TransportInv, CloseInv,
     cmVars, chanVars, clientVars, appVars
<1>7. CASE ReadFails
  BY <1>7 DEF ReadFails, CMGoto, TypeOK, TransportInv, CloseInv, cmVars,
     chanVars, clientVars, appVars
<1>8. CASE WaitRead
  BY <1>8 DEF WaitRead, CMMoves, CMGoto, TypeOK, TransportInv, CloseInv, cmVars,
     chanVars, clientVars, appVars
<1>9. CASE WaitReadFails
  BY <1>9 DEF WaitReadFails, FrameDone, CMGoto, TypeOK, TransportInv, CloseInv,
     cmVars, chanVars, clientVars, appVars
<1>10. CASE ReadDone
  BY <1>10 DEF ReadDone, FrameDone, CMGoto, TypeOK, TransportInv, CloseInv,
     cmVars, chanVars, clientVars, appVars
<1>11. CASE CloseTransport
  BY <1>11 DEF CloseTransport, CMGoto, TypeOK, TransportInv, CloseInv, cmVars,
     chanVars, clientVars, appVars
<1>12. CASE CloseChannels
  BY <1>12 DEF CloseChannels, CMGoto, TypeOK, TransportInv, CloseInv, cmVars,
     chanVars, clientVars, appVars
<1>13. CASE ChannelsClosed
  BY <1>13 DEF ChannelsClosed, CMMoves, CMGoto, TypeOK, TransportInv, CloseInv,
     cmVars, chanVars, clientVars, appVars
<1>14. CASE AppStop
  BY <1>14 DEF AppStop, TypeOK, TransportInv, CloseInv, cmVars, chanVars,
     clientVars, appVars
<1>15. CASE ChannelManagerStop
  BY <1>15 DEF ChannelManagerStop, TypeOK, TransportInv, CloseInv, cmVars,
     chanVars, clientVars, appVars
<1>16. CASE ChannelManagerJoin
  BY <1>16 DEF ChannelManagerJoin, TypeOK, TransportInv, CloseInv, cmVars,
     chanVars, clientVars, appVars
<1>17. CASE AppDone
  BY <1>17 DEF AppDone, TypeOK, TransportInv, CloseInv, cmVars, chanVars,
     clientVars, appVars
<1>18. ASSUME NEW c \in Clients, ReadFrame(c)
      PROVE  CloseInv'
  BY <1>18 DEF ReadFrame, CMGoto, TypeOK, TransportInv, CloseInv, cmVars,
     chanVars, clientVars, appVars
<1>19. ASSUME NEW c \in Clients, CloseChannel(c)
      PROVE  CloseInv'
  BY <1>19 DEF CloseChannel, CMGoto, TypeOK, TransportInv, CloseInv, cmVars,
     chanVars, clientVars, appVars
<1>20. ASSUME NEW c \in Clients, CheckStarted(c)
      PROVE  CloseInv'
  BY <1>20 DEF CheckStarted, HandlerMoves, HandlerGoto, TypeOK, TransportInv,
     CloseInv, cmVars, chanVars, clientVars, appVars
<1>21. ASSUME NEW c \in Clients, Connect(c)
      PROVE  CloseInv'
  BY <1>21 DEF Connect, HandlerMoves, HandlerGoto, TypeOK, TransportInv,
     CloseInv, cmVars, chanVars, clientVars, appVars
<1>22. ASSUME NEW c \in Clients, ConnectSucceeds(c)
      PROVE  CloseInv'
  BY <1>22 DEF ConnectSucceeds, HandlerGoto, TypeOK, TransportInv, CloseInv,
     cmVars, chanVars, clientVars, appVars
<1>23. ASSUME NEW c \in Clients, ConnectFails(c)
      PROVE  CloseInv'
  BY <1>23 DEF ConnectFails, HandlerMoves, HandlerGoto, TypeOK, TransportInv,
     CloseInv, cmVars, chanVars, clientVars, appVars
<1>24. ASSUME NEW c \in Clients, WaitReconnect(c)
      PROVE  CloseInv'
  BY <1>24 DEF WaitReconnect, HandlerMoves, HandlerGoto, TypeOK, TransportInv,
     CloseInv, cmVars, chanVars, clientVars, appVars
<1>25. ASSUME NEW c \in Clients, CallbackDone(c)
      PROVE  CloseInv'
  BY <1>25 DEF CallbackDone, HandlerMoves, HandlerGoto, TypeOK, TransportInv,
     CloseInv, cmVars, chanVars, clientVars, appVars
<1>26. ASSUME NEW c \in Clients, SendMessage(c)
      PROVE  CloseInv'
  BY <1>26 DEF SendMessage, HandlerMoves, HandlerGoto, TypeOK, TransportInv,
     CloseInv, cmVars, chanVars, clientVars, appVars
<1>27. ASSUME NEW c \in Clients, Write(c)
      PROVE  CloseInv'
  BY <1>27 DEF Write, HandlerMoves, HandlerGoto, TypeOK, TransportInv, CloseInv,
     cmVars, chanVars, clientVars, appVars
<1>28. ASSUME NEW c \in Clients, WriteReturns(c)
      PROVE  CloseInv'
  BY <1>28 DEF WriteReturns, HandlerMoves, HandlerGoto, TypeOK, TransportInv,
     CloseInv, cmVars, chanVars, clientVars, appVars
<1>29. ASSUME NEW c \in Clients, Read(c)
      PROVE  CloseInv'
  BY <1>29 DEF Read, HandlerGoto, TypeOK, TransportInv, CloseInv, cmVars,
     chanVars, clientVars, appVars
<1>30. ASSUME NEW c \in Clients, ReadReturns(c)
      PROVE  CloseInv'
  BY <1>30 DEF ReadReturns, HandlerMoves, HandlerGoto, TypeOK, TransportInv,
     CloseInv, cmVars, chanVars, clientVars, appVars
<1>31. ASSUME NEW c \in Clients, ReadReset(c)
      PROVE  CloseInv'
  BY <1>31 DEF ReadReset, HandlerMoves, HandlerGoto, TypeOK, TransportInv,
     CloseInv, cmVars, chanVars, clientVars, appVars
<1>32. ASSUME NEW c \in Clients, CreateChannel(c)
      PROVE  CloseInv'
  BY <1>32 DEF CreateChannel, OwnerGoto, TypeOK, TransportInv, CloseInv, cmVars,
     chanVars, clientVars, appVars
<1>33. ASSUME NEW c \in Clients, HandlerStart(c)
      PROVE  CloseInv'
  BY <1>33 DEF HandlerStart, OwnerGoto, TypeOK, TransportInv, CloseInv, cmVars,
     chanVars, clientVars, appVars
<1>34. ASSUME NEW c \in Clients, OwnerWakes(c)
      PROVE  CloseInv'
  BY <1>34 DEF OwnerWakes, OwnerMoves, OwnerGoto, TypeOK, TransportInv,
     CloseInv, cmVars, chanVars, clientVars, appVars
<1>35. ASSUME NEW c \in Clients, HandlerStop(c)
      PROVE  CloseInv'
  BY <1>35 DEF HandlerStop, OwnerGoto, TypeOK, TransportInv, CloseInv, cmVars,
     chanVars, clientVars, appVars
<1>36. ASSUME NEW c \in Clients, HandlerClose(c)
      PROVE  CloseInv'
  BY <1>36 DEF HandlerClose, OwnerGoto, TypeOK, TransportInv, CloseInv, cmVars,
     chanVars, clientVars, appVars
<1>37. ASSUME NEW c \in Clients, HandlerJoin(c)
      PROVE  CloseInv'
  BY <1>37 DEF HandlerJoin, OwnerMoves, OwnerGoto, TypeOK, TransportInv,
     CloseInv, cmVars, chanVars, clientVars, appVars
<1>38. ASSUME NEW c \in Clients, DeleteChannel(c)
      PROVE  CloseInv'
  BY <1>38 DEF DeleteChannel, OwnerGoto, TypeOK, TransportInv, CloseInv, cmVars,
     chanVars, clientVars, appVars
<1>39. ASSUME NEW c \in Clients, OwnerDone(c)
      PROVE  CloseInv'
  BY <1>39 DEF OwnerDone, OwnerMoves, OwnerGoto, TypeOK, TransportInv, CloseInv,
     cmVars, chanVars, clientVars, appVars
<1>40. ASSUME NEW c \in Clients, ClientStop(c)
      PROVE  CloseInv'
  BY <1>40 DEF ClientStop, AppGoto, TypeOK, TransportInv, CloseInv, cmVars,
     chanVars, clientVars, appVars
<1>41. ASSUME NEW c \in Clients, ClientCloseChannel(c)
      PROVE  CloseInv'
  BY <1>41 DEF ClientCloseChannel, AppGoto, TypeOK, TransportInv, CloseInv,
     cmVars, chanVars, clientVars, appVars
<1>42. ASSUME NEW c \in Clients, ClientJoin(c)
      PROVE  CloseInv'
  BY <1>42 DEF ClientJoin, AppGoto, TypeOK, TransportInv, CloseInv, cmVars,
     chanVars, clientVars, appVars
<1>43. ASSUME NEW c \in Clients, ClientClose(c)
      PROVE  CloseInv'
  BY <1>43 DEF ClientClose, AppGoto, TypeOK, TransportInv, CloseInv, cmVars,
     chanVars, clientVars, appVars
<1>44. CASE Stopped \/ UNCHANGED vars
  BY <1>44 DEF Stopped, vars, TypeOK, TransportInv, CloseInv, cmVars, chanVars,
     clientVars, appVars
<1> QED
  BY <1>1, <1>2, <1>3, <1>4, <1>5, <1>6, <1>7, <1>8, <1>9, <1>10, <1>11, <1>12,
     <1>13, <1>14, <1>15, <1>16, <1>17, <1>18, <1>19, <1>20, <1>21, <1>22,
     <1>23, <1>24, <1>25, <1>26, <1>27, <1>28, <1>29, <1>30, <1>31, <1>32,
     <1>33, <1>34, <1>35, <1>36, <1>37, <1>38, <1>39, <1>40, <1>41, <1>42,
     <1>43, <1>44
  DEF Next, ChannelManagerThread, Transport, HandlerThread, OwnerThread,
      AppThread

(* A handler never sleeps through a reconnect of ChannelManager, as long   *)
(* as no channel is deleted while CloseChannels walks over them.           *)
THEOREM HandlersSeeReconnect ==
  ASSUME ~Releases
  PROVE  Spec => []NoSleepThroughReconnect
<1>1. TransportInv /\ CloseInv => NoSleepThroughReconnect
  BY DEF TransportInv, CloseInv, NoSleepThroughReconnect, OutsideHandleRead,
         BetweenConnections
<1>2. OneStopAtATime
  BY DEF OneStopAtATime
<1>3. TypeOK /\ OwnerInv /\ [Next]_vars => OwnerInv'
  BY <1>2, OwnerNext
<1>4. TypeOK /\ TransportInv /\ OwnerInv /\ CloseInv /\ [Next]_vars => CloseInv'
  BY CloseNext
<1> QED
  BY <1>1, <1>3, <1>4, TypeInit, TypeNext, TransportInit, TransportNext, OwnerInit,
     CloseInit, PTL DEF Spec
=============================================================================
