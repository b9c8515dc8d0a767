--------------------------- MODULE Communication ---------------------------
(***************************************************************************)
(* The threads of the communication stack and the locks they meet at:      *)
(* the thread of ChannelManager, the thread of the protobuf handler of     *)
(* each client (PBHandler::Run over its Channel), the thread of the client *)
(* that owns the handler (IAMClient::HandleChannels and                    *)
(* SMClient::HandleChannel), and App::Stop.  The bytes that travel are the *)
(* subject of module Channel.                                              *)
(*                                                                         *)
(* A step is a critical section, or the part of one up to the next lock.   *)
(* A lock that is held across steps is held exactly at some control        *)
(* points, so it needs no variable:                                        *)
(*   ChannelManager::mMutex  by ProcessData           (CMLockFree),        *)
(*   Channel::mMutex         by Connect and by Write  (ChannelLockFree),   *)
(*   PBHandler::mMutex       by Stop                  (HandlerLockFree),   *)
(*   sWriteMutex             by ChannelManager::Write (WriteLockFree),     *)
(*   the mMutex of a client  by SetupChannel and by the callbacks of the   *)
(*                           handler                  (ClientLockFree).    *)
(* A wait on a condition variable is a step with the predicate of the wait *)
(* in its guard: every assignment that can make a predicate true is        *)
(* followed by a notification.                                             *)
(***************************************************************************)
EXTENDS Integers

CONSTANTS
  Clients,      \* the clients: each has one handler and one channel
  StopsHandler, \* those whose Stop stops the handler itself (IAMClient::Stop)
  Unsolicited,  \* TRUE: the peer may send to a handler that is not connected
  AnyTime,      \* TRUE: the transport may fail while a handler is connecting
  Releases,     \* TRUE: certificates or states change: channels are replaced
  NoPort,       \* no frame at hand
  MaxFailures   \* bound on the number of transport failures

ASSUME CommunicationAssumption ==
  /\ StopsHandler \subseteq Clients
  /\ Unsolicited \in BOOLEAN
  /\ AnyTime \in BOOLEAN
  /\ Releases \in BOOLEAN
  /\ NoPort \notin Clients
  /\ MaxFailures \in Nat

VARIABLES
  opened,     \* mTransport->IsOpened()
  mClose,     \* ChannelManager::mClose
  mChannels,  \* ChannelManager::mChannels: the clients whose channel exists
  cmPc,       \* the thread of ChannelManager
  port,       \* header.mPort: the client the frame at hand is for
  more,       \* TRUE: that frame fills more than one Read (header and payload)
  toClose,    \* the channels CloseChannels still has to visit
  failures,   \* transport failures so far
  mReadReady, \* Channel::mReadReady, per client
  closed,     \* Channel::mClose, per client
  mStarted,   \* PBHandler::mStarted, per client
  handler,    \* the thread of PBHandler::Run, per client
  owner,      \* the thread of HandleChannels, per client
  app,        \* App::Stop
  appStop     \* how far App::Stop is with each client

cmVars     == <<opened, mClose, cmPc, port, more, toClose, failures>>
chanVars   == <<mReadReady, closed>>
clientVars == <<mStarted, handler, owner>>
appVars    == <<app, appStop>>
vars       == <<cmVars, mChannels, chanVars, clientVars, appVars>>

CMLockFree         == cmPc \notin {"waitRead", "readDone"}
ChannelLockFree(c) == handler[c] \notin {"connecting", "sendWait", "sending"}
HandlerLockFree(c) == owner[c] # "closing" /\ appStop[c] # "closing"
WriteLockFree      == \A c \in Clients : handler[c] # "sending"
ClientLockFree(c)  ==
  owner[c] # "start" /\ handler[c] \notin {"callback", "sendWait", "sending"}

Connected(c) == handler[c] \in {"callback", "sendWait", "sending", "ready", "asleep"}

Init ==
  /\ opened = FALSE /\ mClose = FALSE /\ mChannels = {}
  /\ cmPc = "check" /\ port = NoPort /\ more = FALSE /\ toClose = {} /\ failures = 0
  /\ mReadReady = [c \in Clients |-> FALSE]
  /\ closed = [c \in Clients |-> FALSE]
  /\ mStarted = [c \in Clients |-> FALSE]
  /\ handler = [c \in Clients |-> "exited"]
  /\ owner = [c \in Clients |-> "setup"]
  /\ app = "run" /\ appStop = [c \in Clients |-> "none"]

-----------------------------------------------------------------------------
(* The thread of ChannelManager: Run, TryConnect, HandleRead, ProcessData, *)
(* CloseChannels.                                                          *)

CMGoto(from, to) == cmPc = from /\ cmPc' = to

CMMoves(from, to) ==
  /\ CMGoto(from, to)
  /\ UNCHANGED <<opened, mClose, port, more, toClose, failures, mChannels, chanVars,
                 clientVars, appVars>>

CheckClose == CMMoves("check", IF mClose THEN "done" ELSE "try")

TryConnect ==
  /\ CMGoto("try", "handle")
  /\ opened' = TRUE
  /\ UNCHANGED <<mClose, port, more, toClose, failures, mChannels, chanVars,
                 clientVars, appVars>>

TryConnectFails ==
  /\ ~opened
  /\ CMMoves("try", "wait")

WaitTimeout == CMMoves("wait", "check")

(* The definitions named Bug_... are not part of the specification: each   *)
(* is a plausible slip in the action that follows it, which a property     *)
(* must catch.                                                             *)
Bug_WaitChannelsKeepsTransport ==
  /\ mChannels # {} \/ mClose
  /\ CMMoves("handle", IF mClose THEN "wait" ELSE "read")

(* HandleRead waits for a channel before it reads the transport.           *)
WaitChannels ==
  /\ mChannels # {} \/ mClose
  /\ CMMoves("handle", IF mClose THEN "close" ELSE "read")

(* A whole frame for client c was read.  ProcessData takes the lock of     *)
(* ChannelManager; a frame for a port without channel is dropped.          *)
ReadFrame(c) ==
  /\ opened
  /\ Unsolicited \/ (Connected(c) /\ ~closed[c])
  /\ IF c \in mChannels
       THEN CMGoto("read", "waitRead") /\ port' = c /\ more' \in BOOLEAN
       ELSE CMGoto("read", "handle") /\ UNCHANGED <<port, more>>
  /\ UNCHANGED <<opened, mClose, toClose, failures, mChannels, chanVars,
                 clientVars, appVars>>

(* ReadTransport returns an error because Stop has closed the transport.   *)
ReadClosed ==
  /\ ~opened
  /\ CMMoves("read", "close")

(* ReadTransport returns an error because the connection broke, or the     *)
(* frame is larger than the read buffer.                                   *)
ReadFails ==
  /\ opened /\ failures < MaxFailures
  /\ AnyTime \/ \A c \in Clients : Connected(c)
  /\ CMGoto("read", "close")
  /\ failures' = failures + 1
  /\ UNCHANGED <<opened, mClose, port, more, toClose, mChannels, chanVars,
                 clientVars, appVars>>

FrameDone(from) == CMGoto(from, "handle") /\ port' = NoPort /\ more' = FALSE

(* WaitRead returns the buffer of the reader; the piece is copied.         *)
WaitRead ==
  /\ CMMoves("waitRead", "readDone")
  /\ ChannelLockFree(port)
  /\ mReadReady[port] /\ ~closed[port]

(* WaitRead fails: the channel is closed, or its timed wait is over.       *)
WaitReadFails ==
  /\ FrameDone("waitRead")
  /\ ChannelLockFree(port)
  /\ closed[port] \/ ~mReadReady[port]
  /\ UNCHANGED <<opened, mClose, toClose, failures, mChannels, chanVars,
                 clientVars, appVars>>

(* ReadDone, and the next piece of the frame or the end of ProcessData.    *)
ReadDone ==
  /\ cmPc = "readDone" /\ ChannelLockFree(port)
  /\ IF more THEN CMGoto("readDone", "waitRead") /\ more' = FALSE /\ UNCHANGED port
             ELSE FrameDone("readDone")
  /\ mReadReady' = [mReadReady EXCEPT ![port] = FALSE]
  /\ UNCHANGED <<opened, mClose, toClose, failures, mChannels, closed,
                 clientVars, appVars>>

CloseTransport ==
  /\ CMGoto("close", "closed")
  /\ opened' = FALSE
  /\ UNCHANGED <<mClose, port, more, toClose, failures, mChannels, chanVars,
                 clientVars, appVars>>

(* CloseChannels walks over mChannels without the lock of ChannelManager   *)
(* and closes the channels one by one.                                     *)
CloseChannels ==
  /\ CMGoto("closed", "closeChannels")
  /\ toClose' = mChannels
  /\ UNCHANGED <<opened, mClose, port, more, failures, mChannels, chanVars,
                 clientVars, appVars>>

CloseChannel(c) ==
  /\ c \in toClose /\ ChannelLockFree(c)
  /\ CMGoto("closeChannels", "closeChannels")
  /\ closed' = [closed EXCEPT ![c] = TRUE]
  /\ toClose' = toClose \ {c}
  /\ UNCHANGED <<opened, mClose, port, more, failures, mChannels, mReadReady,
                 clientVars, appVars>>

Bug_ChannelsClosedEarly == CMMoves("closeChannels", "wait")

ChannelsClosed ==
  /\ toClose = {}
  /\ CMMoves("closeChannels", "wait")

ChannelManagerThread ==
  \/ CheckClose \/ TryConnect \/ TryConnectFails \/ WaitTimeout \/ WaitChannels
  \/ ReadClosed \/ WaitRead \/ WaitReadFails \/ ReadDone
  \/ CloseTransport \/ CloseChannels \/ (\E c \in Clients : CloseChannel(c))
  \/ ChannelsClosed

(* What the peer and the link do.                                          *)
Transport == (\E c \in Clients : ReadFrame(c)) \/ ReadFails

-----------------------------------------------------------------------------
(* The thread of the handler of client c: PBHandler::Run.                  *)

HandlerGoto(c, from, to) ==
  handler[c] = from /\ handler' = [handler EXCEPT ![c] = to]

HandlerMoves(c, from, to) ==
  /\ HandlerGoto(c, from, to)
  /\ UNCHANGED <<cmVars, mChannels, chanVars, mStarted, owner, appVars>>

CheckStarted(c) ==
  /\ HandlerLockFree(c)
  /\ HandlerMoves(c, "check", IF mStarted[c] THEN "lock" ELSE "exited")

(* Channel::Connect takes the lock of the channel and keeps it while       *)
(* ChannelManager::Connect waits for the transport.                        *)
Connect(c) ==
  /\ ChannelLockFree(c)
  /\ HandlerMoves(c, "lock", "connecting")

Bug_ConnectStaysClosed(c) ==
  /\ CMLockFree /\ opened /\ ~mClose
  /\ HandlerMoves(c, "connecting", "callback")

ConnectSucceeds(c) ==
  /\ CMLockFree /\ opened /\ ~mClose
  /\ HandlerGoto(c, "connecting", "callback")
  /\ closed' = [closed EXCEPT ![c] = FALSE]
  /\ UNCHANGED <<cmVars, mChannels, mReadReady, mStarted, owner, appVars>>

Bug_ConnectIgnoresClose(c) == FALSE /\ HandlerGoto(c, "connecting", "retry")

ConnectFails(c) ==
  /\ CMLockFree /\ mClose
  /\ HandlerMoves(c, "connecting", "retry")

WaitReconnect(c) ==
  /\ HandlerLockFree(c)
  /\ HandlerMoves(c, "retry", "check")

(* OnConnect or ReceiveMessage is over, without or after having sent a     *)
(* message.  Channel::Write keeps the lock of the channel until the        *)
(* transport has taken the message, or failed.                             *)
CallbackDone(c) == HandlerMoves(c, "callback", "ready")

SendMessage(c) ==
  /\ ChannelLockFree(c)
  /\ HandlerMoves(c, "callback", "sendWait")

Write(c) ==
  /\ WriteLockFree
  /\ HandlerMoves(c, "sendWait", "sending")

WriteReturns(c) == HandlerMoves(c, "sending", "ready")

Read(c) ==
  /\ ChannelLockFree(c)
  /\ HandlerGoto(c, "ready", "asleep")
  /\ mReadReady' = [mReadReady EXCEPT ![c] = TRUE]
  /\ UNCHANGED <<cmVars, mChannels, closed, mStarted, owner, appVars>>

(* Read returns: with a message, with a part of one, or because the        *)
(* channel is closed.                                                      *)
ReadReturns(c) ==
  /\ ChannelLockFree(c)
  /\ ~mReadReady[c] /\ ~closed[c]
  /\ HandlerMoves(c, "asleep", "callback") \/ HandlerMoves(c, "asleep", "ready")

ReadReset(c) ==
  /\ ChannelLockFree(c)
  /\ closed[c]
  /\ HandlerMoves(c, "asleep", "check")

HandlerThread(c) ==
  \/ CheckStarted(c) \/ Connect(c) \/ ConnectSucceeds(c) \/ ConnectFails(c)
  \/ WaitReconnect(c) \/ CallbackDone(c) \/ SendMessage(c) \/ Write(c)
  \/ WriteReturns(c) \/ Read(c) \/ ReadReturns(c) \/ ReadReset(c)

-----------------------------------------------------------------------------
(* The thread that owns the handler of client c: HandleChannels.           *)

OwnerGoto(c, from, to) == owner[c] = from /\ owner' = [owner EXCEPT ![c] = to]

OwnerMoves(c, from, to) ==
  /\ OwnerGoto(c, from, to)
  /\ UNCHANGED <<cmVars, mChannels, chanVars, mStarted, handler, appVars>>

(* Stop has set mClose of the client.                                      *)
Closing(c) == appStop[c] = "told"

CreateChannel(c) ==
  /\ ~Closing(c) /\ CMLockFree
  /\ OwnerGoto(c, "setup", "start")
  /\ mChannels' = mChannels \union {c}
  /\ mReadReady' = [mReadReady EXCEPT ![c] = FALSE]
  /\ closed' = [closed EXCEPT ![c] = FALSE]
  /\ UNCHANGED <<cmVars, mStarted, handler, appVars>>

HandlerStart(c) ==
  /\ HandlerLockFree(c)
  /\ OwnerGoto(c, "start", "wait")
  /\ mStarted' = [mStarted EXCEPT ![c] = TRUE]
  /\ handler' = [handler EXCEPT ![c] = "check"]
  /\ UNCHANGED <<cmVars, mChannels, chanVars, appVars>>

OwnerWakes(c) ==
  /\ Releases \/ Closing(c)
  /\ ClientLockFree(c)
  /\ OwnerMoves(c, "wait", "stop")

(* PBHandler::Stop, called by ReleaseChannel.  It returns at once when the *)
(* handler is not started; otherwise it closes the channel with the lock   *)
(* of the handler held, then joins the thread.                             *)
HandlerStop(c) ==
  /\ HandlerLockFree(c)
  /\ OwnerGoto(c, "stop", IF mStarted[c] THEN "closing" ELSE "delete")
  /\ mStarted' = [mStarted EXCEPT ![c] = FALSE]
  /\ UNCHANGED <<cmVars, mChannels, chanVars, handler, appVars>>

HandlerClose(c) ==
  /\ ChannelLockFree(c)
  /\ OwnerGoto(c, "closing", "join")
  /\ closed' = [closed EXCEPT ![c] = TRUE]
  /\ UNCHANGED <<cmVars, mChannels, mReadReady, mStarted, handler, appVars>>

Bug_NoJoin(c) == OwnerMoves(c, "join", "delete")

HandlerJoin(c) ==
  /\ handler[c] = "exited"
  /\ OwnerMoves(c, "join", "delete")

(* DeleteChannel removes an element of mChannels in place: a walk of       *)
(* CloseChannels that is under way may miss another element.               *)
DeleteChannel(c) ==
  /\ CMLockFree
  /\ OwnerGoto(c, "delete", "setup")
  /\ mChannels' = mChannels \ {c}
  /\ \E d \in toClose \union {c} : toClose' = toClose \ {c, d}
  /\ UNCHANGED <<opened, mClose, cmPc, port, more, failures, chanVars, mStarted,
                 handler, appVars>>

OwnerDone(c) ==
  /\ Closing(c)
  /\ OwnerMoves(c, "setup", "done")

OwnerThread(c) ==
  \/ CreateChannel(c) \/ HandlerStart(c) \/ OwnerWakes(c) \/ HandlerStop(c)
  \/ HandlerClose(c) \/ HandlerJoin(c) \/ DeleteChannel(c) \/ OwnerDone(c)

-----------------------------------------------------------------------------
(* App::Stop: first ChannelManager::Stop, then the Stop of each client.    *)

AppStop ==
  /\ app = "run" /\ app' = "cmStop"
  /\ UNCHANGED <<cmVars, mChannels, chanVars, clientVars, appStop>>

ChannelManagerStop ==
  /\ app = "cmStop" /\ CMLockFree
  /\ app' = "cmJoin"
  /\ opened' = FALSE /\ mClose' = TRUE
  /\ UNCHANGED <<cmPc, port, more, toClose, failures, mChannels, chanVars, clientVars,
                 appStop>>

ChannelManagerJoin ==
  /\ app = "cmJoin" /\ cmPc = "done"
  /\ app' = "clients"
  /\ UNCHANGED <<cmVars, mChannels, chanVars, clientVars, appStop>>

(* IAMClient::Stop returns before SMClient::Stop is called.                *)
AppGoto(c, from, to) ==
  /\ app = "clients"
  /\ c \in StopsHandler \/ \A d \in StopsHandler : owner[d] = "done"
  /\ appStop[c] = from /\ appStop' = [appStop EXCEPT ![c] = to]
  /\ UNCHANGED app

(* IAMClient::Stop calls PBHandler::Stop itself, SMClient::Stop leaves it  *)
(* to its HandleChannel; both then set mClose and join HandleChannels.     *)
ClientStop(c) ==
  /\ c \in StopsHandler /\ HandlerLockFree(c)
  /\ AppGoto(c, "none", IF mStarted[c] THEN "closing" ELSE "stopped")
  /\ mStarted' = [mStarted EXCEPT ![c] = FALSE]
  /\ UNCHANGED <<cmVars, mChannels, chanVars, handler, owner>>

ClientCloseChannel(c) ==
  /\ ChannelLockFree(c)
  /\ AppGoto(c, "closing", "join")
  /\ closed' = [closed EXCEPT ![c] = TRUE]
  /\ UNCHANGED <<cmVars, mChannels, mReadReady, clientVars>>

ClientJoin(c) ==
  /\ handler[c] = "exited"
  /\ AppGoto(c, "join", "stopped")
  /\ UNCHANGED <<cmVars, mChannels, chanVars, clientVars>>

ClientClose(c) ==
  /\ ClientLockFree(c)
  /\ AppGoto(c, IF c \in StopsHandler THEN "stopped" ELSE "none", "told")
  /\ UNCHANGED <<cmVars, mChannels, chanVars, clientVars>>

AppDone ==
  /\ app = "clients" /\ \A c \in Clients : owner[c] = "done"
  /\ app' = "done"
  /\ UNCHANGED <<cmVars, mChannels, chanVars, clientVars, appStop>>

AppThread ==
  \/ ChannelManagerStop \/ ChannelManagerJoin \/ AppDone
  \/ \E c \in Clients :
       ClientStop(c) \/ ClientCloseChannel(c) \/ ClientJoin(c) \/ ClientClose(c)

Stopped == app = "done" /\ UNCHANGED vars

Next ==
  \/ ChannelManagerThread \/ Transport
  \/ \E c \in Clients : HandlerThread(c) \/ OwnerThread(c)
  \/ AppStop \/ AppThread
  \/ Stopped

(* Every thread runs whenever it can, and a lock that is free again and    *)
(* again is taken in the end.  A transport that is tried again and again   *)
(* opens in the end.  Nothing obliges the peer to send, the link to fail,  *)
(* a certificate to change or the application to stop.                     *)
Fairness ==
  /\ SF_vars(ChannelManagerThread) /\ SF_vars(TryConnect)
  /\ \A c \in Clients :
       /\ SF_vars(HandlerThread(c))
       /\ SF_vars(OwnerThread(c) /\ (owner[c] = "wait" => Closing(c)))
  /\ SF_vars(AppThread)

Spec == Init /\ [][Next]_vars /\ Fairness

-----------------------------------------------------------------------------
TypeOK ==
  /\ opened \in BOOLEAN /\ mClose \in BOOLEAN
  /\ mChannels \subseteq Clients /\ toClose \subseteq Clients
  /\ cmPc \in {"check", "try", "wait", "handle", "read", "waitRead", "readDone",
               "close", "closed", "closeChannels", "done"}
  /\ port \in Clients \union {NoPort} /\ more \in BOOLEAN /\ failures \in 0..MaxFailures
  /\ mReadReady \in [Clients -> BOOLEAN] /\ closed \in [Clients -> BOOLEAN]
  /\ mStarted \in [Clients -> BOOLEAN]
  /\ handler \in [Clients -> {"check", "lock", "connecting", "retry", "callback",
                 "sendWait", "sending", "ready", "asleep", "exited"}]
  /\ owner \in [Clients -> {"setup", "start", "wait", "stop", "closing", "join",
               "delete", "done"}]
  /\ app \in {"run", "cmStop", "cmJoin", "clients", "done"}
  /\ appStop \in [Clients -> {"none", "closing", "join", "stopped", "told"}]

(* Nobody sleeps through a lost connection: while ChannelManager is        *)
(* between two connections, a handler that still believes in the last one  *)
(* finds its channel closed as soon as it reads, so it runs OnDisconnect   *)
(* and OnConnect again (channelmanager.cpp:190-192, channel.cpp:66).       *)
BetweenConnections == cmPc \in {"check", "try", "wait", "done"}
NoSleepThroughReconnect ==
  BetweenConnections => ~opened /\ \A c \in Clients : Connected(c) => closed[c]

(* The channel of a handler is not deleted while the thread of the handler *)
(* may still use it (smclient.cpp:879-886).                                *)
ChannelOutlivesHandler ==
  \A c \in Clients : c \notin mChannels => handler[c] = "exited"

(* Once ChannelManager::Stop returns, the transport stays closed, though   *)
(* TryConnect may have opened it again after Stop closed it.               *)
ClosedAfterStop == app \in {"clients", "done"} => ~opened

(* App::Stop comes to its end: "Stops communication channel."              *)
(* (channelmanager.hpp:73) and "Stops protobuf handler." (pbhandler.hpp:48).*)
ShutdownCompletes == app = "cmStop" ~> app = "done"

(* Every handler that is started connects, also after a lost connection,   *)
(* unless the application stops.                                           *)
HandlersConnect ==
  \A c \in Clients :
    owner[c] = "wait" ~> (Connected(c) /\ ~closed[c]) \/ app # "run"

(* ChannelManager::Stop "stops communication channel"                      *)
(* (channelmanager.hpp:73): its thread ends.                               *)
ManagerStops == app = "cmStop" ~> cmPc = "done"
=============================================================================
