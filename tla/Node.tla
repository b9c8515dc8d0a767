-------------------------------- MODULE Node --------------------------------
(***************************************************************************)
(* The node: App starts and stops the clients, which run together.         *)
(*                                                                         *)
(* Three meetings of two threads are known to go wrong.  The handler of    *)
(* SMClient meets a change of the status or a Download halfway, each with  *)
(* a mutex the other one waits for; and HandleChannels of IAMClient begins *)
(* to release the channel while App::Stop waits for the thread of its      *)
(* handler, which nobody waits for then.  With Overlap they happen;        *)
(* without it these three, and nothing else, are kept apart (Apart,        *)
(* ReleaseApart).                                                          *)
(***************************************************************************)
EXTENDS SMClient

CONSTANT MaxEvents   \* bound on the events of the environment

ASSUME NodeAssumption == MaxEvents \in Nat

VARIABLES
  app,
  events   \* how many events there were

clientVars == <<nodeVars, iamVars, request, certVars, toldVars, smVars>>
vars == <<linkVars, handlerVars, lock, clockVars, clientVars, app, events>>

Init ==
  /\ HandlersInit /\ ClockSyncInit /\ IAMClientInit /\ SMClientInit
  /\ app = "start" /\ events = 0

-----------------------------------------------------------------------------
(* App::Start.                                                             *)

AppGoes(from, to) == app = from /\ app' = to

(* IAMClient::Start.  Nothing else runs yet that could come in between.    *)
IAMStart ==
  /\ AppGoes("start", "iamStarted")
  /\ ClockSyncSubscribe("iam")
  /\ SubscribeNodeStatusChanged("iam")
  /\ iamStatus' = status /\ iamOwner' = "release"
  /\ UNCHANGED <<mReconnect, iamClose, mCurrentPort, linkVars, handlerVars, lock, request,
                 certVars, toldVars, smVars>>

(* SMClient::Start reads the status before it subscribes to its changes.   *)
SMReadsStatus ==
  /\ AppGoes("iamStarted", "smStarting")
  /\ Free("node")
  /\ mProvisioned' = (status # "unprovisioned")
  /\ UNCHANGED <<linkVars, handlerVars, lock, clockVars, nodeVars, iamVars, request, certVars,
                 mCertificateChanged, smVars>>

SMStart ==
  /\ AppGoes("smStarting", "running")
  /\ ClockSyncSubscribe("sm")
  /\ SubscribeNodeStatusChanged("sm")
  /\ HandlerStart("open")
  /\ smOwner' = "release"
  /\ UNCHANGED <<linkVars, lock, iamVars, request, certVars, toldVars, smClose, sender,
                 subscribersOn>>

-----------------------------------------------------------------------------
(* App::Stop.                                                              *)

AppStop ==
  /\ AppGoes("running", "stopping")
  /\ UNCHANGED <<linkVars, handlerVars, lock, clockVars, clientVars>>

(* LogProvider::Stop; Launcher and ResourceMonitor are external.           *)
StopsLogs ==
  /\ AppGoes("stopping", "clockStop")
  /\ Free("log")
  /\ UNCHANGED <<linkVars, handlerVars, lock, clockVars, clientVars>>

StopsClock ==
  /\ AppGoes("clockStop", "clockJoin")
  /\ ClockSyncStop
  /\ UNCHANGED <<linkVars, handlerVars, lock, clientVars>>

StopsChannels ==
  /\ AppGoes("clockJoin", "iamStop")
  /\ clockThread = "exited"
  /\ ChannelManagerStop
  /\ UNCHANGED <<clockVars, clientVars>>

(* IAMClient::Stop: PBHandler::Stop, in the middle of whatever the client  *)
(* is doing.  It waits for the mutex of the handler, which ReleaseChannel  *)
(* holds while it closes the channel, and holds it itself at "iamClosing". *)
StopsIAMHandler ==
  /\ AppGoes("iamStop", IF mStarted["iam"] THEN "iamClosing" ELSE "iamClose")
  /\ iamOwner # "closing"
  /\ HandlerStop("iam")
  /\ UNCHANGED <<linkVars, lock, clockVars, clientVars>>

ClosesIAMChannel ==
  /\ AppGoes("iamClosing", "iamJoin")
  /\ HandlerClose("iam")
  /\ UNCHANGED <<linkVars, lock, clockVars, clientVars>>

JoinsIAMHandler ==
  /\ Joined("iam")
  /\ AppGoes("iamJoin", "iamClose")
  /\ UNCHANGED <<linkVars, handlerVars, lock, clockVars, clientVars>>

ClosesIAM ==
  /\ AppGoes("iamClose", "iamOwner")
  /\ Free("iam")
  /\ ClockSyncUnsubscribe("iam") /\ UnsubscribeNodeStatusChanged("iam")
  /\ certSubscribers' = certSubscribers \ {"iam"}
  /\ iamClose' = TRUE
  /\ UNCHANGED <<linkVars, handlerVars, lock, iamStatus, mReconnect, iamOwner, mCurrentPort,
                 request, stale, toldVars, smVars>>

StopsOpenHandler ==
  /\ AppGoes("iamOwner", "openJoin")
  /\ iamOwner = "exited" /\ ChannelFree("open")
  /\ HandlerStop("open")
  /\ UNCHANGED <<linkVars, lock, clockVars, clientVars>>

ClosesSM ==
  /\ AppGoes("openJoin", "smOwner")
  /\ Joined("open") /\ Free("sm") /\ Free("log")
  /\ smClose' = TRUE
  /\ UNCHANGED <<linkVars, handlerVars, lock, clockVars, nodeVars, iamVars, request, certVars,
                 toldVars, smOwner, sender, subscribersOn>>

AppStopped ==
  /\ AppGoes("smOwner", "stopped")
  /\ smOwner = "exited"
  /\ UNCHANGED <<linkVars, handlerVars, lock, clockVars, clientVars>>

AppThread ==
  \/ IAMStart \/ SMReadsStatus \/ SMStart
  \/ StopsLogs \/ StopsClock \/ StopsChannels \/ StopsIAMHandler
  \/ ClosesIAMChannel \/ JoinsIAMHandler \/ ClosesIAM \/ StopsOpenHandler
  \/ ClosesSM \/ AppStopped

-----------------------------------------------------------------------------
(* All together.                                                           *)

Apart ==
  \/ Overlap
  \/ /\ handler["iam"] = "statusChanged" => handler["sm"] \notin {"onConnect", "nodeConfig"}
     /\ lock["download"] = "sender" => handler["sm"] # "imageContent"

(* The mutex of the handler of IAMClient is free for ReleaseChannel.       *)
IAMHandlerLockFree == app = "iamClosing" => iamOwner # "release"

ReleaseApart == Overlap \/ (app = "iamJoin" => iamOwner # "release")

Clock   == ClockThread /\ UNCHANGED <<clientVars, app, events>>
Open    == OpenHandler /\ UNCHANGED <<clientVars, app, events>>
IAMH    == IAMHandler /\ UNCHANGED <<smVars, app, events>> /\ Apart'
IAMO    == IAMOwner /\ UNCHANGED <<smVars, app, events>> /\ IAMHandlerLockFree /\ ReleaseApart
SMH     == SMHandler /\ UNCHANGED <<app, events>> /\ Apart'
SMO     == SMOwner /\ UNCHANGED <<app, events>>
Senders == (SendImageContentRequest \/ Sent) /\ UNCHANGED <<app, events>>
Link    == TransportUp /\ UNCHANGED <<clockVars, clientVars, app, events>>
App     == AppThread /\ UNCHANGED events

(* The peer answers the requests for the time.                             *)
Syncs   == Sync /\ UNCHANGED <<clientVars, app, events>>

(* What else the peer, the link, the time and the other components of the  *)
(* node do.                                                                *)
Event ==
  /\ events < MaxEvents /\ events' = events + 1
  /\ UNCHANGED app
  /\ \/ TransportDown /\ UNCHANGED <<clockVars, clientVars>>
     \/ ClockPeriod /\ UNCHANGED clientVars
     \/ IAMRequests /\ UNCHANGED <<linkVars, clockVars, smVars>>
     \/ IAMSetupFails /\ UNCHANGED smVars
     \/ SMRequests \/ SMSetupFails
     \/ SendBegins \/ Download \/ (OnLogReceived /\ app \in {"running", "stopping"})
  /\ Apart'

Stopped == app = "stopped" /\ UNCHANGED vars

Next ==
  \/ Clock \/ Open \/ IAMH \/ IAMO \/ SMH \/ SMO \/ Senders \/ Link
  \/ App \/ (AppStop /\ UNCHANGED events)
  \/ Syncs \/ Event \/ Stopped

(* Every thread runs as long as it can, and the transport comes back.      *)
(* Nothing obliges the peer to send, nor the application to stop.          *)
Fairness ==
  /\ WF_vars(Clock) /\ WF_vars(Open) /\ WF_vars(IAMH) /\ WF_vars(IAMO)
  /\ WF_vars(SMH) /\ WF_vars(SMO) /\ WF_vars(Senders) /\ WF_vars(App) /\ WF_vars(Link)

Spec == Init /\ [][Next]_vars /\ Fairness

-----------------------------------------------------------------------------
TypeOK ==
  /\ up \in BOOLEAN /\ mClose \in BOOLEAN
  /\ handler \in [Handler -> {"none", "connecting", "retry", "connected", "ready", "setStatus",
                   "statusChanged", "certChanged", "answer", "error", "onConnect"} \union DOMAIN Needs]
  /\ mStarted \in [Handler -> BOOLEAN] /\ closed \subseteq Handler
  /\ lock \in [Mutex -> Thread \union {Nobody}]
  /\ events \in 0..MaxEvents
  /\ ClockSyncTypeOK /\ IAMClientTypeOK /\ SMClientTypeOK
  /\ app \in {"start", "iamStarted", "smStarting", "running", "stopping", "clockStop", "clockJoin", "iamStop",
              "iamClosing", "iamJoin", "iamClose", "iamOwner", "openJoin", "smOwner", "stopped"}

(* SMClient follows the status of the node: whenever nobody is changing    *)
(* it, SMClient takes the node for provisioned if and only if it is, also  *)
(* when IAMClient, called first, has failed and the round of observers has *)
(* ended before SMClient was called (nodeinfoprovider.cpp:261-265).        *)
SMFollowsStatus ==
  Free("node") /\ "sm" \in mStatusChangedSubscribers => mProvisioned = (status # "unprovisioned")

(* No client goes on with a channel that was set up for another status or  *)
(* with a certificate that was replaced, unless it has been told to start  *)
(* over and is about to (iamclient.cpp:136, 159; smclient.cpp:446, 854).   *)
ChannelIsCurrent ==
  /\ iamOwner = "serving" /\ ~mReconnect
       => mCurrentPort = Port /\ (Port = "secure" => "iam" \notin stale)
  /\ smOwner = "serving" /\ ~mCertificateChanged /\ handler["iam"] # "certChanged"
       => "sm" \notin stale

(* Whenever ClockSync is not telling them, both clients know whether the   *)
(* clock is synchronised, though they subscribe while it runs              *)
(* (clocksync.cpp:123, 144).                                               *)
ClientsKnowClock ==
  Free("clock") =>
    \A i \in DOMAIN mConnectionSubscribers : mClockSynced[mConnectionSubscribers[i]] = mSynced

(* Launcher and ResourceMonitor take the node for connected only while its *)
(* handler serves a connection: not while it is stopped, connects, waits   *)
(* to try again or is before its OnConnect, whichever way the connection   *)
(* before has ended (smclient.cpp:510-519).  Not so once Stop has cleared  *)
(* the subscribers.                                                        *)
SubscribersKnowConnection ==
  subscribersOn /\ ~smClose => handler["sm"] \in {"ready"} \union DOMAIN Needs

(* A request of the identity manager is answered without an error only     *)
(* when it was done as a whole: the status is the one it asked for, and    *)
(* SMClient, when it has subscribed, has been told (iamclient.cpp:509).    *)
AnsweredMeansDone ==
  handler["iam"] = "answer" /\ request \in DOMAIN Target =>
    /\ status = Target[request] /\ iamStatus = Target[request]
    /\ "sm" \in mStatusChangedSubscribers => mProvisioned = (Target[request] # "unprovisioned")

(* A request is answered, whatever the other threads of the node are in    *)
(* the middle of (nodeinfoprovider.cpp:101, smclient.cpp:412).             *)
RequestsAnswered == request # NoRequest ~> request = NoRequest

(* While the clock is synchronised and the node provisioned, SMClient is   *)
(* connected in the end, through lost connections, failed setups and new   *)
(* certificates; and once App::Stop has begun it comes to its end, also    *)
(* when a request is handled or a channel taken down at that moment        *)
(* (smclient.cpp:909-930, app.cpp:85-118).  It is a claim about a node     *)
(* without the three meetings that Overlap stands for: there are no other  *)
(* ones that stop it.  It needs the transport: while the open channel is   *)
(* connecting, the thread of ClockSync keeps its mutex (clocksync.cpp:57,  *)
(* app.cpp:101).                                                           *)
Connected == handler["sm"] = "ready" /\ "sm" \notin closed

ServiceResumesOrStops ==
  (app = "running" /\ Ready) \/ app = "stopping"
    ~> (app = "running" /\ (Connected \/ ~Ready)) \/ app = "stopped"
=============================================================================
