------------------------------ MODULE SMClient ------------------------------
(***************************************************************************)
(* SMClient: the client of the service manager.  Its handler keeps the     *)
(* mutex of the client for the whole of OnConnect and ReceiveMessage, and  *)
(* so do the senders: Launcher, ResourceMonitor and Downloader, here one   *)
(* thread.  Downloader holds its own mutex, too, which the handler takes   *)
(* for the contents of an image.                                           *)
(*                                                                         *)
(* OnLogReceived sends without it: the thread of LogProvider calls it with *)
(* the mutex of LogProvider, which a request for a log takes.              *)
(*                                                                         *)
(* HandleChannel owns the secure channel: it sets it up when the clock is  *)
(* synchronised and the node provisioned, and takes it down again when one *)
(* of the two is no longer so or the certificate has changed.              *)
(***************************************************************************)
EXTENDS IAMClient

VARIABLES
  smClose,        \* SMClient::mClose
  smOwner,        \* the thread of HandleChannel
  sender,         \* the thread that sends through SMClient
  subscribersOn   \* TRUE: the subscribers of SMClient have been told OnConnect last

smVars == <<smClose, smOwner, sender, subscribersOn>>

SMClientInit == smClose = FALSE /\ smOwner = "none" /\ sender = "idle" /\ subscribersOn = FALSE

-----------------------------------------------------------------------------
(* The handler of SMClient.                                                *)

SMConnects ==
  /\ Connect("sm") \/ ConnectFails("sm") \/ Reconnect("sm")
  /\ UNCHANGED subscribersOn

SMLocks(from, to) ==
  /\ Free("sm")
  /\ Goes("sm", from, to)
  /\ Take({"sm"}, "sm")
  /\ UNCHANGED <<mStarted, closed, linkVars, subscribersOn>>

SMReady(from) ==
  /\ Goes("sm", from, "ready")
  /\ Leave({"sm"})
  /\ UNCHANGED <<mStarted, closed, linkVars>>

OnConnect == SMLocks("connected", "onConnect")

(* SendNodeConfigStatus reads the node info.                               *)
OnConnected ==
  /\ Free("node")
  /\ SMReady("onConnect")
  /\ subscribersOn' \in {subscribersOn, TRUE}

(* The mutexes of other components that a message takes: every message     *)
(* about the node config is answered with the node info.                   *)
Needs == [nodeConfig   |-> {"node"},
          imageContent |-> {"download"},
          systemLog    |-> {"log"}]

(* RunInstances and GetAverageMonitoring need none, and nothing that is    *)
(* modelled here changes.                                                  *)
ReceiveMessage(m) == CanReceive("sm") /\ SMLocks("ready", m)

Process(m) ==
  /\ \A mutex \in Needs[m] : Free(mutex)
  /\ SMReady(m)
  /\ UNCHANGED subscribersOn

Bug_OnDisconnect ==
  /\ Free("sm")
  /\ Disconnect("sm")
  /\ UNCHANGED subscribersOn

OnDisconnect ==
  /\ Free("sm")
  /\ Disconnect("sm")
  /\ subscribersOn' = (subscribersOn /\ smClose)   \* Stop has cleared the subscribers

SMHandler ==
  /\ \/ SMConnects \/ OnConnect \/ OnConnected \/ OnDisconnect
     \/ \E m \in DOMAIN Needs : Process(m)
  /\ UNCHANGED <<clockVars, nodeVars, iamVars, request, certVars, toldVars, smClose, smOwner, sender>>

SMRequests ==
  /\ \E m \in DOMAIN Needs : ReceiveMessage(m)
  /\ UNCHANGED <<clockVars, nodeVars, iamVars, request, certVars, toldVars, smClose, smOwner, sender>>

-----------------------------------------------------------------------------
(* The senders.                                                            *)

SenderMoves(from, to) ==
  /\ sender = from /\ sender' = to
  /\ UNCHANGED <<clockVars, nodeVars, iamVars, request, certVars, toldVars, smClose, smOwner,
                 subscribersOn, handlerVars, linkVars>>

(* InstancesRunStatus, InstancesUpdateRunStatus, SendMonitoringData and    *)
(* SendAlert; and Download, until its SendImageContentRequest.             *)
SendBegins ==
  /\ mStarted["sm"]
  /\ Free("sm") /\ Take({"sm"}, "sender")
  /\ SenderMoves("idle", "sending")

Download ==
  /\ mStarted["sm"]
  /\ Free("download") /\ Take({"download"}, "sender")
  /\ SenderMoves("idle", "downloading")

SendImageContentRequest ==
  /\ Free("sm") /\ Take({"sm"}, "sender")
  /\ SenderMoves("downloading", "sending")

OnLogReceived ==
  /\ mStarted["sm"]
  /\ Free("log") /\ Take({"log"}, "sender")
  /\ SenderMoves("idle", "sending")

(* Channel::Write waits for the lock of the channel.                       *)
Sent ==
  /\ ChannelFree("sm")
  /\ Leave({m \in Mutex : lock[m] = "sender"})
  /\ SenderMoves("sending", "idle")

-----------------------------------------------------------------------------
(* HandleChannel.                                                          *)

SMOwnerMoves(from, to) ==
  /\ smOwner = from /\ smOwner' = to
  /\ UNCHANGED <<linkVars, clockVars, nodeVars, iamVars, request, mProvisioned, smClose,
                 sender, subscribersOn>>

SMRelease ==
  /\ Free("sm")
  /\ mCertificateChanged' = FALSE
  /\ SMOwnerMoves("release", IF mStarted["sm"] THEN "closing" ELSE "wait")
  /\ HandlerStop("sm")
  /\ UNCHANGED <<certVars, lock>>

SMClosesChannel ==
  /\ SMOwnerMoves("closing", "join")
  /\ HandlerClose("sm")
  /\ UNCHANGED <<certVars, mCertificateChanged, lock>>

SMJoins ==
  /\ Joined("sm")
  /\ SMOwnerMoves("join", "wait")
  /\ certSubscribers' = certSubscribers \ {"sm"}
  /\ UNCHANGED <<stale, mCertificateChanged, handlerVars, lock>>

SMExits ==
  /\ Free("sm") /\ smClose
  /\ SMOwnerMoves("wait", "exited")
  /\ UNCHANGED <<certVars, mCertificateChanged, handlerVars, lock>>

Ready == mClockSynced["sm"] /\ mProvisioned

(* SetupChannel, with the mutex held: it subscribes to the certificate,    *)
(* then reads it.                                                          *)
Bug_SMSetsUp ==
  /\ Free("sm") /\ Ready /\ ~smClose
  /\ Take({"sm"}, "setup")
  /\ SMOwnerMoves("wait", "setup")
  /\ UNCHANGED <<certVars, mCertificateChanged, handlerVars>>

SMSetsUp ==
  /\ Free("sm") /\ Ready /\ ~smClose
  /\ Take({"sm"}, "setup")
  /\ SMOwnerMoves("wait", "setup")
  /\ certSubscribers' = certSubscribers \union {"sm"}
  /\ UNCHANGED <<stale, mCertificateChanged, handlerVars>>

SetTLSConfig ==
  /\ SMOwnerMoves("setup", "serving")
  /\ stale' = stale \ {"sm"}
  /\ HandlerStart("sm")
  /\ Leave({"sm"})
  /\ UNCHANGED <<certSubscribers, mCertificateChanged>>

(* It fails, and the subscription stays.                                   *)
SMSetupFails ==
  /\ SMOwnerMoves("setup", "retry")
  /\ Leave({"sm"})
  /\ UNCHANGED <<certVars, mCertificateChanged, handlerVars>>

SMRetries ==
  /\ Free("sm")
  /\ SMOwnerMoves("retry", "release")
  /\ UNCHANGED <<certVars, mCertificateChanged, handlerVars, lock>>

SMReleases ==
  /\ Free("sm")
  /\ ~Ready \/ smClose \/ mCertificateChanged
  /\ SMOwnerMoves("serving", "release")
  /\ UNCHANGED <<certVars, mCertificateChanged, handlerVars, lock>>

SMOwner ==
  \/ SMRelease \/ SMClosesChannel \/ SMJoins \/ SMExits
  \/ SMSetsUp \/ SetTLSConfig \/ SMRetries \/ SMReleases

SMClientTypeOK ==
  /\ smClose \in BOOLEAN /\ subscribersOn \in BOOLEAN
  /\ smOwner \in {"none", "release", "closing", "join", "wait", "setup", "serving", "retry", "exited"}
  /\ sender \in {"idle", "downloading", "sending"}
=============================================================================
