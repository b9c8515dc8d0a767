----------------------------- MODULE IAMClient -----------------------------
(***************************************************************************)
(* NodeInfoProvider and IAMClient: the status of the node, and the client  *)
(* of the identity manager whose requests change it.                       *)
(*                                                                         *)
(* The handler of IAMClient keeps the mutex of the client for the whole of *)
(* a request.  A request that changes the status goes through              *)
(* SetNodeStatus, which keeps the mutex of NodeInfoProvider while it calls *)
(* its observers: IAMClient itself, which takes no mutex, and SMClient.  A *)
(* certificate that is applied is announced in the same way by CertHandler *)
(* (external) to whoever has subscribed to its type.                       *)
(*                                                                         *)
(* HandleChannels owns the channel: it sets it up for the status of the    *)
(* node, and starts over when the status or the certificate asks for it.   *)
(***************************************************************************)
EXTENDS ClockSync

CONSTANT Stored   \* what the file of the status may hold when the node starts

VARIABLES
  status,              \* NodeInfoProvider::mNodeInfo.mStatus
  mStatusChangedSubscribers,
  iamStatus,           \* IAMClient::mNodeInfo.mStatus
  mReconnect,
  iamClose,            \* IAMClient::mClose
  iamOwner,            \* the thread of HandleChannels
  mCurrentPort,
  request,             \* the request its handler is working on
  certSubscribers,
  stale,               \* the clients whose certificate is no longer the one in use
  mProvisioned, mCertificateChanged   \* of SMClient, which the observers set

nodeVars  == <<status, mStatusChangedSubscribers>>
iamVars   == <<iamStatus, mReconnect, iamClose, iamOwner, mCurrentPort>>
certVars  == <<certSubscribers, stale>>
toldVars  == <<mProvisioned, mCertificateChanged>>

Status == {"unprovisioned", "provisioned", "paused"}
Ports  == {"none", "open", "secure"}

ASSUME StoredAssumption == Stored \subseteq Status

(* What a request asks for: the statuses it expects, and the one it sets.  *)
Expected == [start       |-> {"unprovisioned"},
             finish      |-> {"unprovisioned"},
             deprovision |-> {"provisioned", "paused"},
             pause       |-> {"provisioned"},
             resume      |-> {"paused"},
             createKey   |-> Status,
             applyIAM    |-> Status,
             applySM     |-> Status]
Target   == [finish |-> "provisioned", deprovision |-> "unprovisioned",
             pause  |-> "paused",      resume      |-> "provisioned"]
Applies  == [applyIAM |-> "iam", applySM |-> "sm"]
Request  == DOMAIN Expected
NoRequest == "none"

IAMClientInit ==
  /\ status \in Stored /\ mStatusChangedSubscribers = {}
  /\ iamStatus = "unprovisioned" /\ mReconnect = FALSE /\ iamClose = FALSE
  /\ iamOwner = "none" /\ mCurrentPort = "none"
  /\ request = NoRequest
  /\ certSubscribers = {} /\ stale = {}
  /\ mProvisioned = FALSE /\ mCertificateChanged = FALSE

-----------------------------------------------------------------------------
(* NodeInfoProvider.                                                       *)

SubscribeNodeStatusChanged(c) ==
  /\ Free("node")
  /\ mStatusChangedSubscribers' = mStatusChangedSubscribers \union {c}
  /\ UNCHANGED status

UnsubscribeNodeStatusChanged(c) ==
  /\ Free("node")
  /\ mStatusChangedSubscribers' = mStatusChangedSubscribers \ {c}
  /\ UNCHANGED status

Bug_ChangesProvisioning(s) == s = "unprovisioned"

ChangesProvisioning(s) == (iamStatus = "unprovisioned") # (s = "unprovisioned")

-----------------------------------------------------------------------------
(* The handler of IAMClient.                                               *)

IAMOnConnect ==
  /\ Free("iam")
  /\ Goes("iam", "connected", "ready")
  /\ UNCHANGED <<mStarted, closed, lock, nodeVars, iamVars, certVars, toldVars>>

IAMDisconnect ==
  /\ Free("iam")
  /\ Disconnect("iam")
  /\ UNCHANGED <<nodeVars, iamVars, certVars, toldVars>>

IAMConnects ==
  /\ Connect("iam") \/ ConnectFails("iam") \/ Reconnect("iam")
  /\ UNCHANGED <<nodeVars, iamVars, certVars, toldVars>>

(* The next step of the request, with the mutexes M.                       *)
Proceed(r, to, M) ==
  /\ handler' = [handler EXCEPT !["iam"] = to]
  /\ request' = r
  /\ Take(M, "iam")
  /\ UNCHANGED <<mStarted, closed>>

(* SetNodeStatus returns to the request, which is going to be answered.    *)
Return(to) ==
  /\ Goes("iam", handler["iam"], to)
  /\ Leave({"node"})
  /\ UNCHANGED <<mStarted, closed, request>>

Receives(r) == CanReceive("iam") /\ Free("iam") /\ r \in Request

(* The status is not one the request expects, or ProvisionManager fails.   *)
Refuse(r) ==
  /\ Receives(r)
  /\ Proceed(r, "error", {"iam"})
  /\ UNCHANGED <<nodeVars, iamVars, certVars, toldVars>>

(* Finish, Deprovision, PauseNode and ResumeNode.                          *)
ReceiveChange(r) ==
  /\ Receives(r)
  /\ iamStatus \in Expected[r]
  /\ Proceed(r, "setStatus", {"iam"})
  /\ UNCHANGED <<nodeVars, iamVars, certVars, toldVars>>

(* StartProvisioning and CreateKey.  GetCertTypes changes nothing either   *)
(* and is never refused.                                                   *)
ReceiveOther(r) ==
  /\ Receives(r)
  /\ iamStatus \in Expected[r]
  /\ Proceed(r, "answer", {"iam"})
  /\ UNCHANGED <<nodeVars, iamVars, certVars, toldVars>>

(* ApplyCert: CertHandler stores the certificate and tells its subscriber. *)
ApplyCert(r) ==
  /\ Receives(r)
  /\ stale' = stale \union {Applies[r]}
  /\ Proceed(r, IF r = "applySM" /\ "sm" \in certSubscribers THEN "certChanged" ELSE "answer", {"iam"})
  /\ mReconnect' = (mReconnect \/ (r = "applyIAM" /\ "iam" \in certSubscribers))
  /\ UNCHANGED <<nodeVars, iamStatus, iamClose, iamOwner, mCurrentPort, certSubscribers, toldVars>>

Bug_StoreFails ==
  /\ handler["iam"] = "setStatus" /\ Free("node")
  /\ Return("answer")
  /\ UNCHANGED <<nodeVars, iamVars, certVars, toldVars>>

(* StoreNodeStatus fails.                                                  *)
StoreFails ==
  /\ handler["iam"] = "setStatus" /\ Free("node")
  /\ Return("error")
  /\ UNCHANGED <<nodeVars, iamVars, certVars, toldVars>>

StoreNodeStatus(s) ==
  /\ handler["iam"] = "setStatus" /\ Free("node")
  /\ s = Target[request]
  /\ status' = s /\ iamStatus' = s
  /\ mReconnect' = (mReconnect \/ ChangesProvisioning(s))
  /\ UNCHANGED <<mStatusChangedSubscribers, iamClose, iamOwner, mCurrentPort, certVars, toldVars>>

(* IAMClient is the first observer; SMClient, when it has subscribed, the  *)
(* second.                                                                 *)
SetNodeStatus ==
  \E s \in Status :
    /\ StoreNodeStatus(s)
    /\ IF "sm" \in mStatusChangedSubscribers
         THEN Proceed(request, "statusChanged", {"node"})
         ELSE Return("answer")

(* IAMClient fails to send the new status, and the error ends the round:   *)
(* SMClient is not told, and the request is answered with an error.        *)
NotifyFails ==
  \E s \in Status :
    /\ StoreNodeStatus(s)
    /\ ~ChangesProvisioning(s)
    /\ Return("error")

Bug_OnNodeStatusChanged ==
  /\ handler["iam"] = "statusChanged" /\ Free("sm")
  /\ mProvisioned' = (status = "provisioned")
  /\ Return("answer")
  /\ UNCHANGED <<nodeVars, iamVars, certVars, mCertificateChanged>>

(* SMClient::OnNodeStatusChanged and SMClient::OnCertChanged.              *)
OnNodeStatusChanged ==
  /\ handler["iam"] = "statusChanged" /\ Free("sm")
  /\ mProvisioned' = (status # "unprovisioned")
  /\ Return("answer")
  /\ UNCHANGED <<nodeVars, iamVars, certVars, mCertificateChanged>>

OnCertChanged ==
  /\ handler["iam"] = "certChanged" /\ Free("sm")
  /\ mCertificateChanged' = TRUE
  /\ Return("answer")
  /\ UNCHANGED <<nodeVars, iamVars, certVars, mProvisioned>>

(* SendMessage or SendError, which may fail.                               *)
Answer ==
  /\ handler["iam"] \in {"answer", "error"}
  /\ Goes("iam", handler["iam"], "ready")
  /\ request' = NoRequest
  /\ Leave({"iam"})
  /\ UNCHANGED <<mStarted, closed, nodeVars, iamVars, certVars, toldVars>>

IAMRequests ==
  \/ \E r \in Request : Refuse(r)
  \/ \E r \in DOMAIN Target : ReceiveChange(r)
  \/ \E r \in DOMAIN Applies : ApplyCert(r)
  \/ \E r \in Request \ (DOMAIN Target \union DOMAIN Applies) : ReceiveOther(r)

IAMHandler ==
  /\ \/ (IAMConnects \/ IAMDisconnect \/ IAMOnConnect) /\ UNCHANGED request
     \/ StoreFails \/ SetNodeStatus \/ NotifyFails
     \/ OnNodeStatusChanged \/ OnCertChanged \/ Answer
  /\ UNCHANGED <<linkVars, clockVars>>

-----------------------------------------------------------------------------
(* HandleChannels.                                                         *)

IAMOwnerGoes(from, to) == iamOwner = from /\ iamOwner' = to

(* ReleaseChannel: PBHandler::Stop, then the channel is deleted.  A        *)
(* handler that is not started, or that somebody else has stopped, is not  *)
(* waited for.                                                             *)
IAMRelease ==
  /\ HandlerStop("iam")
  /\ IF mCurrentPort # "none" /\ mStarted["iam"]
       THEN IAMOwnerGoes("release", "closing") /\ UNCHANGED certSubscribers
       ELSE /\ IAMOwnerGoes("release", "wait")
            /\ certSubscribers' = IF mCurrentPort = "none" THEN certSubscribers
                                                           ELSE certSubscribers \ {"iam"}
  /\ UNCHANGED <<iamStatus, mReconnect, iamClose, mCurrentPort, stale, lock>>

IAMClosesChannel ==
  /\ IAMOwnerGoes("closing", "join")
  /\ HandlerClose("iam")
  /\ UNCHANGED <<iamStatus, mReconnect, iamClose, mCurrentPort, certVars, lock>>

IAMJoins ==
  /\ Joined("iam")
  /\ IAMOwnerGoes("join", "wait")
  /\ certSubscribers' = certSubscribers \ {"iam"}
  /\ UNCHANGED <<iamStatus, mReconnect, iamClose, mCurrentPort, stale, handlerVars, lock>>

IAMExits ==
  /\ Free("iam") /\ iamClose
  /\ IAMOwnerGoes("wait", "exited")
  /\ UNCHANGED <<iamStatus, mReconnect, iamClose, mCurrentPort, certVars, handlerVars, lock>>

Port == IF iamStatus = "unprovisioned" THEN "open" ELSE "secure"

IAMSetupChannel ==
  /\ Free("iam") /\ ~iamClose /\ mClockSynced["iam"]
  /\ IAMOwnerGoes("wait", "serving")
  /\ mCurrentPort' = Port
  /\ IF Port = "secure"
       THEN /\ certSubscribers' = certSubscribers \union {"iam"}
            /\ stale' = stale \ {"iam"}
       ELSE UNCHANGED certVars
  /\ HandlerStart("iam")
  /\ UNCHANGED <<iamStatus, mReconnect, iamClose, lock>>

(* It fails at any of its calls, and what was done before stays.           *)
IAMSetupFails ==
  /\ Free("iam") /\ ~iamClose /\ mClockSynced["iam"]
  /\ IAMOwnerGoes("wait", "retry")
  /\ UNCHANGED <<linkVars, clockVars, nodeVars, request, toldVars>>
  /\ \/ UNCHANGED <<mCurrentPort, certSubscribers>>
     \/ mCurrentPort' = Port /\ UNCHANGED certSubscribers
     \/ Port = "secure" /\ mCurrentPort' = Port /\ certSubscribers' = certSubscribers \union {"iam"}
  /\ UNCHANGED <<iamStatus, mReconnect, iamClose, stale, handlerVars, lock>>

IAMRetries ==
  /\ Free("iam")
  /\ IAMOwnerGoes("retry", "release")
  /\ UNCHANGED <<iamStatus, mReconnect, iamClose, mCurrentPort, certVars, handlerVars, lock>>

(* WaitReconnect is over.                                                  *)
IAMReconnects ==
  /\ Free("iam") /\ (mReconnect \/ iamClose)
  /\ IAMOwnerGoes("serving", "release")
  /\ mReconnect' = FALSE
  /\ UNCHANGED <<iamStatus, iamClose, mCurrentPort, certVars, handlerVars, lock>>

IAMOwner ==
  /\ \/ IAMRelease \/ IAMClosesChannel \/ IAMJoins \/ IAMExits
     \/ IAMSetupChannel \/ IAMRetries \/ IAMReconnects
  /\ UNCHANGED <<linkVars, clockVars, nodeVars, request, toldVars>>

IAMClientTypeOK ==
  /\ status \in Status /\ iamStatus \in Status /\ mStatusChangedSubscribers \subseteq Client
  /\ mReconnect \in BOOLEAN /\ iamClose \in BOOLEAN
  /\ iamOwner \in {"none", "release", "closing", "join", "wait", "serving", "retry", "exited"}
  /\ mCurrentPort \in Ports
  /\ request \in Request \union {NoRequest}
  /\ certSubscribers \subseteq Client /\ stale \subseteq Client
  /\ mProvisioned \in BOOLEAN /\ mCertificateChanged \in BOOLEAN
=============================================================================
