------------------------------ MODULE NodeProof ------------------------------
(***************************************************************************)
(* Proofs about module Node, for any content of the status file, any       *)
(* number of events and also when handlers overlap: its type invariant,    *)
(* that SMClient follows the status of the node, that the clients know the *)
(* clock, the certificates and the connection they work with, and that a   *)
(* request answered without an error has been carried out.                 *)
(***************************************************************************)
EXTENDS Node, LeastElement, SequenceTheorems

-----------------------------------------------------------------------------
(* The inductive invariant, a part for each of the runs' invariants.       *)

Working  == {"setStatus", "statusChanged", "certChanged", "answer", "error"}
Calling  == {"notifying", "notifyingLost"}
Starting == {"start", "iamStarted", "smStarting"}
Stopping == {"iamStop", "iamClosing", "iamJoin", "iamClose", "iamOwner", "openJoin", "smOwner", "stopped"}

(* The mutexes a request holds, and the requests that reach a step.        *)
RequestInv ==
  /\ request # NoRequest <=> handler["iam"] \in Working
  /\ lock["iam"] = IF handler["iam"] \in Working THEN "iam" ELSE Nobody
  /\ lock["node"] = IF handler["iam"] = "statusChanged" THEN "iam" ELSE Nobody
  /\ handler["iam"] \in {"setStatus", "statusChanged"} => request \in DOMAIN Target
  /\ handler["iam"] = "certChanged" => request \in DOMAIN Applies

(* IAMClient has a copy of the status, and a request that has changed it   *)
(* has set the status it asked for.                                        *)
StatusInv ==
  /\ app = "start" => iamOwner = "none" /\ handler["iam"] = "none"
  /\ app # "start" => iamStatus = status
  /\ handler["iam"] \in {"statusChanged", "answer"} /\ request \in DOMAIN Target
       => status = Target[request]

(* SMClient::Start has read the status, and nobody changes it before it    *)
(* subscribes.                                                             *)
ProvisionedInv ==
  /\ app = "smStarting" => mProvisioned = (status # "unprovisioned")
  /\ SMFollowsStatus

(* Who has not been told about the clock yet is still to be called.  There *)
(* is no time before the open handler runs, which SMClient::Start starts   *)
(* last, and no handler of IAMClient before there is time.                 *)
ClockInv ==
  /\ lock["clock"] = IF clockThread \in Calling \union {"sending"} THEN "clock" ELSE Nobody
  /\ clockThread \notin Calling => toNotify = << >>
  /\ \A i \in DOMAIN mConnectionSubscribers :
       \/ \E j \in DOMAIN toNotify : toNotify[j] = mConnectionSubscribers[i]
       \/ mClockSynced[mConnectionSubscribers[i]] = mSynced
  /\ app \in Starting =>
       handler["open"] = "none" /\ handler["iam"] = "none" /\ ~mSync /\ ~mSynced /\ \A c \in Client : ~mClockSynced[c]

(* Nothing is received any more once the clients are stopped.              *)
StopInv ==
  /\ mClose => ~up
  /\ iamClose \/ app \in Stopping => mClose

(* A client whose channel is secure hears of a new certificate.            *)
ChannelInv ==
  /\ iamOwner = "serving" /\ ~iamClose /\ ~mReconnect /\ Port = "secure" => "iam" \in certSubscribers
  /\ smOwner \in {"setup", "serving"} => "sm" \in certSubscribers
  /\ ChannelIsCurrent

(* HandleChannel of SMClient has joined its handler before it goes on.     *)
SMInv ==
  /\ app \in Starting => smOwner = "none"
  /\ smOwner \in {"none", "wait", "setup", "retry", "exited"} => ~mStarted["sm"] /\ handler["sm"] = "none"
  /\ smOwner \in {"closing", "join"} => ~mStarted["sm"]
  /\ smOwner = "release" /\ ~mStarted["sm"] => handler["sm"] = "none"
  /\ smOwner = "serving" => mStarted["sm"]
  /\ subscribersOn /\ ~smClose => handler["sm"] \in {"ready"} \union DOMAIN Needs

IInv == RequestInv /\ StatusInv /\ ProvisionedInv /\ ClockInv /\ StopInv /\ ChannelInv /\ SMInv

-----------------------------------------------------------------------------
(* The steps of the node, a class for each part of it.                     *)

ClockStep      == (ClockThread \/ ClockPeriod) /\ UNCHANGED <<clientVars, app>>
OpenStep       == (OpenHandler \/ Sync) /\ UNCHANGED <<clientVars, app>>
LinkStep       == (TransportUp \/ TransportDown) /\ UNCHANGED <<clockVars, clientVars, app>>
IAMHandlerStep == /\ IAMHandler \/ (IAMRequests /\ UNCHANGED <<linkVars, clockVars>>)
                  /\ UNCHANGED <<smVars, app>>
IAMOwnerStep   == (IAMOwner \/ IAMSetupFails) /\ UNCHANGED <<smVars, app>>
SMHandlerStep  == (SMHandler \/ SMRequests) /\ UNCHANGED app
SMOwnerStep    == (SMOwner \/ SMSetupFails) /\ UNCHANGED app
SenderStep     == /\ \/ SendBegins \/ Download \/ OnLogReceived
                     \/ SendImageContentRequest \/ Sent
                  /\ UNCHANGED app
AppStep        == AppStop \/ AppThread

StepOf == \/ ClockStep \/ OpenStep \/ LinkStep \/ IAMHandlerStep \/ IAMOwnerStep
          \/ SMHandlerStep \/ SMOwnerStep \/ SenderStep \/ AppStep

stepVars == <<linkVars, handlerVars, lock, clockVars, clientVars, app>>

(* Every step of the node is a step of one of its parts, or none.          *)
LEMMA NextIsStep == ASSUME [Next]_vars PROVE StepOf \/ UNCHANGED stepVars
<1>1. CASE Clock
  BY <1>1 DEF Clock, ClockStep, StepOf
<1>2. CASE Open \/ Syncs
  BY <1>2 DEF Open, Syncs, OpenStep, StepOf
<1>3. CASE Link
  BY <1>3 DEF Link, LinkStep, StepOf
<1>4. CASE IAMH
  BY <1>4 DEF IAMH, IAMHandlerStep, StepOf
<1>5. CASE IAMO
  BY <1>5 DEF IAMO, IAMOwnerStep, StepOf
<1>6. CASE SMH
  BY <1>6 DEF SMH, SMHandlerStep, StepOf
<1>7. CASE SMO
  BY <1>7 DEF SMO, SMOwnerStep, StepOf
<1>8. CASE Senders
  BY <1>8 DEF Senders, SenderStep, StepOf
<1>9. CASE App \/ (AppStop /\ UNCHANGED events)
  BY <1>9 DEF App, AppStep, StepOf
<1>10. CASE Event
  BY <1>10 DEF Event, ClockStep, LinkStep, IAMHandlerStep, IAMOwnerStep, SMHandlerStep, SMOwnerStep,
     SenderStep, StepOf
<1>11. CASE Stopped \/ UNCHANGED vars
  BY <1>11 DEF Stopped, vars, stepVars
<1> QED
  BY <1>1, <1>2, <1>3, <1>4, <1>5, <1>6, <1>7, <1>8, <1>9, <1>10, <1>11 DEF Next

-----------------------------------------------------------------------------
(* Types.                                                                  *)

(* What Array::Remove leaves was there before.                             *)
LEMMA RemoveFirstKeeps ==
  ASSUME NEW S, NEW s \in Seq(S), NEW c
  PROVE  /\ Sequence!RemoveFirst(s, c) \in Seq(S)
         /\ \A i \in DOMAIN Sequence!RemoveFirst(s, c) :
              \E j \in DOMAIN s : Sequence!RemoveFirst(s, c)[i] = s[j]
<1>1. CASE \E i \in 1..Len(s) : s[i] = c
  <2> DEFINE I == {i \in 1..Len(s) : s[i] = c}
             k == Sequence!SelectInSeq(s, LAMBDA v : v = c)
  <2>1. k \in 1..Len(s)
    <3>1. I \in SUBSET Nat /\ I # {}
      BY <1>1
    <3>2. \E x \in I : \A y \in I : x =< y
      BY <3>1, HasLeast
    <3>3. Sequence!Min(I) \in I
      BY <3>2 DEF Sequence!Min
    <3> QED
      BY <3>1, <3>3 DEF Sequence!SelectInSeq
  <2> HIDE DEF k
  <2>2. Sequence!RemoveFirst(s, c) = SubSeq(s, 1, k - 1) \o SubSeq(s, k + 1, Len(s))
    BY <1>1 DEF Sequence!RemoveFirst, Sequence!RemoveAt, k
  <2> DEFINE a == SubSeq(s, 1, k - 1)
             b == SubSeq(s, k + 1, Len(s))
  <2>3. a \in Seq(S) /\ Len(a) = k - 1 /\ \A i \in 1..(k - 1) : a[i] = s[i]
    BY <2>1
  <2>4. b \in Seq(S) /\ Len(b) = Len(s) - k /\ \A i \in 1..(Len(s) - k) : b[i] = s[k + i]
    BY <2>1
  <2> HIDE DEF a, b
  <2>5. /\ a \o b \in Seq(S) /\ Len(a \o b) = Len(s) - 1
        /\ \A i \in 1..(Len(s) - 1) : (a \o b)[i] = IF i <= Len(a) THEN a[i] ELSE b[i - Len(a)]
    <3>1. a \o b \in Seq(S) /\ Len(a \o b) = Len(a) + Len(b)
      BY <2>3, <2>4
    <3> QED
      BY <2>1, <2>3, <2>4, <3>1
  <2>6. \A i \in 1..(Len(s) - 1) : (a \o b)[i] = IF i < k THEN s[i] ELSE s[i + 1]
    BY <2>1, <2>3, <2>4, <2>5
  <2>7. \A i \in 1..(Len(s) - 1) : \E j \in 1..Len(s) : (a \o b)[i] = s[j]
    <3>1. ASSUME NEW i \in 1..(Len(s) - 1) PROVE \E j \in 1..Len(s) : (a \o b)[i] = s[j]
      <4>1. i \in 1..Len(s) /\ i + 1 \in 1..Len(s)
        BY <2>1
      <4> QED
        BY <4>1, <2>6
    <3> QED
      BY <3>1
  <2>8. DOMAIN (a \o b) = 1..(Len(s) - 1) /\ DOMAIN s = 1..Len(s)
    BY <2>5, <2>1
  <2>9. Sequence!RemoveFirst(s, c) = a \o b
    BY <2>2 DEF a, b
  <2> HIDE DEF I
  <2> QED
    BY <2>5, <2>7, <2>8, <2>9
<1>2. CASE ~ \E i \in 1..Len(s) : s[i] = c
  BY <1>2 DEF Sequence!RemoveFirst
<1> QED
  BY <1>1, <1>2

Points == {"none", "connecting", "retry", "connected", "ready", "setStatus", "statusChanged",
           "certChanged", "answer", "error", "onConnect"} \union DOMAIN Needs

StepTypeOK ==
  /\ up \in BOOLEAN /\ mClose \in BOOLEAN
  /\ handler \in [Handler -> Points]
  /\ mStarted \in [Handler -> BOOLEAN] /\ closed \subseteq Handler
  /\ lock \in [Mutex -> Thread \union {Nobody}]
  /\ ClockSyncTypeOK /\ IAMClientTypeOK /\ SMClientTypeOK
  /\ app \in {"start", "iamStarted", "smStarting", "running", "stopping", "clockStop", "clockJoin", "iamStop",
              "iamClosing", "iamJoin", "iamClose", "iamOwner", "openJoin", "smOwner", "stopped"}

(* The type invariant, with the bound on events apart: every step but that *)
(* bound concerns one class of steps.                                      *)
LEMMA TypeSplits == TypeOK <=> StepTypeOK /\ events \in 0..MaxEvents
BY DEF TypeOK, StepTypeOK, Points

(* A change of the transport keeps the types.                              *)
LEMMA LinkTypes == ASSUME StepTypeOK, LinkStep PROVE StepTypeOK'
<1>1. UNCHANGED <<handler, mStarted, lock, clockVars, clientVars, app>>
  BY DEF LinkStep, TransportUp, TransportDown, handlerVars
<1>2. (up \in BOOLEAN)' /\ (mClose \in BOOLEAN)' /\ (closed \subseteq Handler)'
  BY DEF LinkStep, TransportUp, TransportDown, handlerVars, StepTypeOK, Running
<1> QED
  BY <1>1, <1>2 DEF StepTypeOK, clockVars, clientVars, nodeVars, iamVars, certVars, toldVars, smVars,
     ClockSyncTypeOK, IAMClientTypeOK, SMClientTypeOK

(* So does a step of ClockSync.                                            *)
LEMMA ClockTypes == ASSUME StepTypeOK, ClockStep PROVE StepTypeOK'
<1> USE DEF Client, Handler, Mutex, Thread, Nobody
<1>1. UNCHANGED <<linkVars, handlerVars, clientVars, app>>
  BY DEF ClockStep, ClockThread, ClockPeriod
<1>2. ClockSyncTypeOK' /\ (lock \in [Mutex -> Thread \union {Nobody}])'
  <2> USE DEF ClockGoes, Take, Leave, StepTypeOK, ClockSyncTypeOK
  <2>1. CASE ClockExits
    BY <2>1 DEF ClockExits
  <2>2. CASE TakesSync
    BY <2>2 DEF TakesSync, ClockWakes, Starts, ClockSyncNotification
  <2>7. CASE SyncTimeout
    BY <2>7 DEF SyncTimeout, ClockWakes, Starts, ClockSyncNotification
  <2>3. CASE WakesToSend
    BY <2>3 DEF WakesToSend, ClockWakes, Starts
  <2>4. CASE NotifySubscriber
    BY <2>4, HeadTailProperties DEF NotifySubscriber
  <2>5. CASE Notified
    BY <2>5 DEF Notified
  <2>6. CASE SendClockSyncRequest
    BY <2>6 DEF SendClockSyncRequest
  <2> QED
    BY <2>1, <2>2, <2>3, <2>4, <2>5, <2>6, <2>7 DEF ClockStep, ClockThread, ClockPeriod
<1> QED
  BY <1>1, <1>2 DEF StepTypeOK, linkVars, handlerVars, clientVars, nodeVars, iamVars, certVars,
     toldVars, smVars, IAMClientTypeOK, SMClientTypeOK

(* What a handler does while it connects and when it is disconnected; the  *)
(* other handlers are left alone.                                          *)
LEMMA ConnectionSteps ==
  ASSUME StepTypeOK, NEW h \in Handler,
         Connect(h) \/ ConnectFails(h) \/ Reconnect(h) \/ Disconnect(h)
  PROVE  /\ handler' \in [Handler -> Points] /\ closed' \subseteq Handler
         /\ UNCHANGED <<mStarted, linkVars, lock>>
         /\ \A g \in Handler \ {h} : handler'[g] = handler[g]
         /\ handler[h] \in {"connecting", "retry", "ready"}
         /\ handler'[h] \in {"none", "connecting", "retry", "connected"}
         /\ handler'[h] = "none" => ~mStarted[h]
<1>1. \A p \in {"none", "connecting", "retry", "connected", "ready"} : p \in Points
  BY DEF Points
<1>2. handler \in [Handler -> Points] /\ closed \subseteq Handler /\ mStarted[h] \in BOOLEAN
  BY DEF StepTypeOK
<1>3. CASE Connect(h)
  BY <1>1, <1>2, <1>3 DEF Connect, Goes
<1>4. CASE ConnectFails(h)
  BY <1>1, <1>2, <1>4 DEF ConnectFails, Goes
<1>5. CASE Reconnect(h)
  BY <1>1, <1>2, <1>5 DEF Reconnect, Goes
<1>6. CASE Disconnect(h)
  BY <1>1, <1>2, <1>6 DEF Disconnect, Goes, AfterRun
<1> QED
  BY <1>3, <1>4, <1>5, <1>6

(* The types of the handlers and mutexes, which every class of steps uses. *)
HandlerTypeOK ==
  /\ handler \in [Handler -> Points]
  /\ mStarted \in [Handler -> BOOLEAN] /\ closed \subseteq Handler
  /\ lock \in [Mutex -> Thread \union {Nobody}]

(* A handler that goes to another point moves no other handler.            *)
LEMMA HandlerMoves ==
  ASSUME HandlerTypeOK, NEW h \in Handler, NEW from, NEW to \in Points, Goes(h, from, to)
  PROVE  /\ handler' \in [Handler -> Points] /\ handler[h] = from /\ handler'[h] = to
         /\ \A g \in Handler \ {h} : handler'[g] = handler[g]
BY DEF HandlerTypeOK, Goes

(* Taking or leaving mutexes changes no other one.                         *)
LEMMA MutexMoves ==
  ASSUME HandlerTypeOK, NEW M, NEW t \in Thread \union {Nobody}, Take(M, t)
  PROVE  /\ lock' \in [Mutex -> Thread \union {Nobody}]
         /\ \A m \in Mutex : lock'[m] = IF m \in M THEN t ELSE lock[m]
BY DEF HandlerTypeOK, Take

(* A step of the open handler keeps the types.                             *)
LEMMA OpenTypes == ASSUME StepTypeOK, OpenStep PROVE StepTypeOK'
<1> USE DEF StepTypeOK, clockVars, clientVars, nodeVars, iamVars, certVars, toldVars, smVars,
        linkVars, handlerVars, ClockSyncTypeOK, IAMClientTypeOK, SMClientTypeOK
<1>1. CASE /\ Connect("open") \/ ConnectFails("open") \/ Reconnect("open") \/ Disconnect("open")
           /\ UNCHANGED <<clockVars, clientVars, app>>
  BY <1>1, ConnectionSteps DEF Handler
<1>2. CASE OpenOnConnect /\ UNCHANGED <<clientVars, app>>
  <2>1. handler' \in [Handler -> Points]
    BY <1>2, HandlerMoves DEF OpenOnConnect, HandlerTypeOK, Points, Handler
  <2> QED
    BY <1>2, <2>1 DEF OpenOnConnect
<1>3. CASE Sync /\ UNCHANGED <<clientVars, app>>
  BY <1>3 DEF Sync
<1> QED
  BY <1>1, <1>2, <1>3 DEF OpenStep, OpenHandler

(* What no step of the handler of IAMClient changes.                       *)
iamOthers == <<linkVars, clockVars, smVars, app, mStarted, mStatusChangedSubscribers, iamClose,
               iamOwner, mCurrentPort, certSubscribers>>

(* The actions of the handler of IAMClient.                                *)
LEMMA IAMHandlerCases ==
  ASSUME IAMHandlerStep
  PROVE  \/ (IAMConnects \/ IAMDisconnect \/ IAMOnConnect) /\ UNCHANGED request
         \/ StoreFails \/ SetNodeStatus \/ NotifyFails
         \/ OnNodeStatusChanged \/ OnCertChanged \/ Answer
         \/ \E r \in Request : Refuse(r)
         \/ \E r \in DOMAIN Target : ReceiveChange(r)
         \/ \E r \in DOMAIN Applies : ApplyCert(r)
         \/ \E r \in Request \ (DOMAIN Target \union DOMAIN Applies) : ReceiveOther(r)
BY DEF IAMHandlerStep, IAMHandler, IAMRequests

(* A step of the handler of IAMClient leaves the other components alone.   *)
LEMMA IAMHandlerFrame ==
  ASSUME StepTypeOK, IAMHandlerStep
  PROVE  UNCHANGED iamOthers
<1> USE DEF iamOthers, nodeVars, iamVars, certVars, toldVars, handlerVars
<1>1. UNCHANGED <<linkVars, clockVars, smVars, app>>
  BY DEF IAMHandlerStep, IAMHandler, IAMConnects, Connect, ConnectFails, Reconnect, IAMDisconnect, Disconnect, IAMOnConnect
<1>2. UNCHANGED <<mStarted, mStatusChangedSubscribers, iamClose, iamOwner, mCurrentPort, certSubscribers>>
  <2> USE DEF Proceed, Return
  <2>1. CASE IAMConnects \/ IAMDisconnect \/ IAMOnConnect
    BY <2>1 DEF IAMConnects, IAMDisconnect, Connect, ConnectFails, Reconnect, Disconnect, IAMOnConnect
  <2>2. CASE StoreFails \/ OnNodeStatusChanged \/ OnCertChanged \/ Answer
    BY <2>2 DEF StoreFails, OnNodeStatusChanged, OnCertChanged, Answer
  <2>3. CASE SetNodeStatus \/ NotifyFails
    BY <2>3 DEF SetNodeStatus, NotifyFails, StoreNodeStatus
  <2>4. CASE \E r \in Request : Refuse(r)
    BY <2>4 DEF Refuse
  <2>5. CASE \E r \in DOMAIN Target : ReceiveChange(r)
    BY <2>5 DEF ReceiveChange
  <2>6. CASE \E r \in DOMAIN Applies : ApplyCert(r)
    BY <2>6 DEF ApplyCert
  <2>7. CASE \E r \in Request \ (DOMAIN Target \union DOMAIN Applies) : ReceiveOther(r)
    BY <2>7 DEF ReceiveOther
  <2> QED
    BY <2>1, <2>2, <2>3, <2>4, <2>5, <2>6, <2>7, IAMHandlerCases
<1> QED
  BY <1>1, <1>2

(* The requests and their kinds.                                           *)
LEMMA Requests ==
  /\ Request = {"start", "finish", "deprovision", "pause", "resume", "createKey", "applyIAM", "applySM"}
  /\ DOMAIN Target = {"finish", "deprovision", "pause", "resume"}
  /\ DOMAIN Applies = {"applyIAM", "applySM"}
  /\ Working \subseteq Points
BY DEF Request, Expected, Target, Applies, Working, Points

(* How a request goes on.                                                  *)
LEMMA ProceedSteps ==
  ASSUME HandlerTypeOK, NEW r, NEW to \in Points, NEW M, Proceed(r, to, M)
  PROVE  /\ handler' \in [Handler -> Points] /\ handler'["iam"] = to
         /\ \A g \in Handler \ {"iam"} : handler'[g] = handler[g]
         /\ request' = r /\ UNCHANGED <<mStarted, closed>>
         /\ lock' \in [Mutex -> Thread \union {Nobody}]
         /\ \A m \in Mutex : lock'[m] = IF m \in M THEN "iam" ELSE lock[m]
BY DEF Proceed, HandlerTypeOK, Take, Handler, Thread

(* Return leaves the mutex of NodeInfoProvider and goes on with the        *)
(* request.                                                                *)
LEMMA ReturnSteps ==
  ASSUME HandlerTypeOK, NEW to \in Points, Return(to)
  PROVE  /\ handler' \in [Handler -> Points] /\ handler'["iam"] = to
         /\ \A g \in Handler \ {"iam"} : handler'[g] = handler[g]
         /\ UNCHANGED <<mStarted, closed, request>>
         /\ lock' \in [Mutex -> Thread \union {Nobody}]
         /\ \A m \in Mutex : lock'[m] = IF m = "node" THEN Nobody ELSE lock[m]
BY DEF Return, Goes, HandlerTypeOK, Leave, Take, Handler, Thread, Nobody

(* The types of handlers and mutexes are part of all types.                *)
LEMMA HandlerTypes == StepTypeOK => HandlerTypeOK
BY DEF StepTypeOK, HandlerTypeOK

(* The types of what the handler of IAMClient changes.                     *)
RequestTypeOK ==
  /\ HandlerTypeOK
  /\ request \in Request \union {NoRequest}
  /\ status \in Status /\ iamStatus \in Status /\ mReconnect \in BOOLEAN
  /\ stale \subseteq Client /\ mProvisioned \in BOOLEAN /\ mCertificateChanged \in BOOLEAN

(* The handler of IAMClient keeps the types of what it changes.            *)
LEMMA RequestTypes == ASSUME StepTypeOK, IAMHandlerStep PROVE RequestTypeOK'
<1> USE DEF RequestTypeOK, nodeVars, iamVars, certVars, toldVars
<1>1. RequestTypeOK /\ HandlerTypeOK
  BY HandlerTypes DEF StepTypeOK, IAMClientTypeOK
<1>2. \A p \in Working \union {"ready"} : p \in Points
  BY Requests DEF Points
<1>3. Working = {"setStatus", "statusChanged", "certChanged", "answer", "error"} /\ "iam" \in Handler
  BY DEF Working, Handler
<1>4. CASE (IAMConnects \/ IAMDisconnect) /\ UNCHANGED request
  BY <1>1, <1>3, <1>4, ConnectionSteps DEF IAMConnects, IAMDisconnect, HandlerTypeOK
<1>5. CASE IAMOnConnect /\ UNCHANGED request
  BY <1>1, <1>2, <1>3, <1>5, HandlerMoves DEF IAMOnConnect, HandlerTypeOK
<1>6. CASE StoreFails
  BY <1>1, <1>2, <1>3, <1>6, ReturnSteps DEF StoreFails, HandlerTypeOK
<1>7. ASSUME NEW s \in Status, StoreNodeStatus(s)
      PROVE  /\ status' \in Status /\ iamStatus' \in Status /\ mReconnect' \in BOOLEAN
             /\ UNCHANGED <<certVars, toldVars>>
  BY <1>1, <1>7 DEF StoreNodeStatus, ChangesProvisioning
<1>8. CASE SetNodeStatus
  <2>1. PICK s \in Status : /\ StoreNodeStatus(s)
                            /\ Proceed(request, "statusChanged", {"node"}) \/ Return("answer")
    BY <1>8 DEF SetNodeStatus
  <2>2. HandlerTypeOK' /\ request' = request
    BY <1>1, <1>2, <1>3, <2>1, ProceedSteps, ReturnSteps DEF HandlerTypeOK
  <2> QED
    BY <1>1, <1>7, <2>1, <2>2
<1>9. CASE NotifyFails
  <2>1. PICK s \in Status : StoreNodeStatus(s) /\ Return("error")
    BY <1>9 DEF NotifyFails
  <2>2. HandlerTypeOK' /\ request' = request
    BY <1>1, <1>2, <1>3, <2>1, ReturnSteps DEF HandlerTypeOK
  <2> QED
    BY <1>1, <1>7, <2>1, <2>2
<1>10. CASE OnNodeStatusChanged
  BY <1>1, <1>2, <1>3, <1>10, ReturnSteps DEF OnNodeStatusChanged, HandlerTypeOK
<1>11. CASE OnCertChanged
  BY <1>1, <1>2, <1>3, <1>11, ReturnSteps DEF OnCertChanged, HandlerTypeOK
<1>12. CASE Answer
  BY <1>1, <1>2, <1>3, <1>12, HandlerMoves, MutexMoves
     DEF Answer, Leave, HandlerTypeOK, Nobody
<1>13. ASSUME NEW r \in Request, NEW to \in {"error", "setStatus", "answer", "certChanged"},
              Proceed(r, to, {"iam"})
       PROVE  HandlerTypeOK' /\ request' \in Request
  <2>1. to \in Points
    BY <1>2, <1>3, <1>13
  <2>2. /\ handler' \in [Handler -> Points] /\ UNCHANGED <<mStarted, closed>> /\ request' = r
        /\ lock' \in [Mutex -> Thread \union {Nobody}]
    BY <1>1, <1>13, <2>1, ProceedSteps
  <2> QED
    BY <1>1, <2>2 DEF HandlerTypeOK
<1>14. CASE \E r \in Request : Refuse(r)
  BY <1>1, <1>13, <1>14 DEF Refuse
<1>15. CASE \E r \in DOMAIN Target : ReceiveChange(r)
  BY <1>1, <1>13, <1>15, Requests DEF ReceiveChange
<1>16. CASE \E r \in DOMAIN Applies : ApplyCert(r)
  <2>1. PICK r \in DOMAIN Applies : ApplyCert(r)
    BY <1>16
  <2>2. Applies[r] \in Client /\ r \in Request
    BY Requests DEF Applies, Client
  <2> QED
    BY <1>1, <1>13, <2>1, <2>2 DEF ApplyCert
<1>17. CASE \E r \in Request \ (DOMAIN Target \union DOMAIN Applies) : ReceiveOther(r)
  BY <1>1, <1>13, <1>17 DEF ReceiveOther
<1> QED
  BY <1>4, <1>5, <1>6, <1>8, <1>9, <1>10, <1>11, <1>12, <1>14, <1>15, <1>16, <1>17, IAMHandlerCases

(* So it keeps all types.                                                  *)
LEMMA IAMHandlerTypes == ASSUME StepTypeOK, IAMHandlerStep PROVE StepTypeOK'
BY RequestTypes, IAMHandlerFrame DEF RequestTypeOK, HandlerTypeOK, iamOthers, StepTypeOK, linkVars,
   clockVars, smVars, ClockSyncTypeOK, IAMClientTypeOK, SMClientTypeOK

(* What the owner of a handler does to it; the others are left alone.      *)
LEMMA OwnerSteps ==
  ASSUME HandlerTypeOK, NEW h \in Handler, HandlerStart(h) \/ HandlerStop(h) \/ HandlerClose(h)
  PROVE  /\ handler' \in [Handler -> Points] /\ mStarted' \in [Handler -> BOOLEAN] /\ closed' \subseteq Handler
         /\ \A g \in Handler \ {h} : handler'[g] = handler[g] /\ mStarted'[g] = mStarted[g]
         /\ HandlerStart(h) => handler'[h] = "connecting" /\ mStarted'[h]
         /\ ~HandlerStart(h) => handler' = handler
         /\ HandlerStop(h) => ~mStarted'[h]
         /\ HandlerClose(h) => mStarted' = mStarted
<1>1. "connecting" \in Points
  BY DEF Points
<1>2. CASE HandlerStart(h)
  BY <1>1, <1>2 DEF HandlerStart, HandlerTypeOK, HandlerStop, HandlerClose
<1>3. CASE HandlerStop(h) /\ ~HandlerStart(h)
  BY <1>3 DEF HandlerTypeOK, HandlerStop, HandlerClose
<1>4. CASE HandlerClose(h) /\ ~HandlerStart(h)
  BY <1>4 DEF HandlerTypeOK, HandlerStop, HandlerClose
<1> QED
  BY <1>2, <1>3, <1>4

(* What no step of HandleChannels changes.                                 *)
iamOwnerOthers == <<linkVars, clockVars, nodeVars, request, toldVars, smVars, app, lock, iamStatus, iamClose>>

(* The steps of HandleChannels, one by one.                                *)
LEMMA IAMOwnerCases ==
  ASSUME IAMOwnerStep
  PROVE  \/ IAMRelease \/ IAMClosesChannel \/ IAMJoins \/ IAMExits
         \/ IAMSetupChannel \/ IAMRetries \/ IAMReconnects \/ IAMSetupFails
BY DEF IAMOwnerStep, IAMOwner

(* None of them changes what belongs to the other components.              *)
LEMMA IAMOwnerFrame == ASSUME IAMOwnerStep PROVE UNCHANGED iamOwnerOthers
<1> USE DEF iamOwnerOthers
<1>1. UNCHANGED <<linkVars, clockVars, nodeVars, request, toldVars, smVars, app>>
  BY DEF IAMOwnerStep, IAMOwner, IAMSetupFails
<1>2. UNCHANGED <<lock, iamStatus, iamClose>>
  BY IAMOwnerCases DEF IAMRelease, IAMClosesChannel, IAMJoins, IAMExits, IAMSetupChannel, IAMRetries,
     IAMReconnects, IAMSetupFails
<1> QED
  BY <1>1, <1>2

(* They keep the types.                                                    *)
LEMMA IAMOwnerTypes == ASSUME StepTypeOK, IAMOwnerStep PROVE StepTypeOK'
<1> DEFINE Owners == {"none", "release", "closing", "join", "wait", "serving", "retry", "exited"}
           OType == /\ iamOwner \in Owners /\ mReconnect \in BOOLEAN /\ mCurrentPort \in Ports
                    /\ certSubscribers \subseteq Client /\ stale \subseteq Client /\ HandlerTypeOK
<1>1. OType /\ HandlerTypeOK /\ "iam" \in Handler /\ "iam" \in Client /\ Port \in Ports
  BY HandlerTypes DEF StepTypeOK, IAMClientTypeOK, Handler, Client, Port, Ports
<1>2. UNCHANGED handlerVars /\ UNCHANGED lock => HandlerTypeOK'
  BY <1>1 DEF handlerVars, HandlerTypeOK
<1>3. (HandlerStart("iam") \/ HandlerStop("iam") \/ HandlerClose("iam")) /\ UNCHANGED lock => HandlerTypeOK'
  BY <1>1, OwnerSteps DEF HandlerTypeOK
<1>4. OType'
  <2> USE DEF IAMOwnerGoes, certVars
  <2>1. CASE IAMRelease
    BY <1>1, <1>2, <1>3, <2>1 DEF IAMRelease
  <2>2. CASE IAMClosesChannel
    BY <1>1, <1>3, <2>2 DEF IAMClosesChannel
  <2>3. CASE IAMJoins
    BY <1>1, <1>2, <2>3 DEF IAMJoins
  <2>4. CASE IAMExits
    BY <1>1, <1>2, <2>4 DEF IAMExits
  <2>5. CASE IAMSetupChannel
    BY <1>1, <1>3, <2>5 DEF IAMSetupChannel
  <2>6. CASE IAMSetupFails
    BY <1>1, <1>2, <2>6 DEF IAMSetupFails
  <2>7. CASE IAMRetries
    BY <1>1, <1>2, <2>7 DEF IAMRetries
  <2>8. CASE IAMReconnects
    BY <1>1, <1>2, <2>8 DEF IAMReconnects
  <2> QED
    BY <2>1, <2>2, <2>3, <2>4, <2>5, <2>6, <2>7, <2>8, IAMOwnerCases
<1> QED
  BY <1>4, IAMOwnerFrame DEF iamOwnerOthers, StepTypeOK, HandlerTypeOK, linkVars, clockVars, nodeVars,
     toldVars, smVars, ClockSyncTypeOK, IAMClientTypeOK, SMClientTypeOK

-----------------------------------------------------------------------------
(* The steps of SMClient, its handler, HandleChannel and the senders.      *)

SMStep == SMHandlerStep \/ SMOwnerStep \/ SenderStep

(* What none of them changes.                                              *)
smOthers == <<linkVars, clockVars, nodeVars, iamVars, request, mProvisioned, smClose, app>>

(* What no step of SMClient changes.                                       *)
LEMMA SMFrame == ASSUME SMStep PROVE UNCHANGED smOthers
<1> USE DEF smOthers, smVars, toldVars
<1>1. CASE SMHandlerStep
  <2>1. UNCHANGED <<clockVars, nodeVars, iamVars, request, mProvisioned, smClose, app>>
    BY <1>1 DEF SMHandlerStep, SMHandler, SMRequests
  <2>2. UNCHANGED linkVars
    BY <1>1 DEF SMHandlerStep, SMHandler, SMRequests, SMConnects, Connect, ConnectFails, Reconnect, OnConnect,
       OnConnected, SMLocks, SMReady, OnDisconnect, Disconnect, Process, ReceiveMessage
  <2> QED
    BY <2>1, <2>2
<1>2. CASE SMOwnerStep
  BY <1>2 DEF SMOwnerStep, SMOwner, SMOwnerMoves, SMRelease, SMClosesChannel, SMJoins, SMExits, SMSetsUp,
     SetTLSConfig, SMRetries, SMReleases, SMSetupFails
<1>3. CASE SenderStep
  BY <1>3 DEF SenderStep, SenderMoves, SendBegins, Download, OnLogReceived, SendImageContentRequest, Sent
<1> QED
  BY <1>1, <1>2, <1>3 DEF SMStep

(* The mutexes that SMClient never takes.                                  *)
Foreign == {"clock", "node", "iam"}

(* The handler of SMClient: it moves no other handler, and takes none of   *)
(* the mutexes of the other components.                                    *)
LEMMA SMHandlerSteps ==
  ASSUME StepTypeOK, SMHandlerStep
  PROVE  /\ HandlerTypeOK' /\ subscribersOn' \in BOOLEAN
         /\ UNCHANGED <<mStarted, certVars, mCertificateChanged, smOwner, sender>>
         /\ \A g \in Handler \ {"sm"} : handler'[g] = handler[g]
         /\ \A m \in Foreign : lock'[m] = lock[m]
<1>1. HandlerTypeOK /\ "sm" \in Handler /\ subscribersOn \in BOOLEAN /\ smClose \in BOOLEAN
  BY HandlerTypes DEF StepTypeOK, SMClientTypeOK, Handler
<1>2. \A p \in DOMAIN Needs \union {"ready", "onConnect"} : p \in Points
  BY DEF Points
<1>3. "sm" \in Thread \union {Nobody} /\ Nobody \in Thread \union {Nobody} /\ Foreign \subseteq Mutex
  BY DEF Thread, Foreign, Mutex
<1>4. UNCHANGED <<certVars, mCertificateChanged, smOwner, sender>>
  BY DEF SMHandlerStep, SMHandler, SMRequests, toldVars
<1>5. ASSUME NEW to \in Points, NEW from, SMLocks(from, to)
      PROVE  /\ HandlerTypeOK' /\ subscribersOn' \in BOOLEAN /\ UNCHANGED mStarted
             /\ \A g \in Handler \ {"sm"} : handler'[g] = handler[g]
             /\ \A m \in Foreign : lock'[m] = lock[m]
  <2>1. Goes("sm", from, to) /\ Take({"sm"}, "sm") /\ UNCHANGED <<mStarted, closed, subscribersOn>>
    BY <1>5 DEF SMLocks
  <2>2. /\ handler' \in [Handler -> Points]
        /\ \A g \in Handler \ {"sm"} : handler'[g] = handler[g]
    BY <1>1, <2>1, HandlerMoves
  <2>3. lock' \in [Mutex -> Thread \union {Nobody}] /\ \A m \in Mutex : m # "sm" => lock'[m] = lock[m]
    BY <1>1, <1>3, <2>1, MutexMoves
  <2> QED
    BY <1>1, <1>3, <2>1, <2>2, <2>3 DEF HandlerTypeOK, Foreign
<1>6. ASSUME NEW from, SMReady(from)
      PROVE  /\ HandlerTypeOK' /\ UNCHANGED mStarted
             /\ \A g \in Handler \ {"sm"} : handler'[g] = handler[g]
             /\ \A m \in Foreign : lock'[m] = lock[m]
  <2>1. Goes("sm", from, "ready") /\ Take({"sm"}, Nobody) /\ UNCHANGED <<mStarted, closed>>
    BY <1>6 DEF SMReady, Leave
  <2>2. /\ handler' \in [Handler -> Points]
        /\ \A g \in Handler \ {"sm"} : handler'[g] = handler[g]
    BY <1>1, <1>2, <2>1, HandlerMoves
  <2>3. lock' \in [Mutex -> Thread \union {Nobody}] /\ \A m \in Mutex : m # "sm" => lock'[m] = lock[m]
    BY <1>1, <1>3, <2>1, MutexMoves
  <2> QED
    BY <1>1, <1>3, <2>1, <2>2, <2>3 DEF HandlerTypeOK, Foreign
<1>7. CASE SMConnects \/ OnDisconnect
  <2>1. Connect("sm") \/ ConnectFails("sm") \/ Reconnect("sm") \/ Disconnect("sm")
    BY <1>7 DEF SMConnects, OnDisconnect
  <2>2. subscribersOn' \in BOOLEAN
    BY <1>1, <1>7 DEF SMConnects, OnDisconnect
  <2> QED
    BY <1>1, <1>4, <2>1, <2>2, ConnectionSteps DEF HandlerTypeOK
<1>8. CASE OnConnect
  BY <1>2, <1>4, <1>5, <1>8 DEF OnConnect
<1>9. CASE OnConnected
  <2>1. subscribersOn' \in BOOLEAN /\ SMReady("onConnect")
    BY <1>1, <1>9 DEF OnConnected
  <2> QED
    BY <1>4, <1>6, <2>1
<1>10. CASE \E m \in DOMAIN Needs : Process(m)
  BY <1>1, <1>4, <1>6, <1>10 DEF Process
<1>11. CASE \E m \in DOMAIN Needs : ReceiveMessage(m)
  BY <1>2, <1>4, <1>5, <1>11 DEF ReceiveMessage
<1> QED
  BY <1>7, <1>8, <1>9, <1>10, <1>11 DEF SMHandlerStep, SMHandler, SMRequests

(* HandleChannel of SMClient: the same, and it changes only its own        *)
(* subscription to certificates.                                           *)
LEMMA SMOwnerSteps ==
  ASSUME StepTypeOK, SMOwnerStep
  PROVE  /\ HandlerTypeOK' /\ SMClientTypeOK'
         /\ (mCertificateChanged \in BOOLEAN)' /\ (certSubscribers \subseteq Client)' /\ (stale \subseteq Client)'
         /\ \A g \in Handler \ {"sm"} : handler'[g] = handler[g] /\ mStarted'[g] = mStarted[g]
         /\ \A m \in Foreign : lock'[m] = lock[m]
         /\ "iam" \in certSubscribers' <=> "iam" \in certSubscribers
         /\ "iam" \in stale' <=> "iam" \in stale
<1>1. HandlerTypeOK /\ "sm" \in Handler /\ "sm" \in Client
  BY HandlerTypes DEF StepTypeOK, Handler, Client
<1>2. SMClientTypeOK /\ mCertificateChanged \in BOOLEAN /\ certSubscribers \subseteq Client /\ stale \subseteq Client
  BY DEF StepTypeOK, IAMClientTypeOK
<1>3. "setup" \in Thread /\ Nobody \in Thread \union {Nobody} /\ Foreign \subseteq Mutex
  BY DEF Thread, Foreign, Mutex
<1>4. ASSUME NEW t \in Thread \union {Nobody}, Take({"sm"}, t)
      PROVE  lock' \in [Mutex -> Thread \union {Nobody}] /\ \A m \in Foreign : lock'[m] = lock[m]
  BY <1>1, <1>3, <1>4, MutexMoves DEF Foreign
<1>5. ASSUME HandlerStart("sm") \/ HandlerStop("sm") \/ HandlerClose("sm")
      PROVE  /\ handler' \in [Handler -> Points] /\ mStarted' \in [Handler -> BOOLEAN] /\ closed' \subseteq Handler
             /\ \A g \in Handler \ {"sm"} : handler'[g] = handler[g] /\ mStarted'[g] = mStarted[g]
  BY <1>1, <1>5, OwnerSteps
<1> USE DEF SMOwnerMoves, SMClientTypeOK, certVars, handlerVars, HandlerTypeOK
<1>6. CASE SMRelease \/ SMClosesChannel
  BY <1>1, <1>2, <1>3, <1>5, <1>6 DEF SMRelease, SMClosesChannel
<1>7. CASE SMJoins \/ SMExits \/ SMRetries \/ SMReleases
  BY <1>1, <1>2, <1>3, <1>7 DEF SMJoins, SMExits, SMRetries, SMReleases
<1>8. CASE SMSetsUp
  BY <1>1, <1>2, <1>3, <1>4, <1>8 DEF SMSetsUp
<1>9. CASE SetTLSConfig
  BY <1>1, <1>2, <1>3, <1>4, <1>5, <1>9 DEF SetTLSConfig, Leave
<1>10. CASE SMSetupFails
  BY <1>1, <1>2, <1>3, <1>4, <1>10 DEF SMSetupFails, Leave
<1> QED
  BY <1>6, <1>7, <1>8, <1>9, <1>10 DEF SMOwnerStep, SMOwner

(* The senders move no handler, and leave the mutexes that others hold     *)
(* alone.                                                                  *)
LEMMA SenderSteps ==
  ASSUME StepTypeOK, SenderStep
  PROVE  /\ lock' \in [Mutex -> Thread \union {Nobody}]
         /\ sender' \in {"idle", "downloading", "sending"}
         /\ UNCHANGED <<handlerVars, certVars, mCertificateChanged, smOwner, subscribersOn>>
         /\ \A m \in Foreign : lock[m] # "sender" => lock'[m] = lock[m]
<1>1. HandlerTypeOK /\ Foreign \subseteq Mutex /\ "sender" \in Thread
  BY HandlerTypes DEF Foreign, Mutex, Thread
<1>2. /\ sender' \in {"idle", "downloading", "sending"}
      /\ UNCHANGED <<handlerVars, certVars, mCertificateChanged, smOwner, subscribersOn>>
  BY DEF SenderStep, SendBegins, Download, OnLogReceived, SendImageContentRequest, Sent, SenderMoves, toldVars
<1>3. CASE Take({"sm"}, "sender") \/ Take({"download"}, "sender") \/ Take({"log"}, "sender")
  BY <1>1, <1>2, <1>3, MutexMoves DEF Foreign
<1>4. CASE Leave({m \in Mutex : lock[m] = "sender"})
  <2>1. \A m \in Mutex : lock'[m] = IF m \in {n \in Mutex : lock[n] = "sender"} THEN Nobody ELSE lock[m]
    BY <1>1, <1>4, MutexMoves DEF Leave
  <2>2. lock' \in [Mutex -> Thread \union {Nobody}]
    BY <1>1, <1>4, MutexMoves DEF Leave
  <2> QED
    BY <1>1, <1>2, <2>1, <2>2
<1> QED
  BY <1>3, <1>4 DEF SenderStep, SendBegins, Download, OnLogReceived, SendImageContentRequest, Sent

(* The steps of SMClient keep the types.                                   *)
LEMMA SMTypes == ASSUME StepTypeOK, SMStep PROVE StepTypeOK'
<1> USE SMFrame DEF smOthers, StepTypeOK, HandlerTypeOK, linkVars, clockVars, nodeVars, iamVars, certVars,
        ClockSyncTypeOK, IAMClientTypeOK, SMClientTypeOK
<1>1. CASE SMHandlerStep
  BY <1>1, SMHandlerSteps
<1>2. CASE SMOwnerStep
  BY <1>2, SMOwnerSteps
<1>3. CASE SenderStep
  BY <1>3, SenderSteps DEF handlerVars
<1> QED
  BY <1>1, <1>2, <1>3 DEF SMStep

-----------------------------------------------------------------------------
(* The steps of App.                                                       *)

(* The steps of App keep the types.                                        *)
LEMMA AppTypes == ASSUME StepTypeOK, AppStep PROVE StepTypeOK'
<1>1. HandlerTypeOK /\ "open" \in Handler /\ "iam" \in Client /\ "sm" \in Client /\ Handler # {}
  BY HandlerTypes DEF StepTypeOK, Handler, Client
<1>2. \A c \in Client : Append(mConnectionSubscribers, c) \in Seq(Client)
  BY DEF StepTypeOK, ClockSyncTypeOK
<1>3. \A c : Sequence!RemoveFirst(mConnectionSubscribers, c) \in Seq(Client)
  <2> SUFFICES ASSUME NEW c PROVE Sequence!RemoveFirst(mConnectionSubscribers, c) \in Seq(Client)
    OBVIOUS
  <2>1. mConnectionSubscribers \in Seq(Client)
    BY DEF StepTypeOK, ClockSyncTypeOK
  <2> QED
    BY <2>1, RemoveFirstKeeps
<1> USE DEF linkVars, handlerVars, clockVars, nodeVars, iamVars, certVars, toldVars, smVars, clientVars,
        ClockSyncTypeOK, IAMClientTypeOK, SMClientTypeOK, StepTypeOK, AppGoes
<1>4. CASE IAMStart
  BY <1>1, <1>2, <1>4 DEF IAMStart, ClockSyncSubscribe, SubscribeNodeStatusChanged
<1>5. CASE SMReadsStatus
  BY <1>5 DEF SMReadsStatus
<1>6. CASE SMStart
  <2>1. /\ handler' \in [Handler -> Points] /\ mStarted' \in [Handler -> BOOLEAN] /\ closed' \subseteq Handler
    BY <1>1, <1>6, OwnerSteps DEF SMStart
  <2> QED
    BY <1>1, <1>2, <1>6, <2>1 DEF SMStart, ClockSyncSubscribe, SubscribeNodeStatusChanged
<1>7. CASE AppStop \/ StopsLogs \/ JoinsIAMHandler \/ AppStopped
  BY <1>7 DEF AppStop, StopsLogs, JoinsIAMHandler, AppStopped
<1>8. CASE StopsClock
  BY <1>8 DEF StopsClock, ClockSyncStop
<1>9. CASE StopsChannels
  <2>1. /\ up' \in BOOLEAN /\ mClose' \in BOOLEAN /\ closed' \subseteq Handler
        /\ UNCHANGED <<handler, mStarted, lock>>
    BY <1>9 DEF StopsChannels, ChannelManagerStop, Running
  <2> QED
    BY <1>9, <2>1 DEF StopsChannels
<1>10. CASE StopsIAMHandler
  <2>1. /\ mStarted' \in [Handler -> BOOLEAN] /\ UNCHANGED <<handler, closed>>
        /\ app' \in {"iamClosing", "iamClose"}
    BY <1>10 DEF StopsIAMHandler, HandlerStop
  <2> QED
    BY <1>10, <2>1 DEF StopsIAMHandler
<1>14. CASE ClosesIAMChannel
  <2>1. closed' \subseteq Handler /\ UNCHANGED <<handler, mStarted>>
    BY <1>14 DEF ClosesIAMChannel, HandlerClose, Handler
  <2> QED
    BY <1>14, <2>1 DEF ClosesIAMChannel
<1>11. CASE ClosesIAM
  BY <1>3, <1>11 DEF ClosesIAM, ClockSyncUnsubscribe, UnsubscribeNodeStatusChanged
<1>12. CASE StopsOpenHandler
  <2>1. /\ handler' \in [Handler -> Points] /\ mStarted' \in [Handler -> BOOLEAN] /\ closed' \subseteq Handler
    BY <1>1, <1>12, OwnerSteps DEF StopsOpenHandler
  <2> QED
    BY <1>12, <2>1 DEF StopsOpenHandler
<1>13. CASE ClosesSM
  BY <1>13 DEF ClosesSM
<1> QED
  BY <1>4, <1>5, <1>6, <1>7, <1>8, <1>9, <1>10, <1>11, <1>12, <1>13, <1>14 DEF AppStep, AppThread

(* Every step keeps the types.                                             *)
LEMMA StepTypes == ASSUME StepTypeOK, StepOf \/ UNCHANGED stepVars PROVE StepTypeOK'
<1>1. CASE UNCHANGED stepVars
  BY <1>1 DEF stepVars, StepTypeOK, linkVars, handlerVars, clockVars, clientVars, nodeVars, iamVars,
     certVars, toldVars, smVars, ClockSyncTypeOK, IAMClientTypeOK, SMClientTypeOK
<1> QED
  BY <1>1, ClockTypes, OpenTypes, LinkTypes, IAMHandlerTypes, IAMOwnerTypes, SMTypes, AppTypes
     DEF StepOf, SMStep

(* The number of events from outside keeps its bound.                      *)
LEMMA EventsAreBounded == ASSUME events \in 0..MaxEvents, [Next]_vars PROVE events' \in 0..MaxEvents
<1>1. CASE Event
  BY <1>1, NodeAssumption DEF Event
<1>2. CASE UNCHANGED events
  BY <1>2
<1> QED
  BY <1>1, <1>2 DEF Next, Clock, Open, IAMH, IAMO, SMH, SMO, Senders, Link, App, Syncs, Stopped, vars

(* The types hold at the start.                                            *)
LEMMA TypeInit == ASSUME Init PROVE TypeOK
<1> USE DEF Init, HandlersInit, ClockSyncInit, IAMClientInit, SMClientInit
<1>1. handler = [h \in Handler |-> "none"] /\ "none" \in Points
  BY DEF Points
<1>2. lock \in [Mutex -> Thread \union {Nobody}] /\ mStarted \in [Handler -> BOOLEAN] /\ closed \subseteq Handler
  OBVIOUS
<1>3. ClockSyncTypeOK /\ SMClientTypeOK
  <2>1. mConnectionSubscribers \in Seq(Client) /\ toNotify \in Seq(Client)
    OBVIOUS
  <2>2. mClockSynced \in [Client -> BOOLEAN]
    OBVIOUS
  <2> QED
    BY <2>1, <2>2 DEF ClockSyncTypeOK, SMClientTypeOK
<1>4. IAMClientTypeOK
  BY StoredAssumption DEF IAMClientTypeOK, Status, Ports
<1>5. up \in BOOLEAN /\ mClose \in BOOLEAN /\ app = "start"
  OBVIOUS
<1>6. StepTypeOK
  BY <1>1, <1>2, <1>3, <1>4, <1>5 DEF StepTypeOK
<1>7. events \in 0..MaxEvents
  BY NodeAssumption
<1> QED
  BY <1>6, <1>7, TypeSplits

(* Every variable of the node keeps to its type, whatever its threads do.  *)
THEOREM NodeTypes == Spec => []TypeOK
<1>1. TypeOK /\ [Next]_vars => TypeOK'
  <2>1. TypeOK' <=> StepTypeOK' /\ events' \in 0..MaxEvents
    BY DEF TypeOK, StepTypeOK, Points
  <2> QED
    BY <2>1, TypeSplits, NextIsStep, StepTypes, EventsAreBounded
<1> QED
  BY TypeInit, <1>1, PTL DEF Spec

-----------------------------------------------------------------------------
(* What the parts other than IAMClient leave alone.                        *)

(* The thread of ClockSync takes no mutex but its own.                     *)
LEMMA ClockFrame ==
  ASSUME StepTypeOK, ClockStep
  PROVE  /\ UNCHANGED <<linkVars, handlerVars, clientVars, app, mClockClose, mConnectionSubscribers>>
         /\ \A m \in Mutex \ {"clock"} : lock'[m] = lock[m]
<1>1. UNCHANGED <<linkVars, handlerVars, clientVars, app>>
  BY DEF ClockStep, ClockThread, ClockPeriod
<1>2. UNCHANGED <<mClockClose, mConnectionSubscribers>>
  BY DEF ClockStep, ClockThread, ClockPeriod, ClockExits, TakesSync, SyncTimeout, WakesToSend, NotifySubscriber,
     Notified, SendClockSyncRequest
<1>3. UNCHANGED lock \/ Take({"clock"}, "clock") \/ Take({"clock"}, Nobody)
  BY DEF ClockStep, ClockThread, ClockPeriod, ClockExits, TakesSync, SyncTimeout, WakesToSend, NotifySubscriber,
     Notified, SendClockSyncRequest, ClockSyncNotification, Leave
<1>4. "clock" \in Thread \union {Nobody} /\ Nobody \in Thread \union {Nobody}
  BY DEF Thread
<1> QED
  BY <1>1, <1>2, <1>3, <1>4, MutexMoves, HandlerTypes

(* The open handler takes none.                                            *)
LEMMA OpenFrame ==
  ASSUME StepTypeOK, OpenStep
  PROVE  /\ UNCHANGED <<linkVars, lock, mStarted, clientVars, app>>
         /\ \A g \in Handler \ {"open"} : handler'[g] = handler[g]
<1>1. "open" \in Handler /\ "ready" \in Points /\ HandlerTypeOK
  BY HandlerTypes DEF Handler, Points
<1>2. CASE Connect("open") \/ ConnectFails("open") \/ Reconnect("open") \/ Disconnect("open")
  BY <1>1, <1>2, ConnectionSteps DEF OpenStep
<1>3. CASE OpenOnConnect
  BY <1>1, <1>3, HandlerMoves DEF OpenStep, OpenOnConnect
<1>4. CASE Sync
  BY <1>1, <1>4 DEF OpenStep, Sync, handlerVars
<1> QED
  BY <1>2, <1>3, <1>4 DEF OpenStep, OpenHandler

(* SMClient takes none of the mutexes of the others and does not touch the *)
(* certificate of IAMClient.                                               *)
LEMMA SMForeign ==
  ASSUME StepTypeOK, SMStep
  PROVE  /\ UNCHANGED smOthers
         /\ \A g \in Handler \ {"sm"} : handler'[g] = handler[g] /\ mStarted'[g] = mStarted[g]
         /\ \A m \in Foreign : lock[m] # "sender" => lock'[m] = lock[m]
         /\ "iam" \in certSubscribers' <=> "iam" \in certSubscribers
         /\ "iam" \in stale' <=> "iam" \in stale
<1>1. CASE SMHandlerStep
  BY <1>1, SMFrame, SMHandlerSteps DEF certVars
<1>2. CASE SMOwnerStep
  BY <1>2, SMFrame, SMOwnerSteps
<1>3. CASE SenderStep
  BY <1>3, SMFrame, SenderSteps DEF handlerVars, certVars
<1> QED
  BY <1>1, <1>2, <1>3 DEF SMStep

(* HandleChannels of IAMClient moves its handler only by starting a new    *)
(* one, which no request runs on.                                          *)
LEMMA IAMOwnerForeign ==
  ASSUME StepTypeOK, IAMOwnerStep
  PROVE  /\ UNCHANGED iamOwnerOthers
         /\ \A g \in Handler \ {"iam"} : handler'[g] = handler[g] /\ mStarted'[g] = mStarted[g]
         /\ UNCHANGED handler \/ (IAMSetupChannel /\ Free("iam") /\ handler'["iam"] = "connecting")
<1>1. HandlerTypeOK /\ "iam" \in Handler
  BY HandlerTypes DEF Handler
<1>2. CASE IAMSetupChannel
  BY <1>1, <1>2, IAMOwnerFrame, OwnerSteps DEF IAMSetupChannel
<1>3. CASE HandlerStop("iam") \/ HandlerClose("iam")
  BY <1>1, <1>3, IAMOwnerFrame DEF HandlerStop, HandlerClose, HandlerTypeOK
<1>4. CASE UNCHANGED handlerVars
  BY <1>4, IAMOwnerFrame DEF handlerVars
<1> QED
  BY <1>2, <1>3, <1>4, IAMOwnerCases DEF IAMRelease, IAMClosesChannel, IAMJoins, IAMExits, IAMRetries, IAMReconnects,
     IAMSetupFails

(* The handler of IAMClient takes its mutex and that of NodeInfoProvider.  *)
LEMMA IAMHandlerForeign ==
  ASSUME StepTypeOK, IAMHandlerStep
  PROVE  /\ UNCHANGED iamOthers
         /\ \A g \in Handler \ {"iam"} : handler'[g] = handler[g]
         /\ \A m \in Mutex \ {"iam", "node"} : lock'[m] = lock[m]
<1>1. HandlerTypeOK /\ "iam" \in Handler /\ "iam" \in Thread /\ Nobody \in Thread \union {Nobody}
  BY HandlerTypes DEF Handler, Thread
<1>2. \A p \in Working \union {"ready"} : p \in Points
  BY Requests DEF Points
<1>3. Working = {"setStatus", "statusChanged", "certChanged", "answer", "error"}
  BY DEF Working
<1> DEFINE Keeps == /\ \A g \in Handler \ {"iam"} : handler'[g] = handler[g]
                    /\ \A m \in Mutex \ {"iam", "node"} : lock'[m] = lock[m]
<1>4. CASE IAMConnects \/ IAMDisconnect
  <2>1. Connect("iam") \/ ConnectFails("iam") \/ Reconnect("iam") \/ Disconnect("iam")
    BY <1>4 DEF IAMConnects, IAMDisconnect
  <2> QED
    BY <1>1, <2>1, ConnectionSteps, IAMHandlerFrame
<1>5. CASE IAMOnConnect
  BY <1>1, <1>2, <1>5, HandlerMoves, IAMHandlerFrame DEF IAMOnConnect
<1>6. ASSUME NEW r, NEW to \in Working, NEW M \in {{"iam"}, {"node"}}, Proceed(r, to, M)
      PROVE  Keeps
  BY <1>1, <1>2, <1>6, ProceedSteps
<1>7. ASSUME NEW to \in Working, Return(to)
      PROVE  Keeps
  BY <1>1, <1>2, <1>7, ReturnSteps
<1>8. CASE Answer
  BY <1>1, <1>2, <1>8, HandlerMoves, MutexMoves, IAMHandlerFrame DEF Answer, Leave
<1>9. CASE StoreFails \/ NotifyFails \/ OnNodeStatusChanged \/ OnCertChanged \/ SetNodeStatus
  <2>1. Return("error") \/ Return("answer") \/ Proceed(request, "statusChanged", {"node"})
    BY <1>9 DEF StoreFails, NotifyFails, OnNodeStatusChanged, OnCertChanged, SetNodeStatus
  <2> QED
    BY <1>3, <1>6, <1>7, <2>1, IAMHandlerFrame
<1>10. ASSUME NEW r, Refuse(r) \/ ReceiveChange(r) \/ ApplyCert(r) \/ ReceiveOther(r)
       PROVE  Keeps
  <2>1. \E to \in {"error", "setStatus", "certChanged", "answer"} : Proceed(r, to, {"iam"})
    BY <1>10 DEF Refuse, ReceiveChange, ApplyCert, ReceiveOther
  <2> QED
    BY <1>3, <1>6, <2>1
<1> QED
  BY <1>4, <1>5, <1>8, <1>9, <1>10, IAMHandlerCases, IAMHandlerFrame

(* App moves neither of the two clients' handlers and takes no mutex.      *)
LEMMA AppFrame ==
  ASSUME StepTypeOK, AppStep
  PROVE  /\ UNCHANGED <<lock, request, mCertificateChanged, stale, sender, subscribersOn, mCurrentPort, mReconnect>>
         /\ \A g \in {"iam", "sm"} : handler'[g] = handler[g]
         /\ mStarted'["sm"] = mStarted["sm"]
<1> USE DEF linkVars, handlerVars, nodeVars, iamVars, certVars, toldVars, smVars, clientVars
<1>1. UNCHANGED <<lock, request, mCertificateChanged, stale, sender, subscribersOn, mCurrentPort, mReconnect>>
  BY DEF AppStep, AppThread, AppStop, IAMStart, SMReadsStatus, SMStart, StopsLogs, StopsClock, StopsChannels,
     ChannelManagerStop, StopsIAMHandler, ClosesIAMChannel, JoinsIAMHandler, ClosesIAM, StopsOpenHandler, ClosesSM, AppStopped
<1>2. HandlerTypeOK /\ {"open", "iam", "sm"} = Handler
  BY HandlerTypes DEF Handler
<1>3. CASE SMStart \/ StopsOpenHandler
  <2>1. HandlerStart("open") \/ HandlerStop("open")
    BY <1>3 DEF SMStart, StopsOpenHandler
  <2> QED
    BY <1>1, <1>2, <2>1, OwnerSteps
<1>4. CASE StopsIAMHandler
  BY <1>1, <1>2, <1>4 DEF StopsIAMHandler, HandlerStop, HandlerTypeOK
<1>6. CASE ClosesIAMChannel
  BY <1>1, <1>2, <1>6 DEF ClosesIAMChannel, HandlerClose
<1>5. CASE UNCHANGED <<handler, mStarted>>
  BY <1>1, <1>5
<1> QED
  BY <1>3, <1>4, <1>5, <1>6 DEF AppStep, AppThread, AppStop, IAMStart, SMReadsStatus, StopsLogs, StopsClock,
     StopsChannels, ChannelManagerStop, JoinsIAMHandler, ClosesIAM, ClosesSM, AppStopped

-----------------------------------------------------------------------------
(* A request holds the mutex of IAMClient from its receipt to its answer,  *)
(* and the mutex of NodeInfoProvider while its observers are called.       *)

(* A step that leaves the request, its mutexes and its handler alone, or   *)
(* moves a handler that works on no request, keeps RequestInv.             *)
LEMMA RequestQuiet ==
  ASSUME RequestInv, request' = request, lock'["iam"] = lock["iam"], lock'["node"] = lock["node"],
         \/ handler'["iam"] = handler["iam"]
         \/ {handler["iam"], handler'["iam"]} \intersect Working = {}
  PROVE  RequestInv'
<1>1. Working = {"setStatus", "statusChanged", "certChanged", "answer", "error"}
  BY DEF Working
<1>2. CASE handler'["iam"] = handler["iam"]
  BY <1>2 DEF RequestInv
<1>3. CASE handler["iam"] \notin Working /\ handler'["iam"] \notin Working
  BY <1>1, <1>3 DEF RequestInv
<1> QED
  BY <1>2, <1>3

(* Every step keeps RequestInv.                                            *)
LEMMA RequestNext ==
  ASSUME StepTypeOK, RequestInv, StepOf \/ UNCHANGED stepVars
  PROVE  RequestInv'
<1>1. HandlerTypeOK /\ "iam" \in Handler /\ "iam" \in Mutex /\ "node" \in Mutex /\ "iam" # Nobody
  BY HandlerTypes DEF Handler, Mutex, Nobody
<1>2. Working = {"setStatus", "statusChanged", "certChanged", "answer", "error"}
  BY DEF Working
<1>3. \A p \in Working \union {"ready"} : p \in Points
  BY Requests DEF Points
<1>4. request \in Request \union {NoRequest} /\ NoRequest \notin Request
  BY Requests DEF StepTypeOK, IAMClientTypeOK, NoRequest
<1>5. CASE UNCHANGED stepVars
  BY <1>5, RequestQuiet DEF stepVars, handlerVars, clientVars
<1>6. CASE ClockStep
  BY <1>1, <1>6, RequestQuiet, ClockFrame DEF handlerVars, clientVars
<1>7. CASE OpenStep
  BY <1>1, <1>7, RequestQuiet, OpenFrame DEF clientVars
<1>8. CASE LinkStep
  BY <1>8, RequestQuiet DEF LinkStep, TransportUp, TransportDown, handlerVars, clientVars
<1>9. CASE SMStep
  <2>1. lock["iam"] # "sender" /\ lock["node"] # "sender"
    BY DEF RequestInv, Nobody
  <2> QED
    BY <1>1, <1>9, <2>1, RequestQuiet, SMForeign DEF smOthers, Foreign
<1>10. CASE AppStep
  BY <1>1, <1>10, RequestQuiet, AppFrame
<1>11. CASE IAMOwnerStep
  <2>1. Free("iam") => handler["iam"] \notin Working
    BY DEF Free, RequestInv, Nobody
  <2> QED
    BY <1>1, <1>2, <1>11, <2>1, RequestQuiet, IAMOwnerForeign DEF iamOwnerOthers
<1>12. CASE IAMHandlerStep
  <2>1. CASE (IAMConnects \/ IAMDisconnect) /\ UNCHANGED request
    <3>1. {handler["iam"], handler'["iam"]} \intersect Working = {} /\ UNCHANGED lock
      BY <1>1, <1>2, <2>1, ConnectionSteps DEF IAMConnects, IAMDisconnect
    <3> QED
      BY <2>1, <3>1, RequestQuiet
  <2>2. CASE IAMOnConnect /\ UNCHANGED request
    <3>1. {handler["iam"], handler'["iam"]} \intersect Working = {} /\ UNCHANGED lock
      BY <1>1, <1>2, <1>3, <2>2, HandlerMoves DEF IAMOnConnect
    <3> QED
      BY <2>2, <3>1, RequestQuiet
  <2>3. ASSUME NEW to \in {"answer", "error"}, Return(to), handler["iam"] \in Working
        PROVE  RequestInv'
    <3>1. handler'["iam"] = to /\ request' = request /\ lock'["iam"] = lock["iam"] /\ lock'["node"] = Nobody
      BY <1>1, <1>2, <1>3, <2>3, ReturnSteps
    <3> QED
      BY <1>2, <2>3, <3>1 DEF RequestInv
  <2>4. CASE StoreFails
    BY <1>2, <2>3, <2>4 DEF StoreFails
  <2>5. CASE OnNodeStatusChanged
    BY <1>2, <2>3, <2>5 DEF OnNodeStatusChanged
  <2>6. CASE OnCertChanged
    BY <1>2, <2>3, <2>6 DEF OnCertChanged
  <2>7. CASE NotifyFails
    BY <1>2, <2>3, <2>7 DEF NotifyFails, StoreNodeStatus
  <2>8. CASE SetNodeStatus
    <3>1. handler["iam"] = "setStatus"
      BY <2>8 DEF SetNodeStatus, StoreNodeStatus
    <3>2. CASE Return("answer")
      BY <1>2, <2>3, <3>1, <3>2
    <3>3. CASE Proceed(request, "statusChanged", {"node"})
      <4> DEFINE to == "statusChanged"
                 M == {"node"}
      <4>2. HandlerTypeOK /\ to \in Points /\ Proceed(request, to, M)
        BY <1>1, <1>2, <1>3, <3>3
      <4> HIDE DEF to, M
      <4>3. /\ handler'["iam"] = to /\ request' = request
            /\ \A m \in Mutex : lock'[m] = IF m \in M THEN "iam" ELSE lock[m]
        BY <4>2, ProceedSteps
      <4>1. /\ handler'["iam"] = "statusChanged" /\ request' = request
            /\ lock'["iam"] = lock["iam"] /\ lock'["node"] = "iam"
        BY <1>1, <4>3 DEF to, M
      <4> QED
        BY <1>2, <3>1, <4>1 DEF RequestInv
    <3> QED
      BY <2>8, <3>2, <3>3 DEF SetNodeStatus
  <2>9. CASE Answer
    <3>1. handler'["iam"] = "ready" /\ request' = NoRequest
      BY <1>1, <1>2, <1>3, <2>9, HandlerMoves DEF Answer
    <3>2. lock'["iam"] = Nobody /\ lock'["node"] = lock["node"]
      BY <1>1, <2>9, MutexMoves DEF Answer, Leave
    <3>3. handler["iam"] \in {"answer", "error"}
      BY <2>9 DEF Answer
    <3> QED
      BY <1>2, <3>1, <3>2, <3>3 DEF RequestInv
  <2>10. ASSUME NEW r \in Request, NEW to \in {"error", "setStatus", "answer", "certChanged"},
                Receives(r), Proceed(r, to, {"iam"}),
                to = "setStatus" => r \in DOMAIN Target, to = "certChanged" => r \in DOMAIN Applies
         PROVE  RequestInv'
    <3>1. handler["iam"] = "ready"
      BY <2>10 DEF Receives, CanReceive
    <3>2. handler'["iam"] = to /\ request' = r /\ lock'["iam"] = "iam" /\ lock'["node"] = lock["node"]
      <4> DEFINE M == {"iam"}
      <4>1. HandlerTypeOK /\ to \in Points /\ Proceed(r, to, M)
        BY <1>1, <1>2, <1>3, <2>10
      <4> HIDE DEF M
      <4>2. /\ handler'["iam"] = to /\ request' = r
            /\ \A m \in Mutex : lock'[m] = IF m \in M THEN "iam" ELSE lock[m]
        BY <4>1, ProceedSteps
      <4> QED
        BY <1>1, <4>2 DEF M
    <3> QED
      BY <1>2, <1>4, <2>10, <3>1, <3>2 DEF RequestInv
  <2>11. CASE \E r \in Request : Refuse(r)
    BY <2>10, <2>11 DEF Refuse
  <2>12. CASE \E r \in DOMAIN Target : ReceiveChange(r)
    BY <2>10, <2>12, Requests DEF ReceiveChange
  <2>13. CASE \E r \in DOMAIN Applies : ApplyCert(r)
    BY <2>10, <2>13, Requests DEF ApplyCert
  <2>14. CASE \E r \in Request \ (DOMAIN Target \union DOMAIN Applies) : ReceiveOther(r)
    BY <2>10, <2>14 DEF ReceiveOther
  <2> QED
    BY <1>12, <2>1, <2>2, <2>4, <2>5, <2>6, <2>7, <2>8, <2>9, <2>11, <2>12, <2>13, <2>14, IAMHandlerCases
<1> QED
  BY <1>5, <1>6, <1>7, <1>8, <1>9, <1>10, <1>11, <1>12 DEF StepOf, SMStep

-----------------------------------------------------------------------------
(* The steps of the handler of IAMClient by what they do to the status and *)
(* to the certificates: nothing at all, or one of these four.              *)

Remembered == <<status, iamStatus, mReconnect, stale, mProvisioned, mCertificateChanged>>

NothingDone ==
  /\ UNCHANGED Remembered
  /\ handler["iam"] \notin {"none", "certChanged", "statusChanged"}
  /\ handler'["iam"] \notin {"certChanged", "statusChanged"}
  /\ handler'["iam"] = "answer" => request' \notin DOMAIN Target

StatusSet ==
  \E s \in Status :
    /\ s = Target[request] /\ status' = s /\ iamStatus' = s
    /\ mReconnect' = (mReconnect \/ ChangesProvisioning(s))
    /\ UNCHANGED <<request, stale, mProvisioned, mCertificateChanged>>
    /\ handler["iam"] = "setStatus"
    /\ \/ "sm" \in mStatusChangedSubscribers /\ handler'["iam"] = "statusChanged"
       \/ "sm" \notin mStatusChangedSubscribers /\ handler'["iam"] = "answer"
       \/ ~ChangesProvisioning(s) /\ handler'["iam"] = "error"

StatusTold ==
  /\ UNCHANGED <<status, iamStatus, mReconnect, stale, mCertificateChanged, request>>
  /\ mProvisioned' = (status # "unprovisioned")
  /\ handler["iam"] = "statusChanged" /\ handler'["iam"] = "answer"

CertificateTold ==
  /\ UNCHANGED <<status, iamStatus, mReconnect, stale, mProvisioned, request>>
  /\ mCertificateChanged' = TRUE
  /\ handler["iam"] = "certChanged" /\ handler'["iam"] = "answer"

CertificateApplied ==
  \E r \in DOMAIN Applies :
    /\ UNCHANGED <<status, iamStatus, mProvisioned, mCertificateChanged>>
    /\ up /\ handler["iam"] = "ready" /\ request' = r
    /\ stale' = stale \union {Applies[r]}
    /\ mReconnect' = (mReconnect \/ (r = "applyIAM" /\ "iam" \in certSubscribers))
    /\ handler'["iam"] = IF r = "applySM" /\ "sm" \in certSubscribers THEN "certChanged" ELSE "answer"

(* What a step of the handler of IAMClient does to the status and to the   *)
(* certificates is one of five things.                                     *)
LEMMA IAMHandlerEffects ==
  ASSUME StepTypeOK, RequestInv, IAMHandlerStep
  PROVE  NothingDone \/ StatusSet \/ StatusTold \/ CertificateTold \/ CertificateApplied
<1> USE DEF nodeVars, iamVars, certVars, toldVars
<1>1. HandlerTypeOK /\ "iam" \in Handler
  BY HandlerTypes DEF Handler
<1>2. \A p \in {"setStatus", "statusChanged", "certChanged", "answer", "error", "ready"} : p \in Points
  BY DEF Points
<1>3. CASE IAMConnects \/ IAMDisconnect
  <2>1. /\ UNCHANGED Remembered
        /\ Connect("iam") \/ ConnectFails("iam") \/ Reconnect("iam") \/ Disconnect("iam")
    BY <1>3 DEF IAMConnects, IAMDisconnect, Remembered
  <2> QED
    BY <1>1, <2>1, ConnectionSteps DEF NothingDone
<1>4. CASE IAMOnConnect
  BY <1>1, <1>2, <1>4, HandlerMoves DEF IAMOnConnect, NothingDone, Remembered
<1>5. CASE StoreFails
  BY <1>1, <1>2, <1>5, ReturnSteps DEF StoreFails, NothingDone, Remembered
<1>6. CASE SetNodeStatus
  <2>1. PICK s \in Status : /\ StoreNodeStatus(s)
                            /\ IF "sm" \in mStatusChangedSubscribers
                                 THEN Proceed(request, "statusChanged", {"node"})
                                 ELSE Return("answer")
    BY <1>6 DEF SetNodeStatus
  <2>2. /\ UNCHANGED request
        /\ \/ "sm" \in mStatusChangedSubscribers /\ handler'["iam"] = "statusChanged"
           \/ "sm" \notin mStatusChangedSubscribers /\ handler'["iam"] = "answer"
    BY <1>1, <1>2, <2>1, ReturnSteps DEF Proceed, HandlerTypeOK
  <2> QED
    BY <2>1, <2>2 DEF StoreNodeStatus, StatusSet
<1>7. CASE NotifyFails
  <2>1. PICK s \in Status : StoreNodeStatus(s) /\ ~ChangesProvisioning(s) /\ Return("error")
    BY <1>7 DEF NotifyFails
  <2>2. UNCHANGED request /\ handler'["iam"] = "error"
    BY <1>1, <1>2, <2>1, ReturnSteps
  <2> QED
    BY <2>1, <2>2 DEF StoreNodeStatus, StatusSet
<1>8. CASE OnNodeStatusChanged
  BY <1>1, <1>2, <1>8, ReturnSteps DEF OnNodeStatusChanged, StatusTold
<1>9. CASE OnCertChanged
  BY <1>1, <1>2, <1>9, ReturnSteps DEF OnCertChanged, CertificateTold
<1>10. CASE Answer
  BY <1>1, <1>2, <1>10, HandlerMoves DEF Answer, NothingDone, Remembered
<1>11. ASSUME NEW r, NEW to \in {"error", "setStatus", "answer", "certChanged"},
              Proceed(r, to, {"iam"}), Receives(r)
       PROVE  handler'["iam"] = to /\ request' = r /\ handler["iam"] = "ready" /\ up
  BY <1>1, <1>2, <1>11 DEF Proceed, HandlerTypeOK, Receives, CanReceive
<1>12. CASE \E r \in Request : Refuse(r)
  BY <1>11, <1>12 DEF Refuse, NothingDone, Remembered
<1>13. CASE \E r \in DOMAIN Target : ReceiveChange(r)
  BY <1>11, <1>13 DEF ReceiveChange, NothingDone, Remembered
<1>14. CASE \E r \in DOMAIN Applies : ApplyCert(r)
  <2>1. PICK r \in DOMAIN Applies : ApplyCert(r)
    BY <1>14
  <2> DEFINE to == IF r = "applySM" /\ "sm" \in certSubscribers THEN "certChanged" ELSE "answer"
  <2>2. handler'["iam"] = to /\ request' = r /\ handler["iam"] = "ready" /\ up
    BY <1>11, <2>1 DEF ApplyCert
  <2> QED
    BY <2>1, <2>2 DEF ApplyCert, CertificateApplied
<1>15. CASE \E r \in Request \ (DOMAIN Target \union DOMAIN Applies) : ReceiveOther(r)
  BY <1>11, <1>15 DEF ReceiveOther, NothingDone, Remembered
<1> QED
  BY <1>3, <1>4, <1>5, <1>6, <1>7, <1>8, <1>9, <1>10, <1>12, <1>13, <1>14, <1>15, IAMHandlerCases

-----------------------------------------------------------------------------
(* A request that is answered has set the status it asked for.             *)

(* Every step keeps StatusInv: only the handler writes the status, and it  *)
(* holds the mutex from there to the answer.                               *)
LEMMA StatusNext ==
  ASSUME StepTypeOK, RequestInv, StatusInv, StepOf \/ UNCHANGED stepVars
  PROVE  StatusInv'
<1> USE DEF StatusInv
<1>1. {"open", "iam", "sm"} = Handler
  BY DEF Handler
<1>2. CASE UNCHANGED stepVars
  BY <1>2 DEF stepVars, handlerVars, clientVars, nodeVars, iamVars
<1>3. CASE ClockStep
  BY <1>3, ClockFrame DEF handlerVars, clientVars, nodeVars, iamVars
<1>4. CASE OpenStep
  BY <1>1, <1>4, OpenFrame DEF clientVars, nodeVars, iamVars
<1>5. CASE LinkStep
  BY <1>5 DEF LinkStep, TransportUp, TransportDown, handlerVars, clientVars, nodeVars, iamVars
<1>6. CASE SMStep
  BY <1>1, <1>6, SMForeign DEF smOthers, nodeVars, iamVars
<1>7. CASE IAMOwnerStep
  <2>1. iamOwner # "none"
    BY <1>7, IAMOwnerCases DEF IAMRelease, IAMClosesChannel, IAMJoins, IAMExits, IAMSetupChannel, IAMRetries,
       IAMReconnects, IAMSetupFails, IAMOwnerGoes
  <2> QED
    BY <1>7, <2>1, IAMOwnerForeign DEF iamOwnerOthers, nodeVars
<1>8. CASE IAMHandlerStep
  <2>1. UNCHANGED <<app, iamOwner>>
    BY <1>8, IAMHandlerForeign DEF iamOthers
  <2>2. CASE NothingDone
    BY <2>1, <2>2 DEF NothingDone, Remembered
  <2>3. CASE StatusSet
    BY <2>1, <2>3 DEF StatusSet
  <2>4. CASE StatusTold
    BY <2>1, <2>4 DEF StatusTold
  <2>5. CASE CertificateTold
    BY <2>1, <2>5, Requests DEF CertificateTold, RequestInv
  <2>6. CASE CertificateApplied
    BY <2>1, <2>6, Requests DEF CertificateApplied
  <2> QED
    BY <1>8, <2>2, <2>3, <2>4, <2>5, <2>6, IAMHandlerEffects
<1>9. CASE AppStep
  <2>1. handler'["iam"] = handler["iam"] /\ request' = request
    BY <1>9, AppFrame
  <2>2. CASE IAMStart
    BY <2>1, <2>2 DEF IAMStart, AppGoes, SubscribeNodeStatusChanged
  <2>3. CASE ~IAMStart
    <3>1. app # "start" /\ app' # "start" /\ UNCHANGED <<status, iamStatus>>
      BY <1>9, <2>3 DEF AppStep, AppThread, AppGoes, clientVars, nodeVars, iamVars, AppStop, SMReadsStatus, SMStart,
         SubscribeNodeStatusChanged, StopsLogs, StopsClock, StopsChannels, StopsIAMHandler, ClosesIAMChannel, JoinsIAMHandler,
         ClosesIAM, UnsubscribeNodeStatusChanged, StopsOpenHandler, ClosesSM, AppStopped
    <3> QED
      BY <2>1, <3>1
  <2> QED
    BY <2>2, <2>3
<1> QED
  BY <1>2, <1>3, <1>4, <1>5, <1>6, <1>7, <1>8, <1>9 DEF StepOf, SMStep

-----------------------------------------------------------------------------
(* SMClient follows the status.                                            *)

(* Every step keeps ProvisionedInv.                                        *)
LEMMA ProvisionedNext ==
  ASSUME StepTypeOK, RequestInv, RequestInv', StatusInv, ClockInv, ProvisionedInv, StepOf \/ UNCHANGED stepVars
  PROVE  ProvisionedInv'
<1> USE DEF ProvisionedInv, SMFollowsStatus, Free
<1>1. {"open", "iam", "sm"} = Handler /\ {"clock", "node", "iam", "sm", "download", "log"} = Mutex
  BY DEF Handler, Mutex
<1>2. CASE UNCHANGED stepVars
  BY <1>2 DEF stepVars, handlerVars, clientVars, nodeVars, toldVars
<1>3. CASE ClockStep
  BY <1>1, <1>3, ClockFrame DEF handlerVars, clientVars, nodeVars, toldVars
<1>4. CASE OpenStep
  BY <1>1, <1>4, OpenFrame DEF clientVars, nodeVars, toldVars
<1>5. CASE LinkStep
  BY <1>5 DEF LinkStep, TransportUp, TransportDown, handlerVars, clientVars, nodeVars, toldVars
<1>6. CASE SMStep
  <2>1. lock["node"] # "sender"
    BY DEF RequestInv, Nobody
  <2> QED
    BY <1>1, <1>6, <2>1, SMForeign DEF smOthers, nodeVars, Foreign
<1>7. CASE IAMOwnerStep
  BY <1>7, IAMOwnerForeign DEF iamOwnerOthers, nodeVars, toldVars
<1>8. CASE IAMHandlerStep
  <2>1. UNCHANGED <<app, mStatusChangedSubscribers>>
    BY <1>8, IAMHandlerForeign DEF iamOthers
  <2>3. handler["iam"] # "statusChanged" => lock["node"] = Nobody
    BY DEF RequestInv
  <2>4. CASE NothingDone
    BY <2>1, <2>3, <2>4 DEF NothingDone, Remembered
  <2>5. CASE StatusSet
    <3>1. PICK s \in Status : /\ status' = s
                              /\ UNCHANGED mProvisioned
                              /\ handler["iam"] = "setStatus"
                              /\ \/ "sm" \in mStatusChangedSubscribers /\ handler'["iam"] = "statusChanged"
                                 \/ "sm" \notin mStatusChangedSubscribers /\ handler'["iam"] = "answer"
                                 \/ ~ChangesProvisioning(s) /\ handler'["iam"] = "error"
      BY <2>5 DEF StatusSet
    <3>2. app # "smStarting" /\ app # "start"
      BY <3>1 DEF ClockInv, Starting
    <3>3. CASE handler'["iam"] = "statusChanged"
      <4>1. lock'["node"] # Nobody
        BY <3>3 DEF RequestInv, Nobody
      <4> QED
        BY <2>1, <3>2, <4>1
    <3>4. CASE "sm" \notin mStatusChangedSubscribers
      BY <2>1, <3>2, <3>4
    <3>5. CASE ~ChangesProvisioning(s)
      <4>1. iamStatus = status
        BY <3>2 DEF StatusInv
      <4> QED
        BY <2>1, <2>3, <3>1, <3>2, <3>5, <4>1 DEF ChangesProvisioning
    <3> QED
      BY <3>1, <3>3, <3>4, <3>5
  <2>6. CASE StatusTold
    BY <2>1, <2>6 DEF StatusTold
  <2>7. CASE CertificateTold
    BY <2>1, <2>3, <2>7 DEF CertificateTold
  <2>8. CASE CertificateApplied
    BY <2>1, <2>3, <2>8 DEF CertificateApplied
  <2> QED
    BY <1>8, <2>4, <2>5, <2>6, <2>7, <2>8, IAMHandlerEffects
<1>9. CASE AppStep
  <2>1. handler'["iam"] = handler["iam"] /\ lock' = lock
    BY <1>9, AppFrame
  <2>2. CASE IAMStart
    BY <2>1, <2>2 DEF IAMStart, AppGoes, SubscribeNodeStatusChanged, toldVars
  <2>3. CASE SMReadsStatus
    BY <2>1, <2>3 DEF SMReadsStatus, AppGoes, nodeVars
  <2>4. CASE SMStart
    BY <2>1, <2>4 DEF SMStart, AppGoes, SubscribeNodeStatusChanged, toldVars
  <2>5. CASE ClosesIAM
    BY <2>1, <2>5 DEF ClosesIAM, AppGoes, UnsubscribeNodeStatusChanged, toldVars
  <2>6. CASE AppStop \/ StopsLogs \/ StopsClock \/ StopsChannels \/ StopsIAMHandler \/ ClosesIAMChannel \/ JoinsIAMHandler
              \/ StopsOpenHandler \/ ClosesSM \/ AppStopped
    <3>1. app' # "smStarting"
      BY <2>6 DEF AppStop, StopsLogs, StopsClock, StopsChannels, StopsIAMHandler, ClosesIAMChannel, JoinsIAMHandler, StopsOpenHandler,
         ClosesSM, AppStopped, AppGoes
    <3>2. UNCHANGED <<nodeVars, toldVars>>
      BY <2>6 DEF AppStop, StopsLogs, StopsClock, StopsChannels, StopsIAMHandler, ClosesIAMChannel, JoinsIAMHandler, StopsOpenHandler,
         ClosesSM, AppStopped, clientVars
    <3> QED
      BY <2>1, <3>1, <3>2 DEF nodeVars, toldVars
  <2> QED
    BY <1>9, <2>2, <2>3, <2>4, <2>5, <2>6 DEF AppStep, AppThread
<1> QED
  BY <1>2, <1>3, <1>4, <1>5, <1>6, <1>7, <1>8, <1>9 DEF StepOf, SMStep

(* The steps of the handler of IAMClient are those of one that runs.       *)
LEMMA IAMHandlerRuns ==
  ASSUME StepTypeOK, IAMHandlerStep, handler["iam"] = "none"
  PROVE  handler'["iam"] = "none"
<1>1. "iam" \in Handler
  BY DEF Handler
<1>2. ~(IAMConnects \/ IAMDisconnect \/ IAMOnConnect)
  BY <1>1, ConnectionSteps DEF IAMConnects, IAMDisconnect, IAMOnConnect, Goes
<1>3. ~CanReceive("iam")
  BY DEF CanReceive
<1>4. ~(StoreFails \/ SetNodeStatus \/ NotifyFails \/ OnNodeStatusChanged \/ OnCertChanged \/ Answer)
  BY DEF StoreFails, SetNodeStatus, NotifyFails, StoreNodeStatus, OnNodeStatusChanged, OnCertChanged, Answer
<1> QED
  BY <1>2, <1>3, <1>4, IAMHandlerCases DEF Refuse, ReceiveChange, ApplyCert, ReceiveOther, Receives

(* Whoever has subscribed to the clock knows it, or is about to be told.   *)

(* Every step keeps ClockInv.                                              *)
LEMMA ClockNext ==
  ASSUME StepTypeOK, ClockInv, StepOf \/ UNCHANGED stepVars
  PROVE  ClockInv'
<1> USE DEF ClockInv
<1>1. /\ {"open", "iam", "sm"} = Handler /\ {"clock", "node", "iam", "sm", "download", "log"} = Mutex
      /\ Calling = {"notifying", "notifyingLost"} /\ Starting = {"start", "iamStarted", "smStarting"}
  BY DEF Handler, Mutex, Calling, Starting
<1>2. CASE UNCHANGED stepVars
  BY <1>2 DEF stepVars, handlerVars, clockVars
<1>3. lock["clock"] # "sender"
  BY DEF Nobody
<1>4. CASE LinkStep
  BY <1>4 DEF LinkStep, TransportUp, TransportDown, handlerVars, clockVars
<1>5. CASE SMStep
  BY <1>1, <1>3, <1>5, SMForeign DEF smOthers, clockVars, Foreign
<1>6. CASE IAMOwnerStep
  <2>1. mClockSynced["iam"] \/ UNCHANGED handler
    BY <1>6, IAMOwnerForeign DEF IAMSetupChannel
  <2> QED
    BY <1>1, <1>6, <2>1, IAMOwnerForeign DEF iamOwnerOthers, clockVars, Client
<1>7. CASE IAMHandlerStep
  <2>1. handler["iam"] = "none" => handler'["iam"] = "none"
    BY <1>7, IAMHandlerRuns
  <2> QED
    BY <1>1, <1>7, <2>1, IAMHandlerForeign DEF iamOthers, clockVars
<1>8. CASE OpenStep
  <2>1. UNCHANGED <<lock, app>> /\ UNCHANGED <<clockThread, mSynced, mConnectionSubscribers, toNotify, mClockSynced>>
    BY <1>8, OpenFrame DEF OpenStep, OpenHandler, OpenOnConnect, Sync, clockVars
  <2>2. handler["open"] = "none" => handler'["open"] = "none" /\ mSync' = mSync
    <3>1. HandlerTypeOK
      BY HandlerTypes
    <3>2. CASE Connect("open") \/ ConnectFails("open") \/ Reconnect("open") \/ Disconnect("open")
      BY <1>1, <3>2, ConnectionSteps
    <3>3. CASE OpenOnConnect \/ Sync
      BY <3>3 DEF OpenOnConnect, Sync, Goes, CanReceive
    <3> QED
      BY <1>8, <3>2, <3>3 DEF OpenStep, OpenHandler
  <2>3. handler'["iam"] = handler["iam"]
    BY <1>1, <1>8, OpenFrame
  <2> QED
    BY <2>1, <2>2, <2>3
<1>9. CASE ClockStep
  <2>1. UNCHANGED <<handler, app, mConnectionSubscribers>>
    BY <1>9, ClockFrame DEF handlerVars
  <2>2. HandlerTypeOK /\ toNotify \in Seq(Client) /\ mClockSynced \in [Client -> BOOLEAN]
        /\ mConnectionSubscribers \in Seq(Client)
    BY HandlerTypes DEF StepTypeOK, ClockSyncTypeOK
  <2>3. "clock" \in Thread \union {Nobody} /\ Nobody \in Thread \union {Nobody}
    BY DEF Thread
  <2>4. ASSUME NEW t \in {"clock", Nobody}, Take({"clock"}, t) PROVE lock'["clock"] = t
    BY <1>1, <2>2, <2>3, <2>4, MutexMoves
  <2>5. CASE ClockExits
    BY <1>1, <2>1, <2>5 DEF ClockExits, ClockGoes
  <2>6. CASE TakesSync
    <3>1. lock'["clock"] = "clock" /\ clockThread' = "notifying" /\ toNotify' = mConnectionSubscribers /\ mSync
      BY <2>4, <2>6 DEF TakesSync, ClockSyncNotification, ClockGoes
    <3> QED
      BY <1>1, <2>1, <3>1
  <2>7. CASE SyncTimeout
    <3>1. /\ lock'["clock"] = "clock" /\ clockThread' = "notifyingLost" /\ toNotify' = mConnectionSubscribers
          /\ mSynced
      BY <2>4, <2>7 DEF SyncTimeout, ClockSyncNotification, ClockGoes
    <3> QED
      BY <1>1, <2>1, <3>1
  <2>8. CASE WakesToSend
    <3>1. /\ lock'["clock"] = "clock" /\ clockThread = "waiting" /\ clockThread' = "sending"
          /\ UNCHANGED <<mSync, mSynced, toNotify, mClockSynced>>
      BY <2>4, <2>8 DEF WakesToSend, ClockGoes
    <3> QED
      BY <1>1, <2>1, <3>1
  <2>9. CASE NotifySubscriber
    <3> DEFINE c == Head(toNotify)
    <3>1. /\ UNCHANGED <<clockThread, mSync, mSynced, lock>> /\ clockThread \in Calling
          /\ mClockSynced' = [mClockSynced EXCEPT ![c] = mSynced]
          /\ toNotify' = Tail(toNotify) /\ toNotify # << >>
      BY <1>1, <2>9 DEF NotifySubscriber
    <3>2. c \in Client /\ Len(toNotify') = Len(toNotify) - 1 /\ toNotify' \in Seq(Client)
          /\ c = toNotify[1] /\ \A j \in 1..Len(toNotify') : toNotify'[j] = toNotify[j + 1]
      BY <2>2, <3>1, HeadTailProperties
    <3>3. ASSUME NEW i \in DOMAIN mConnectionSubscribers
          PROVE  \/ \E j \in DOMAIN toNotify' : toNotify'[j] = mConnectionSubscribers[i]
                 \/ mClockSynced'[mConnectionSubscribers[i]] = mSynced
      <4>1. mConnectionSubscribers[i] \in Client
        BY <2>2
      <4>2. CASE mConnectionSubscribers[i] = c
        BY <2>2, <3>1, <3>2, <4>2
      <4>3. CASE mConnectionSubscribers[i] # c /\ mClockSynced[mConnectionSubscribers[i]] = mSynced
        BY <2>2, <3>1, <4>1, <4>3
      <4>4. CASE mConnectionSubscribers[i] # c /\ \E j \in DOMAIN toNotify : toNotify[j] = mConnectionSubscribers[i]
        <5>1. PICK j \in 1..Len(toNotify) : toNotify[j] = mConnectionSubscribers[i]
          BY <2>2, <4>4
        <5>2. j # 1
          BY <3>2, <4>4, <5>1
        <5>3. Len(toNotify) \in Nat
          BY <2>2
        <5>4. j - 1 \in 1..Len(toNotify') /\ (j - 1) + 1 = j
          BY <3>2, <5>1, <5>2, <5>3
        <5>5. toNotify'[j - 1] = mConnectionSubscribers[i] /\ j - 1 \in DOMAIN toNotify'
          BY <3>2, <5>1, <5>4
        <5> QED
          BY <5>5
      <4> QED
        BY <4>2, <4>3, <4>4
    <3>4. (\A d \in Client : ~mClockSynced[d]) /\ ~mSynced => \A d \in Client : ~mClockSynced'[d]
      BY <2>2, <3>1, <3>2
    <3> QED
      BY <1>1, <2>1, <3>1, <3>3, <3>4
  <2>10. CASE Notified
    <3>1. /\ UNCHANGED <<mSync, mSynced, mClockSynced, toNotify>> /\ toNotify = << >> /\ clockThread \in Calling
          /\ \/ clockThread' = "waiting" /\ lock'["clock"] = Nobody
             \/ clockThread' = "sending" /\ lock' = lock
      BY <1>1, <2>4, <2>10 DEF Notified, ClockGoes, Leave
    <3> QED
      BY <1>1, <2>1, <3>1
  <2>11. CASE SendClockSyncRequest
    <3>1. /\ UNCHANGED <<mSync, mSynced, mClockSynced, toNotify>> /\ clockThread = "sending"
          /\ clockThread' = "waiting" /\ lock'["clock"] = Nobody
      BY <1>1, <2>4, <2>11 DEF SendClockSyncRequest, ClockGoes, Leave
    <3> QED
      BY <1>1, <2>1, <3>1
  <2> QED
    BY <1>9, <2>5, <2>6, <2>7, <2>8, <2>9, <2>10, <2>11 DEF ClockStep, ClockThread, ClockPeriod
<1>10. CASE AppStep
  <2>1. lock' = lock /\ HandlerTypeOK /\ mConnectionSubscribers \in Seq(Client)
    BY <1>10, AppFrame, HandlerTypes DEF StepTypeOK, ClockSyncTypeOK
  <2>2. UNCHANGED <<clockThread, mSync, mSynced, toNotify, mClockSynced>>
    BY <1>10 DEF AppStep, AppThread, AppStop, IAMStart, SMReadsStatus, SMStart, StopsLogs, StopsClock, StopsChannels,
       StopsIAMHandler, ClosesIAMChannel, JoinsIAMHandler, ClosesIAM, StopsOpenHandler, ClosesSM, AppStopped, clockVars,
       ClockSyncSubscribe, ClockSyncUnsubscribe, ClockSyncStop
  <2>3. ASSUME NEW c \in Client, ClockSyncSubscribe(c), app \in Starting
        PROVE  \A i \in DOMAIN mConnectionSubscribers' :
                 \/ \E j \in DOMAIN toNotify : toNotify[j] = mConnectionSubscribers'[i]
                 \/ mClockSynced[mConnectionSubscribers'[i]] = mSynced
    <3>1. mConnectionSubscribers' = Append(mConnectionSubscribers, c)
      BY <2>3 DEF ClockSyncSubscribe
    <3>2. mConnectionSubscribers' \in Seq(Client)
      BY <2>1, <3>1
    <3>3. \A i \in DOMAIN mConnectionSubscribers' : mConnectionSubscribers'[i] \in Client
      BY <3>2
    <3>4. \A d \in Client : mClockSynced[d] = mSynced
      BY <2>3 DEF StepTypeOK, ClockSyncTypeOK
    <3> QED
      BY <3>3, <3>4
  <2>4. CASE IAMStart
    <3>1. ClockSyncSubscribe("iam") /\ app = "start" /\ UNCHANGED handler
      BY <2>4 DEF IAMStart, AppGoes, handlerVars
    <3> QED
      BY <1>1, <2>1, <2>2, <2>3, <3>1 DEF Client
  <2>5. CASE SMStart
    <3>1. ClockSyncSubscribe("sm") /\ app = "smStarting" /\ app' = "running"
      BY <2>5 DEF SMStart, AppGoes
    <3> QED
      BY <1>1, <2>1, <2>2, <2>3, <3>1 DEF Client
  <2>6. CASE SMReadsStatus
    BY <1>1, <2>1, <2>2, <2>6 DEF SMReadsStatus, AppGoes, handlerVars, clockVars
  <2>7. CASE ClosesIAM
    <3>1. \A i \in DOMAIN mConnectionSubscribers' :
            \E j \in DOMAIN mConnectionSubscribers : mConnectionSubscribers'[i] = mConnectionSubscribers[j]
      BY <2>1, <2>7, RemoveFirstKeeps DEF ClosesIAM, ClockSyncUnsubscribe
    <3>2. app' = "iamOwner"
      BY <2>7 DEF ClosesIAM, AppGoes
    <3> QED
      BY <1>1, <2>1, <2>2, <3>1, <3>2
  <2>8. CASE AppStop \/ StopsLogs \/ StopsClock \/ StopsChannels \/ StopsIAMHandler \/ ClosesIAMChannel \/ JoinsIAMHandler
              \/ StopsOpenHandler \/ ClosesSM \/ AppStopped
    <3>1. app' \notin Starting
      BY <1>1, <2>8 DEF AppStop, StopsLogs, StopsClock, StopsChannels, StopsIAMHandler, ClosesIAMChannel, JoinsIAMHandler,
         StopsOpenHandler, ClosesSM, AppStopped, AppGoes
    <3>2. UNCHANGED mConnectionSubscribers
      BY <2>8 DEF AppStop, StopsLogs, StopsClock, StopsChannels, StopsIAMHandler, ClosesIAMChannel, JoinsIAMHandler, StopsOpenHandler,
         ClosesSM, AppStopped, clockVars, ClockSyncStop
    <3> QED
      BY <2>1, <2>2, <3>1, <3>2
  <2> QED
    BY <1>10, <2>4, <2>5, <2>6, <2>7, <2>8 DEF AppStep, AppThread
<1> QED
  BY <1>2, <1>4, <1>5, <1>6, <1>7, <1>8, <1>9, <1>10 DEF StepOf, SMStep

-----------------------------------------------------------------------------
(* A stopped node receives nothing.                                        *)

(* Every step keeps StopInv.                                               *)
LEMMA StopNext ==
  ASSUME StepTypeOK, StopInv, StepOf \/ UNCHANGED stepVars
  PROVE  StopInv'
<1> USE DEF StopInv
<1>1. Stopping = {"iamStop", "iamClosing", "iamJoin", "iamClose", "iamOwner", "openJoin", "smOwner", "stopped"}
  BY DEF Stopping
<1>2. CASE UNCHANGED stepVars
  BY <1>2 DEF stepVars, linkVars, clientVars, iamVars
<1>3. CASE ClockStep
  BY <1>3, ClockFrame DEF linkVars, clientVars, iamVars
<1>4. CASE OpenStep
  BY <1>4, OpenFrame DEF linkVars, clientVars, iamVars
<1>5. CASE LinkStep
  BY <1>5 DEF LinkStep, TransportUp, TransportDown, clientVars, iamVars
<1>6. CASE SMStep
  BY <1>6, SMForeign DEF smOthers, linkVars, iamVars
<1>7. CASE IAMOwnerStep
  BY <1>7, IAMOwnerForeign DEF iamOwnerOthers, linkVars
<1>8. CASE IAMHandlerStep
  BY <1>8, IAMHandlerForeign DEF iamOthers, linkVars
<1>9. CASE AppStep
  <2> USE DEF linkVars, clientVars, iamVars, AppGoes
  <2>1. CASE IAMStart
    BY <1>1, <2>1 DEF IAMStart
  <2>2. CASE SMReadsStatus
    BY <1>1, <2>2 DEF SMReadsStatus
  <2>3. CASE SMStart
    BY <1>1, <2>3 DEF SMStart
  <2>4. CASE AppStop \/ StopsLogs
    BY <1>1, <2>4 DEF AppStop, StopsLogs
  <2>5. CASE StopsClock
    BY <1>1, <2>5 DEF StopsClock
  <2>6. CASE StopsChannels
    BY <1>1, <2>6 DEF StopsChannels, ChannelManagerStop
  <2>7. CASE StopsIAMHandler \/ ClosesIAMChannel \/ JoinsIAMHandler
    BY <1>1, <2>7 DEF StopsIAMHandler, ClosesIAMChannel, JoinsIAMHandler
  <2>8. CASE ClosesIAM
    BY <1>1, <2>8 DEF ClosesIAM
  <2>9. CASE StopsOpenHandler
    BY <1>1, <2>9 DEF StopsOpenHandler
  <2>10. CASE ClosesSM \/ AppStopped
    BY <1>1, <2>10 DEF ClosesSM, AppStopped
  <2> QED
    BY <1>9, <2>1, <2>2, <2>3, <2>4, <2>5, <2>6, <2>7, <2>8, <2>9, <2>10 DEF AppStep, AppThread
<1> QED
  BY <1>2, <1>3, <1>4, <1>5, <1>6, <1>7, <1>8, <1>9 DEF StepOf, SMStep

-----------------------------------------------------------------------------
(* No client goes on with a channel that is no longer right.               *)

(* Every step keeps ChannelInv.                                            *)
LEMMA ChannelNext ==
  ASSUME StepTypeOK, RequestInv, StatusInv, StopInv, ChannelInv, StepOf \/ UNCHANGED stepVars
  PROVE  ChannelInv'
<1> USE DEF ChannelInv, ChannelIsCurrent, Port
<1>1. {"open", "iam", "sm"} = Handler
  BY DEF Handler
<1>2. CASE UNCHANGED stepVars
  BY <1>2 DEF stepVars, handlerVars, clientVars, iamVars, certVars, toldVars, smVars
<1>3. CASE ClockStep
  BY <1>3, ClockFrame DEF handlerVars, clientVars, iamVars, certVars, toldVars, smVars
<1>4. CASE OpenStep
  BY <1>1, <1>4, OpenFrame DEF clientVars, iamVars, certVars, toldVars, smVars
<1>5. CASE LinkStep
  BY <1>5 DEF LinkStep, TransportUp, TransportDown, handlerVars, clientVars, iamVars, certVars, toldVars, smVars
<1>6. CASE SMStep
  <2>1. UNCHANGED <<iamVars, handler["iam"]>>
        /\ ("iam" \in certSubscribers' <=> "iam" \in certSubscribers) /\ ("iam" \in stale' <=> "iam" \in stale)
    BY <1>1, <1>6, SMForeign DEF smOthers
  <2>2. CASE SMHandlerStep
    BY <2>1, <2>2, SMHandlerSteps DEF iamVars, certVars
  <2>3. CASE SenderStep
    BY <2>1, <2>3, SenderSteps DEF iamVars, certVars
  <2>4. CASE SMOwnerStep
    <3> USE DEF SMOwnerMoves, certVars, iamVars
    <3>1. CASE SMRelease \/ SMClosesChannel \/ SMExits \/ SMRetries \/ SMReleases
      BY <2>1, <3>1 DEF SMRelease, SMClosesChannel, SMExits, SMRetries, SMReleases
    <3>2. CASE SMJoins
      BY <2>1, <3>2 DEF SMJoins
    <3>3. CASE SMSetsUp
      BY <2>1, <3>3 DEF SMSetsUp
    <3>4. CASE SetTLSConfig
      BY <2>1, <3>4 DEF SetTLSConfig
    <3>5. CASE SMSetupFails
      BY <2>1, <3>5 DEF SMSetupFails
    <3> QED
      BY <2>4, <3>1, <3>2, <3>3, <3>4, <3>5 DEF SMOwnerStep, SMOwner
  <2> QED
    BY <1>6, <2>2, <2>3, <2>4 DEF SMStep
<1>7. CASE IAMOwnerStep
  <2>1. /\ UNCHANGED <<iamStatus, iamClose, smOwner, mCertificateChanged>>
        /\ handler["iam"] = "certChanged" => handler'["iam"] = "certChanged"
    BY <1>7, IAMOwnerForeign DEF iamOwnerOthers, toldVars, smVars, RequestInv, Working, Free, Nobody
  <2> USE DEF IAMOwnerGoes, certVars
  <2>2. CASE IAMRelease \/ IAMClosesChannel \/ IAMExits \/ IAMRetries \/ IAMReconnects
    BY <2>1, <2>2 DEF IAMRelease, IAMClosesChannel, IAMExits, IAMRetries, IAMReconnects
  <2>3. CASE IAMJoins
    BY <2>1, <2>3 DEF IAMJoins
  <2>4. CASE IAMSetupChannel
    BY <2>1, <2>4 DEF IAMSetupChannel
  <2>5. CASE IAMSetupFails
    BY <2>1, <2>5 DEF IAMSetupFails
  <2> QED
    BY <1>7, <2>2, <2>3, <2>4, <2>5, IAMOwnerCases
<1>8. CASE IAMHandlerStep
  <2>1. UNCHANGED <<iamClose, iamOwner, mCurrentPort, certSubscribers, smOwner>>
    BY <1>8, IAMHandlerForeign DEF iamOthers, smVars
  <2>2. CASE NothingDone
    BY <2>1, <2>2 DEF NothingDone, Remembered
  <2>3. CASE StatusSet
    <3>1. PICK s \in Status :
            /\ iamStatus' = s /\ mReconnect' = (mReconnect \/ ChangesProvisioning(s))
            /\ UNCHANGED <<stale, mCertificateChanged>> /\ handler["iam"] = "setStatus"
      BY <2>3 DEF StatusSet
    <3>2. mReconnect' = TRUE \/ (mReconnect' = mReconnect /\ Port' = Port)
      BY <3>1 DEF ChangesProvisioning, StepTypeOK, IAMClientTypeOK
    <3> QED
      BY <2>1, <3>1, <3>2
  <2>4. CASE StatusTold
    BY <2>1, <2>4 DEF StatusTold
  <2>5. CASE CertificateTold
    BY <2>1, <2>5 DEF CertificateTold
  <2>6. CASE CertificateApplied
    <3>1. PICK r \in {"applyIAM", "applySM"} :
            /\ UNCHANGED <<iamStatus, mCertificateChanged>> /\ up
            /\ handler["iam"] = "ready"
            /\ stale' = stale \union {Applies[r]}
            /\ mReconnect' = (mReconnect \/ (r = "applyIAM" /\ "iam" \in certSubscribers))
            /\ handler'["iam"] = IF r = "applySM" /\ "sm" \in certSubscribers THEN "certChanged" ELSE "answer"
      BY <2>6, Requests DEF CertificateApplied
    <3>2. ~iamClose
      BY <3>1 DEF StopInv
    <3>3. CASE r = "applyIAM"
      <4>1. stale' = stale \union {"iam"} /\ mReconnect' = (mReconnect \/ "iam" \in certSubscribers)
            /\ handler'["iam"] = "answer"
        BY <3>1, <3>3 DEF Applies
      <4> QED
        BY <2>1, <3>1, <3>2, <4>1
    <3>4. CASE r = "applySM"
      <4>1. stale' = stale \union {"sm"} /\ mReconnect' = mReconnect
            /\ handler'["iam"] = IF "sm" \in certSubscribers THEN "certChanged" ELSE "answer"
        BY <3>1, <3>4 DEF Applies, StepTypeOK, IAMClientTypeOK
      <4> QED
        BY <2>1, <3>1, <3>2, <4>1
    <3> QED
      BY <3>3, <3>4
  <2> QED
    BY <1>8, <2>2, <2>3, <2>4, <2>5, <2>6, IAMHandlerEffects
<1>9. CASE AppStep
  <2>1. handler'["iam"] = handler["iam"] /\ UNCHANGED <<mCertificateChanged, stale, mCurrentPort, mReconnect>>
    BY <1>9, AppFrame
  <2> USE DEF clientVars, iamVars, certVars, smVars
  <2>2. CASE IAMStart
    BY <2>1, <2>2 DEF IAMStart
  <2>3. CASE SMStart
    BY <2>1, <2>3 DEF SMStart
  <2>4. CASE ClosesIAM
    BY <2>1, <2>4 DEF ClosesIAM
  <2>5. CASE UNCHANGED <<iamStatus, iamClose, iamOwner, smOwner, certSubscribers>>
    BY <2>1, <2>5
  <2> QED
    BY <1>9, <2>2, <2>3, <2>4, <2>5 DEF AppStep, AppThread, AppStop, SMReadsStatus, StopsLogs, StopsClock,
       StopsChannels, StopsIAMHandler, ClosesIAMChannel, JoinsIAMHandler, StopsOpenHandler, ClosesSM, AppStopped
<1> QED
  BY <1>2, <1>3, <1>4, <1>5, <1>6, <1>7, <1>8, <1>9 DEF StepOf, SMStep

-----------------------------------------------------------------------------
(* SMClient does not set up a channel that its handler still uses.         *)

(* Every step keeps SMInv.                                                 *)
LEMMA SMNext ==
  ASSUME StepTypeOK, SMInv, StepOf \/ UNCHANGED stepVars
  PROVE  SMInv'
<1> USE DEF SMInv
<1>1. {"open", "iam", "sm"} = Handler /\ Starting = {"start", "iamStarted", "smStarting"} /\ HandlerTypeOK
  BY HandlerTypes DEF Handler, Starting
<1>2. {"none", "connecting", "retry", "connected", "onConnect"} \intersect DOMAIN Needs = {}
  BY DEF Needs
<1>3. CASE UNCHANGED stepVars
  BY <1>3 DEF stepVars, handlerVars, clientVars, smVars
<1>4. CASE ClockStep
  BY <1>4, ClockFrame DEF handlerVars, clientVars, smVars
<1>5. CASE OpenStep
  BY <1>1, <1>5, OpenFrame DEF clientVars, smVars
<1>6. CASE LinkStep
  BY <1>6 DEF LinkStep, TransportUp, TransportDown, handlerVars, clientVars, smVars
<1>7. CASE IAMOwnerStep
  BY <1>1, <1>7, IAMOwnerForeign DEF iamOwnerOthers, smVars
<1>8. CASE IAMHandlerStep
  BY <1>1, <1>8, IAMHandlerForeign DEF iamOthers, smVars
<1>9. CASE SenderStep
  BY <1>9, SMFrame, SenderSteps DEF SMStep, smOthers, handlerVars
<1>10. CASE SMHandlerStep
  <2>1. UNCHANGED <<mStarted, smOwner, smClose, app>>
    BY <1>10, SMFrame, SMHandlerSteps DEF SMStep, smOthers
  <2>2. ASSUME NEW from, NEW to \in Points, SMLocks(from, to)
        PROVE  handler["sm"] = from /\ handler'["sm"] = to /\ subscribersOn' = subscribersOn
    BY <1>1, <2>2 DEF SMLocks, Goes, HandlerTypeOK
  <2>3. ASSUME NEW from, SMReady(from)
        PROVE  handler["sm"] = from /\ handler'["sm"] = "ready"
    BY <1>1, <2>3 DEF SMReady, Goes, HandlerTypeOK
  <2>4. CASE SMConnects
    <3>1. Connect("sm") \/ ConnectFails("sm") \/ Reconnect("sm")
      BY <2>4 DEF SMConnects
    <3>2. handler["sm"] \in {"connecting", "retry"} /\ subscribersOn' = subscribersOn
      BY <2>4 DEF SMConnects, Connect, ConnectFails, Reconnect, Goes
    <3>3. handler'["sm"] = "none" => ~mStarted["sm"]
      BY <1>1, <3>1, ConnectionSteps
    <3> QED
      BY <1>2, <2>1, <3>2, <3>3
  <2>5. CASE OnConnect
    <3>1. handler["sm"] = "connected" /\ handler'["sm"] = "onConnect" /\ subscribersOn' = subscribersOn
      BY <2>2, <2>5 DEF OnConnect, Points
    <3> QED
      BY <1>2, <2>1, <3>1
  <2>6. CASE OnConnected
    <3>1. handler["sm"] = "onConnect" /\ handler'["sm"] = "ready"
      BY <2>3, <2>6 DEF OnConnected
    <3> QED
      BY <2>1, <3>1
  <2>7. CASE OnDisconnect
    <3>1. /\ handler["sm"] = "ready" /\ subscribersOn' = (subscribersOn /\ smClose)
      BY <2>7 DEF OnDisconnect, Disconnect, Goes
    <3> QED
      BY <2>1, <3>1
  <2>8. CASE \E m \in DOMAIN Needs : Process(m)
    <3>1. PICK m \in DOMAIN Needs : handler["sm"] = m /\ handler'["sm"] = "ready" /\ subscribersOn' = subscribersOn
      BY <2>3, <2>8 DEF Process
    <3> QED
      BY <1>2, <2>1, <3>1
  <2>9. CASE \E m \in DOMAIN Needs : ReceiveMessage(m)
    <3>1. PICK m \in DOMAIN Needs : handler["sm"] = "ready" /\ handler'["sm"] = m /\ subscribersOn' = subscribersOn
      BY <2>2, <2>9 DEF ReceiveMessage, Points
    <3> QED
      BY <1>2, <2>1, <3>1
  <2> QED
    BY <1>10, <2>4, <2>5, <2>6, <2>7, <2>8, <2>9 DEF SMHandlerStep, SMHandler, SMRequests
<1>11. CASE SMOwnerStep
  <2>1. UNCHANGED <<smClose, app>>
    BY <1>11, SMFrame DEF SMStep, smOthers
  <2>2. UNCHANGED subscribersOn /\ smOwner # "none"
    BY <1>11 DEF SMOwnerStep, SMOwner, SMOwnerMoves, SMRelease, SMClosesChannel, SMJoins, SMExits, SMSetsUp,
       SetTLSConfig, SMSetupFails, SMRetries, SMReleases
  <2> USE <2>1, <2>2 DEF SMOwnerMoves
  <2>3. CASE SMRelease
    <3>1. handler' = handler /\ ~mStarted'["sm"] /\ smOwner = "release"
          /\ smOwner' = IF mStarted["sm"] THEN "closing" ELSE "wait"
      BY <1>1, <2>3 DEF SMRelease, HandlerStop, HandlerTypeOK
    <3> QED
      BY <3>1
  <2>4. CASE SMClosesChannel
    BY <2>4 DEF SMClosesChannel, HandlerClose
  <2>5. CASE SMJoins
    BY <2>5 DEF SMJoins, Joined, handlerVars
  <2>6. CASE SetTLSConfig
    <3>1. handler'["sm"] = "connecting" /\ mStarted'["sm"] /\ smOwner = "setup" /\ smOwner' = "serving"
      BY <1>1, <2>6, OwnerSteps DEF SetTLSConfig
    <3> QED
      BY <1>2, <3>1
  <2>7. CASE SMExits \/ SMRetries \/ SMReleases \/ SMSetupFails \/ SMSetsUp
    BY <2>7 DEF SMExits, SMRetries, SMReleases, SMSetupFails, SMSetsUp, handlerVars
  <2> QED
    BY <1>11, <2>3, <2>4, <2>5, <2>6, <2>7 DEF SMOwnerStep, SMOwner
<1>12. CASE AppStep
  <2>1. handler'["sm"] = handler["sm"] /\ mStarted'["sm"] = mStarted["sm"] /\ subscribersOn' = subscribersOn
    BY <1>12, AppFrame
  <2> USE <2>1 DEF clientVars, smVars, AppGoes
  <2>2. CASE SMStart
    BY <1>1, <2>2 DEF SMStart
  <2>3. CASE ClosesSM
    BY <1>1, <2>3 DEF ClosesSM
  <2>4. CASE AppStop \/ StopsLogs \/ StopsClock \/ StopsChannels \/ StopsIAMHandler \/ ClosesIAMChannel \/ JoinsIAMHandler
              \/ StopsOpenHandler \/ ClosesIAM \/ AppStopped
    <3>1. app' \notin Starting /\ UNCHANGED <<smOwner, smClose>>
      BY <1>1, <2>4 DEF AppStop, StopsLogs, StopsClock, StopsChannels, StopsIAMHandler, ClosesIAMChannel, JoinsIAMHandler,
         StopsOpenHandler, ClosesIAM, AppStopped
    <3> QED
      BY <3>1
  <2>5. CASE IAMStart \/ SMReadsStatus
    <3>1. app \in Starting /\ UNCHANGED <<smOwner, smClose>>
      BY <1>1, <2>5 DEF IAMStart, SMReadsStatus
    <3> QED
      BY <3>1
  <2> QED
    BY <1>12, <2>2, <2>3, <2>4, <2>5 DEF AppStep, AppThread
<1> QED
  BY <1>3, <1>4, <1>5, <1>6, <1>7, <1>8, <1>9, <1>10, <1>11, <1>12 DEF StepOf, SMStep

-----------------------------------------------------------------------------
(* The theorems.                                                           *)

(* All parts hold at the start.                                            *)
LEMMA InvInit == ASSUME Init PROVE IInv
<1>1. /\ handler = [h \in Handler |-> "none"] /\ mStarted = [h \in Handler |-> FALSE]
      /\ lock = [m \in Mutex |-> Nobody] /\ mClockSynced = [c \in Client |-> FALSE]
      /\ mConnectionSubscribers = << >> /\ toNotify = << >> /\ clockThread = "waiting" /\ app = "start"
  BY DEF Init, HandlersInit, ClockSyncInit
<1>2. /\ handler["iam"] = "none" /\ handler["sm"] = "none" /\ handler["open"] = "none" /\ ~mStarted["sm"]
      /\ lock["iam"] = Nobody /\ lock["node"] = Nobody /\ lock["clock"] = Nobody
      /\ \A c \in Client : ~mClockSynced[c]
  BY <1>1 DEF Handler, Mutex
<1>3. RequestInv
  BY <1>2 DEF RequestInv, Init, IAMClientInit, Working
<1>4. StatusInv /\ StopInv /\ ProvisionedInv
  BY <1>1, <1>2 DEF StatusInv, StopInv, ProvisionedInv, SMFollowsStatus, Init, HandlersInit, IAMClientInit, Stopping
<1>5. ClockInv
  BY <1>1, <1>2 DEF ClockInv, Init, ClockSyncInit, Calling
<1>6. ChannelInv /\ SMInv
  BY <1>1, <1>2 DEF ChannelInv, ChannelIsCurrent, SMInv, Init, IAMClientInit, SMClientInit
<1> QED
  BY <1>3, <1>4, <1>5, <1>6 DEF IInv

(* Every step keeps all of them.                                           *)
LEMMA InvNext == ASSUME TypeOK, IInv, [Next]_vars PROVE IInv'
BY TypeSplits, NextIsStep, RequestNext, StatusNext, ProvisionedNext, ClockNext, StopNext, ChannelNext,
   SMNext DEF IInv

(* The invariant holds in every state: the mutexes a request holds         *)
(* (iamclient.cpp:219-283), the copies of the status, what SMClient::Start *)
(* has read of it (smclient.cpp:264-291), the list of who is still to be   *)
(* told about the clock (clocksync.cpp:120-175), the silence after         *)
(* App::Stop (app.cpp:85-118), the subscriptions to certificates and the   *)
(* owner of the channel of SMClient (smclient.cpp:898-931).                *)
THEOREM NodeInvariant == Spec => []IInv
BY InvInit, InvNext, NodeTypes, PTL DEF Spec

(* Both clients know whether the clock is synchronised, whenever ClockSync *)
(* is not telling them, however their subscriptions and the notifications  *)
(* of its thread interleave (clocksync.cpp:123-157).                       *)
THEOREM ClockIsKnown == Spec => []ClientsKnowClock
<1>1. ClockInv => ClientsKnowClock
  <2> SUFFICES ASSUME ClockInv, Free("clock"), NEW i \in DOMAIN mConnectionSubscribers
               PROVE  mClockSynced[mConnectionSubscribers[i]] = mSynced
    BY DEF ClientsKnowClock
  <2>1. clockThread \notin Calling
    BY DEF ClockInv, Free, Nobody
  <2>2. toNotify = << >>
    BY <2>1 DEF ClockInv
  <2> QED
    BY <2>2 DEF ClockInv
<1> QED
  BY <1>1, NodeInvariant, PTL DEF IInv

(* Neither client keeps a channel that was set up for another status or    *)
(* with a certificate that was replaced, unless it has been told to start  *)
(* over (iamclient.cpp:136, 159; smclient.cpp:446, 854).                   *)
THEOREM ChannelsAreCurrent == Spec => []ChannelIsCurrent
<1>1. IInv => ChannelIsCurrent
  BY DEF IInv, ChannelInv
<1> QED
  BY <1>1, NodeInvariant, PTL

(* The subscribers of SMClient take the node for connected only while its  *)
(* handler serves a connection: not while it is stopped, connects again,   *)
(* waits to try again or is before its OnConnect (smclient.cpp:510-519).   *)
(* Once SMClient::Stop has cleared the subscribers nothing is said of them.*)
THEOREM ConnectionIsKnown == Spec => []SubscribersKnowConnection
<1>1. IInv => SubscribersKnowConnection
  BY DEF IInv, SMInv, SubscribersKnowConnection, Needs
<1> QED
  BY <1>1, NodeInvariant, PTL

(* SMClient takes the node for provisioned exactly when it is, whenever    *)
(* nobody is changing the status: also after a round of observers that     *)
(* ended before SMClient was called (nodeinfoprovider.cpp:261-265), and    *)
(* although SMClient::Start reads the status before it subscribes to its   *)
(* changes (smclient.cpp:264-291).  A change in between would be missed;   *)
(* none is possible, since IAMClient serves no request before the clock is *)
(* synchronised, and nothing synchronises it before the open handler runs, *)
(* which Start starts later.                                               *)
THEOREM StatusIsFollowed == Spec => []SMFollowsStatus
<1>1. IInv => SMFollowsStatus
  BY DEF IInv, ProvisionedInv
<1> QED
  BY <1>1, NodeInvariant, PTL

(* A change of the status is answered without an error only when it was    *)
(* made and SMClient, if it has subscribed, has been told                  *)
(* (iamclient.cpp:509).                                                    *)
THEOREM AnswersAreTrue == Spec => []AnsweredMeansDone
<1>1. IInv => AnsweredMeansDone
  <2> SUFFICES ASSUME IInv, handler["iam"] = "answer", request \in DOMAIN Target
               PROVE  /\ status = Target[request] /\ iamStatus = Target[request]
                      /\ "sm" \in mStatusChangedSubscribers => mProvisioned = (Target[request] # "unprovisioned")
    BY DEF AnsweredMeansDone
  <2>1. status = Target[request] /\ iamStatus = status
    BY DEF IInv, StatusInv
  <2>2. Free("node")
    BY DEF IInv, RequestInv, Free
  <2> QED
    BY <2>1, <2>2 DEF IInv, ProvisionedInv, SMFollowsStatus
<1> QED
  BY <1>1, NodeInvariant, PTL
==============================================================================
