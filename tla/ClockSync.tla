----------------------------- MODULE ClockSync -----------------------------
(***************************************************************************)
(* ClockSync and OpenHandler: the thread of ClockSync asks for the time    *)
(* over the open channel and tells its subscribers when the clock is       *)
(* synchronised and when it no longer is.  It keeps its mutex while it     *)
(* sends and while it calls the subscribers, and these take theirs.        *)
(*                                                                         *)
(* How long ago the last Sync was is not modelled: a wait of the thread    *)
(* may end with mSyncTime too old whenever nothing else is due.            *)
(***************************************************************************)
EXTENDS Handlers

Sequence == INSTANCE SequencesExt

VARIABLES
  clockThread,
  mSync, mSynced,
  mStart, mClockStarted,
  mClockClose,
  mConnectionSubscribers,  \* in the order of Subscribe
  toNotify,                \* who ClockSyncNotification has still to call
  mClockSynced             \* mClockSynced of each client

Client    == {"iam", "sm"}
clockVars == <<clockThread, mSync, mSynced, mStart, mClockStarted, mClockClose,
               mConnectionSubscribers, toNotify, mClockSynced>>

ClockSyncInit ==
  /\ clockThread = "waiting"
  /\ mSync = FALSE /\ mSynced = FALSE
  /\ mStart = FALSE /\ mClockStarted = FALSE /\ mClockClose = FALSE
  /\ mConnectionSubscribers = << >> /\ toNotify = << >>
  /\ mClockSynced = [c \in Client |-> FALSE]

-----------------------------------------------------------------------------
(* The thread of ClockSync.                                                *)

ClockGoes(from, to) == clockThread = from /\ clockThread' = to

ClockExits ==
  /\ mClockClose /\ Free("clock")
  /\ ClockGoes("waiting", "exited")
  /\ UNCHANGED <<mSync, mSynced, mStart, mClockStarted, mClockClose, mConnectionSubscribers,
                 toNotify, mClockSynced, lock>>

ClockSyncNotification(synced, then) ==
  /\ mSynced' = synced
  /\ toNotify' = mConnectionSubscribers
  /\ Take({"clock"}, "clock")
  /\ ClockGoes("waiting", then)

(* mStart becomes mStarted, whatever the thread woke up for.               *)
Starts == mStart' = FALSE /\ mClockStarted' = (mStart \/ mClockStarted)

ClockWakes == ~mClockClose /\ Free("clock") /\ Starts

TakesSync ==
  /\ ClockWakes
  /\ mSync /\ mSync' = FALSE
  /\ ClockSyncNotification(TRUE, "notifying")
  /\ UNCHANGED <<mClockClose, mConnectionSubscribers, mClockSynced>>

SyncTimeout ==
  /\ ClockWakes
  /\ ~mSync /\ mSynced
  /\ ClockSyncNotification(FALSE, "notifyingLost")
  /\ UNCHANGED <<mSync, mClockClose, mConnectionSubscribers, mClockSynced>>

(* Start has woken the thread, or the period is over.                      *)
WakesToSend ==
  /\ ClockWakes
  /\ ~mSync /\ mClockStarted'
  /\ ClockGoes("waiting", "sending")
  /\ Take({"clock"}, "clock")
  /\ UNCHANGED <<mSync, mSynced, mClockClose, mConnectionSubscribers, toNotify,
                 mClockSynced>>

Bug_NotifySubscriber ==
  /\ clockThread \in {"notifying", "notifyingLost"} /\ toNotify # << >>
  /\ Free(Head(toNotify))
  /\ mClockSynced' = [mClockSynced EXCEPT ![Head(toNotify)] = TRUE]
  /\ toNotify' = Tail(toNotify)
  /\ UNCHANGED <<clockThread, mSync, mSynced, mStart, mClockStarted, mClockClose,
                 mConnectionSubscribers, lock>>

(* OnClockSynced and OnClockUnsynced of a client take its mutex.           *)
NotifySubscriber ==
  /\ clockThread \in {"notifying", "notifyingLost"} /\ toNotify # << >>
  /\ Free(Head(toNotify))
  /\ mClockSynced' = [mClockSynced EXCEPT ![Head(toNotify)] = mSynced]
  /\ toNotify' = Tail(toNotify)
  /\ UNCHANGED <<clockThread, mSync, mSynced, mStart, mClockStarted, mClockClose,
                 mConnectionSubscribers, lock>>

Notified ==
  /\ toNotify = << >>
  /\ \/ ClockGoes("notifying", "waiting") /\ Leave({"clock"})
     \/ mClockStarted /\ ClockGoes("notifyingLost", "sending") /\ UNCHANGED lock
     \/ ~mClockStarted /\ ClockGoes("notifyingLost", "waiting") /\ Leave({"clock"})
  /\ UNCHANGED <<mSync, mSynced, mStart, mClockStarted, mClockClose, mConnectionSubscribers,
                 toNotify, mClockSynced>>

(* SendClockSyncRequest; a failure is only logged.                         *)
SendClockSyncRequest ==
  /\ ChannelFree("open")
  /\ ClockGoes("sending", "waiting")
  /\ Leave({"clock"})
  /\ UNCHANGED <<mSync, mSynced, mStart, mClockStarted, mClockClose, mConnectionSubscribers,
                 toNotify, mClockSynced>>

ClockThread ==
  /\ \/ ClockExits \/ TakesSync \/ (mStart /\ WakesToSend)
     \/ NotifySubscriber \/ Notified \/ SendClockSyncRequest
  /\ UNCHANGED <<linkVars, handlerVars>>

ClockPeriod ==
  /\ SyncTimeout \/ (~mStart /\ WakesToSend)
  /\ UNCHANGED <<linkVars, handlerVars>>

-----------------------------------------------------------------------------
(* What other threads call.                                                *)

ClockSyncSubscribe(c) ==
  /\ Free("clock")
  /\ mConnectionSubscribers' = Append(mConnectionSubscribers, c)
  /\ UNCHANGED <<clockThread, mSync, mSynced, mStart, mClockStarted, mClockClose, toNotify,
                 mClockSynced>>

ClockSyncUnsubscribe(c) ==
  /\ Free("clock")
  /\ mConnectionSubscribers' = Sequence!RemoveFirst(mConnectionSubscribers, c)
  /\ UNCHANGED <<clockThread, mSync, mSynced, mStart, mClockStarted, mClockClose, toNotify,
                 mClockSynced>>

ClockSyncStop ==
  /\ Free("clock")
  /\ mClockClose' = TRUE
  /\ UNCHANGED <<clockThread, mSync, mSynced, mStart, mClockStarted, mConnectionSubscribers,
                 toNotify, mClockSynced>>

-----------------------------------------------------------------------------
(* OpenHandler: OnConnect calls Start, a message of the peer Sync.  A Sync *)
(* that cannot set the clock changes nothing, and one that comes when the  *)
(* clock is synchronised only puts off the next timeout.                   *)

OpenOnConnect ==
  /\ Free("clock")
  /\ Goes("open", "connected", "ready")
  /\ mStart' = TRUE
  /\ UNCHANGED <<clockThread, mSync, mSynced, mClockStarted, mClockClose,
                 mConnectionSubscribers, toNotify, mClockSynced,
                 mStarted, closed, linkVars, lock>>

Sync ==
  /\ CanReceive("open") /\ Free("clock")
  /\ ~mSynced /\ mSync' = TRUE
  /\ UNCHANGED <<clockThread, mSynced, mStart, mClockStarted, mClockClose,
                 mConnectionSubscribers, toNotify, mClockSynced,
                 handlerVars, linkVars, lock>>

OpenHandler ==
  \/ (Connect("open") \/ ConnectFails("open") \/ Reconnect("open") \/ Disconnect("open"))
       /\ UNCHANGED clockVars
  \/ OpenOnConnect

ClockSyncTypeOK ==
  /\ clockThread \in {"waiting", "notifying", "notifyingLost", "sending", "exited"}
  /\ mSync \in BOOLEAN /\ mSynced \in BOOLEAN /\ mStart \in BOOLEAN
  /\ mClockStarted \in BOOLEAN /\ mClockClose \in BOOLEAN
  /\ mConnectionSubscribers \in Seq(Client) /\ toNotify \in Seq(Client)
  /\ mClockSynced \in [Client -> BOOLEAN]
=============================================================================
