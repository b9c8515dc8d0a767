------------------------------ MODULE Handlers ------------------------------
(***************************************************************************)
(* What the clients of a node share: the connection of ChannelManager, a   *)
(* handler (PBHandler) on a channel for each of OpenHandler, IAMClient and *)
(* SMClient, and the mutexes that a thread keeps while it waits for        *)
(* another one.                                                            *)
(*                                                                         *)
(* Module Communication has the steps of ChannelManager, Channel and       *)
(* PBHandler one by one.  Here a handler connects in one step, and the     *)
(* lock of its channel is held exactly while it is connecting: Channel     *)
(* keeps it while ChannelManager::Connect waits for the transport.         *)
(***************************************************************************)
EXTENDS Integers, Sequences, FiniteSets

CONSTANT Overlap   \* FALSE: see Node

ASSUME HandlersAssumption == Overlap \in BOOLEAN

VARIABLES
  up,         \* the transport is open
  mClose,     \* ChannelManager::mClose
  handler,    \* the thread of each handler
  mStarted,   \* PBHandler::mStarted
  closed,     \* the handlers whose channel is closed
  lock        \* the thread that holds each mutex

Handler == {"open", "iam", "sm"}
Mutex   == {"clock", "node", "iam", "sm", "download", "log"}
Thread  == {"clock", "iam", "sm", "setup", "sender"}
Nobody  == "none"

linkVars    == <<up, mClose>>
handlerVars == <<handler, mStarted, closed>>

HandlersInit ==
  /\ up = FALSE /\ mClose = FALSE
  /\ handler = [h \in Handler |-> "none"] /\ mStarted = [h \in Handler |-> FALSE]
  /\ closed = {}
  /\ lock = [m \in Mutex |-> Nobody]

Free(m)          == lock[m] = Nobody
ChannelFree(h)   == handler[h] # "connecting"
Goes(h, from, to) == handler[h] = from /\ handler' = [handler EXCEPT ![h] = to]
Take(M, t)       == lock' = [m \in Mutex |-> IF m \in M THEN t ELSE lock[m]]
Leave(M)         == Take(M, Nobody)

-----------------------------------------------------------------------------
(* The connection: TryConnect, a failure of HandleRead, and Stop.          *)

Running == {h \in Handler : handler[h] \notin {"none", "retry", "connecting"}}

TransportUp ==
  /\ ~up /\ ~mClose
  /\ up' = TRUE
  /\ UNCHANGED <<mClose, handlerVars, lock>>

TransportDown ==
  /\ up /\ up' = FALSE
  /\ closed' = closed \union Running
  /\ UNCHANGED <<mClose, handler, mStarted, lock>>

ChannelManagerStop ==
  /\ up' = FALSE /\ mClose' = TRUE
  /\ closed' = closed \union Running
  /\ UNCHANGED <<handler, mStarted, lock>>

-----------------------------------------------------------------------------
(* PBHandler.                                                              *)

HandlerStart(h) ==
  /\ mStarted' = [mStarted EXCEPT ![h] = TRUE]
  /\ handler' = [handler EXCEPT ![h] = "connecting"]
  /\ closed' = closed \ {h}

(* Stop, up to its join, and its join.  Close waits for the lock of the    *)
(* channel; when Stop finds the handler not started it is over at once.    *)
HandlerStop(h) ==
  /\ mStarted' = [mStarted EXCEPT ![h] = FALSE]
  /\ UNCHANGED <<handler, closed>>

(* The definitions named Bug_... are not part of the specification: each   *)
(* is a plausible slip in the definition that follows it, which a property *)
(* must catch.                                                             *)
Bug_HandlerClose(h) ==
  /\ ChannelFree(h)
  /\ closed' = closed \union {handler[h]}
  /\ UNCHANGED <<handler, mStarted>>

HandlerClose(h) ==
  /\ ChannelFree(h)
  /\ closed' = closed \union {h}
  /\ UNCHANGED <<handler, mStarted>>

Joined(h) == handler[h] = "none"

Connect(h) ==
  /\ up
  /\ Goes(h, "connecting", "connected")
  /\ closed' = closed \ {h}
  /\ UNCHANGED <<mStarted, linkVars, lock>>

ConnectFails(h) ==
  /\ mClose
  /\ Goes(h, "connecting", "retry")
  /\ UNCHANGED <<mStarted, closed, linkVars, lock>>

Bug_AfterRun(h) == "none"

AfterRun(h) == IF mStarted[h] THEN "connecting" ELSE "none"

Bug_Reconnect(h) ==
  /\ Goes(h, "retry", "connecting")
  /\ UNCHANGED <<mStarted, closed, linkVars, lock>>

(* Until the handler is stopped it would only fail to connect again.       *)
Reconnect(h) ==
  /\ ~mStarted[h]
  /\ Goes(h, "retry", "none")
  /\ UNCHANGED <<mStarted, closed, linkVars, lock>>

(* Read fails, and OnDisconnect follows.                                   *)
Disconnect(h) ==
  /\ h \in closed
  /\ Goes(h, "ready", AfterRun(h))
  /\ UNCHANGED <<mStarted, closed, linkVars, lock>>

CanReceive(h) == up /\ h \notin closed /\ handler[h] = "ready"
=============================================================================
