------------------------------ MODULE Channel ------------------------------
(***************************************************************************)
(* One logical channel: the hand-over of received bytes from the thread of *)
(* ChannelManager (ProcessData, WaitRead, ReadDone) to the thread of a     *)
(* protobuf handler (PBHandler::Run, Channel::Read).                       *)
(*                                                                         *)
(* Read publishes a buffer in mBuffer and mBufferLen and sleeps;           *)
(* ProcessData fetches that buffer with WaitRead, copies a piece of its    *)
(* frame into it outside the lock of the channel and calls ReadDone.       *)
(* Every critical section of Channel::mMutex is one step, but for Connect, *)
(* which keeps the lock while it waits for ChannelManager::mMutex and for  *)
(* the transport; ProcessData keeps ChannelManager::mMutex from its first  *)
(* WaitRead to the end of the frame.  PBHandler::Stop closes the channel   *)
(* at any time, and its owner may delete and make it again.  The other     *)
(* threads that meet at these locks, and the Stop of ChannelManager, are   *)
(* the subject of module Communication.                                    *)
(*                                                                         *)
(* The peer sends messages: HeaderSize bytes that carry the size of the    *)
(* payload, then the payload.  A byte is the pair of the number of its     *)
(* message and its place in it, so that a property can tell a byte that is *)
(* lost, repeated or misplaced.                                            *)
(***************************************************************************)
EXTENDS Integers, Sequences

CONSTANTS
  HeaderSize,     \* sizeof(AosProtobufHeader)
  ReceiveSize,    \* mReceiveBuffer.Size()
  Payloads,       \* payload sizes of the messages the peer sends, in order
  WholeReads,     \* TRUE: no frame ends inside a header or inside a payload
  PeerWaits,      \* TRUE: the peer sends only to a handler that has connected
  TimeoutsHappen, \* TRUE: a WaitRead may last longer than cWaitReadPeriod
  MaxFailures,    \* bound on the number of transport failures
  MaxStops        \* bound on the number of calls of PBHandler::Stop

ASSUME ChannelAssumption ==
  /\ HeaderSize \in Nat \ {0}
  /\ ReceiveSize \in Nat
  /\ Payloads \in Seq(Nat)
  /\ WholeReads \in BOOLEAN
  /\ PeerWaits \in BOOLEAN
  /\ TimeoutsHappen \in BOOLEAN
  /\ MaxFailures \in Nat /\ MaxStops \in Nat

VARIABLES
  mReadReady, mClose, mBuffer, mBufferLen,  \* the fields of Channel
  memory,      \* the buffers of the handler: header and mReceiveBuffer
  mStarted,    \* of PBHandler
  clPc,        \* where the handler's thread is
  request,     \* the arguments of its current call of Read
  delivered,   \* the messages it handed to ReceiveMessage
  cmPc,        \* where the thread of ChannelManager is
  frame,       \* the frame in mTmpReadBuffer: bytes pos+1..last of message msg
  piece,       \* buffer and size fetched by WaitRead, locals of ProcessData
  failures,    \* transport failures so far
  stops        \* calls of PBHandler::Stop so far

chVars == <<mReadReady, mClose, mBuffer, mBufferLen>>
clVars == <<clPc, request, delivered>>
cmVars == <<cmPc, frame, piece, failures>>
ownVars == <<mStarted, stops>>
vars   == <<chVars, memory, clVars, cmVars, ownVars>>

Buffers  == {"header", "receive"}
Cap(b)   == IF b = "header" THEN HeaderSize ELSE ReceiveSize
NoByte   == <<0, 0>>
Byte     == Nat \X Nat

MsgSize(m) == HeaderSize + Payloads[m]

HeaderRequest == [buf |-> "header", size |-> HeaderSize]

(* The payload of message m, and the data sizes a header buffer can be read *)
(* as: the true one when it holds the header of a message, anything else    *)
(* when it holds other bytes.                                               *)
Payload(m) == [i \in 1..Payloads[m] |-> <<m, HeaderSize + i>>]
Messages   == [m \in DOMAIN Payloads |-> Payload(m)]

IsHeaderOf(m, bytes) == \A i \in 1..HeaderSize : bytes[i] = <<m, i>>
DataSizes(bytes) ==
  IF \E m \in DOMAIN Payloads : IsHeaderOf(m, bytes)
    THEN {Payloads[m] : m \in {k \in DOMAIN Payloads : IsHeaderOf(k, bytes)}}
    ELSE 0..(ReceiveSize + 1)

(* Who holds the locks between two steps: the handler Channel::mMutex, the *)
(* thread of ChannelManager its own.                                       *)
ChannelLockFree == clPc # "connecting"
ManagerLockFree == cmPc \notin {"waitRead", "copy", "readDone"}

Init ==
  /\ mReadReady = FALSE /\ mClose = FALSE
  /\ mBuffer = [buf |-> "header", off |-> 0] /\ mBufferLen = 0
  /\ memory = [b \in Buffers |-> [i \in 1..Cap(b) |-> NoByte]]
  /\ clPc = "check" /\ request = HeaderRequest /\ delivered = << >>
  /\ cmPc = "transport" /\ frame = [msg |-> 1, pos |-> 0, last |-> 0]
  /\ piece = [buf |-> "header", off |-> 0, len |-> 0]
  /\ failures = 0 /\ mStarted = TRUE /\ stops = 0

-----------------------------------------------------------------------------
(* The thread of the handler: PBHandler::Run and Channel::Read.            *)

(* The definitions named Bug_... are not part of the specification: each is *)
(* a plausible slip in the operator that follows it, which a property must  *)
(* catch.                                                                   *)
CheckStarted ==
  /\ clPc = "check"
  /\ clPc' = IF mStarted THEN "connect" ELSE "ended"
  /\ UNCHANGED <<chVars, memory, request, delivered, cmVars, ownVars>>

(* Connect takes Channel::mMutex; a WaitRead that sleeps has released it.  *)
LockForConnect ==
  /\ clPc = "connect"
  /\ clPc' = "connecting"
  /\ UNCHANGED <<chVars, memory, request, delivered, cmVars, ownVars>>

Bug_ConnectStaysClosed ==
  /\ clPc = "connecting" /\ cmPc = "transport"
  /\ clPc' = "ready" /\ request' = HeaderRequest
  /\ UNCHANGED <<chVars, memory, delivered, cmVars, ownVars>>

(* Connect succeeds with the transport open and ChannelManager::mMutex     *)
(* free.                                                                   *)
Connect ==
  /\ clPc = "connecting" /\ cmPc = "transport"
  /\ mClose' = FALSE
  /\ clPc' = "ready" /\ request' = HeaderRequest
  /\ UNCHANGED <<mReadReady, mBuffer, mBufferLen, memory, delivered, cmVars, ownVars>>

(* What Run does with the bytes of a Read that returned its full size.     *)
Returned ==
  /\ clPc' = "ready"
  /\ \/ /\ request.buf = "header"
        /\ \E n \in DataSizes(memory["header"]) :
             request' = IF n > ReceiveSize THEN HeaderRequest
                                           ELSE [buf |-> "receive", size |-> n]
        /\ UNCHANGED delivered
     \/ /\ request.buf = "receive"
        /\ delivered' = Append(delivered, SubSeq(memory["receive"], 1, request.size))
        /\ request' = HeaderRequest

Bug_PublishNegative(got) ==
  /\ mReadReady' = TRUE
  /\ mBuffer' = [buf |-> request.buf, off |-> got]
  /\ mBufferLen' = got - request.size
  /\ clPc' = "asleep"
  /\ UNCHANGED <<mClose, memory, request, delivered, cmVars, ownVars>>

Bug_PublishWholeSize(got) ==
  /\ mReadReady' = TRUE
  /\ mBuffer' = [buf |-> request.buf, off |-> got]
  /\ mBufferLen' = request.size
  /\ clPc' = "asleep"
  /\ UNCHANGED <<mClose, memory, request, delivered, cmVars, ownVars>>

(* One turn of the loop of Read, got bytes after the start of the buffer:  *)
(* publish the rest of the buffer, wake WaitRead, go to sleep.             *)
Publish(got) ==
  /\ mReadReady' = TRUE
  /\ mBuffer' = [buf |-> request.buf, off |-> got]
  /\ mBufferLen' = request.size - got
  /\ clPc' = "asleep"
  /\ UNCHANGED <<mClose, memory, request, delivered, cmVars, ownVars>>

ReadStart == clPc = "ready" /\ request.size > 0 /\ Publish(0)

ReadNothing ==
  /\ clPc = "ready" /\ request.size = 0
  /\ mBufferLen' = 0
  /\ Returned
  /\ UNCHANGED <<mReadReady, mClose, mBuffer, memory, cmVars, ownVars>>

ReadMore ==
  /\ clPc = "asleep" /\ ~mReadReady /\ ~mClose
  /\ mBufferLen < request.size
  /\ Publish(mBufferLen)

ReadReturn ==
  /\ clPc = "asleep" /\ ~mReadReady /\ ~mClose
  /\ mBufferLen >= request.size
  /\ Returned
  /\ UNCHANGED <<chVars, memory, cmVars, ownVars>>

(* Read returns -ECONNRESET; Run leaves its inner loop.                    *)
ReadReset ==
  /\ clPc = "asleep" /\ mClose
  /\ clPc' = "check"
  /\ UNCHANGED <<chVars, memory, request, delivered, cmVars, ownVars>>

-----------------------------------------------------------------------------
(* The threads that stop the handler and own the channel.                  *)

(* PBHandler::Stop, at any time: also when ProcessData has a piece of the  *)
(* buffer in its hands, and between the test of mStarted and Connect.      *)
Stop ==
  /\ mStarted /\ stops < MaxStops /\ ChannelLockFree
  /\ mStarted' = FALSE /\ stops' = stops + 1
  /\ mClose' = TRUE
  /\ UNCHANGED <<mReadReady, mBuffer, mBufferLen, memory, clVars, cmVars>>

(* The thread has been joined.                                             *)
DeleteChannel ==
  /\ clPc = "ended" /\ ManagerLockFree
  /\ clPc' = "deleted"
  /\ UNCHANGED <<chVars, memory, request, delivered, cmVars, ownVars>>

(* A new channel, a new thread and a new header variable.                  *)
CreateChannel ==
  /\ clPc = "deleted" /\ ManagerLockFree
  /\ clPc' = "check" /\ mStarted' = TRUE
  /\ mReadReady' = FALSE /\ mClose' = FALSE
  /\ mBuffer' = [buf |-> "header", off |-> 0] /\ mBufferLen' = 0
  /\ memory' = [memory EXCEPT !["header"] = [i \in 1..HeaderSize |-> NoByte]]
  /\ UNCHANGED <<request, delivered, cmVars, stops>>

-----------------------------------------------------------------------------
(* The thread of ChannelManager.                                           *)

(* The rest of the frame is dropped or done with: on to the next one.      *)
FrameDone(pos) ==
  /\ cmPc' = "transport"
  /\ frame' = IF pos = MsgSize(frame.msg)
                THEN [msg |-> frame.msg + 1, pos |-> 0, last |-> 0]
                ELSE [frame EXCEPT !.pos = pos]

(* ProcessData begins; it drops a frame for a channel that is deleted.     *)
HandleRead ==
  /\ cmPc = "transport" /\ frame.msg <= Len(Payloads)
  /\ PeerWaits => clPc \in {"ready", "asleep"} /\ ~mClose
  /\ \E e \in (frame.pos + 1)..MsgSize(frame.msg) :
       /\ WholeReads => e \in {HeaderSize, MsgSize(frame.msg)}
       /\ IF clPc = "deleted"
            THEN FrameDone(e)
            ELSE cmPc' = "waitRead" /\ frame' = [frame EXCEPT !.last = e]
  /\ UNCHANGED <<chVars, memory, clVars, piece, failures, ownVars>>

WaitRead ==
  /\ cmPc = "waitRead" /\ ChannelLockFree /\ mReadReady /\ ~mClose
  /\ LET room == mBufferLen
         left == frame.last - frame.pos
     IN  piece' = [buf |-> mBuffer.buf, off |-> mBuffer.off,
                   len |-> IF room < left THEN room ELSE left]
  /\ cmPc' = "copy"
  /\ UNCHANGED <<chVars, memory, clVars, frame, failures, ownVars>>

(* WaitRead fails: ProcessData returns the error and the frame is lost.    *)
WaitReadClosed ==
  /\ cmPc = "waitRead" /\ ChannelLockFree /\ mClose
  /\ FrameDone(frame.last)
  /\ UNCHANGED <<chVars, memory, clVars, piece, failures, ownVars>>

WaitReadTimeout ==
  /\ TimeoutsHappen
  /\ cmPc = "waitRead" /\ ChannelLockFree /\ ~mReadReady /\ ~mClose
  /\ FrameDone(frame.last)
  /\ UNCHANGED <<chVars, memory, clVars, piece, failures, ownVars>>

(* The memcpy of ProcessData, which holds no lock of the channel.  After a *)
(* Stop the buffer may be the header variable of a Run that has ended:     *)
(* what the memcpy changes then is undefined, where it writes is not.      *)
Copy ==
  /\ cmPc = "copy"
  /\ memory' = [memory EXCEPT ![piece.buf] =
       [i \in 1..Cap(piece.buf) |->
          IF i \in (piece.off + 1)..(piece.off + piece.len)
            THEN <<frame.msg, frame.pos + i - piece.off>> ELSE @[i]]]
  /\ cmPc' = "readDone"
  /\ UNCHANGED <<chVars, clVars, frame, piece, failures, ownVars>>

Bug_ReadDoneStaysReady ==
  /\ cmPc = "readDone" /\ ChannelLockFree
  /\ mBufferLen' = piece.len
  /\ IF frame.pos + piece.len < frame.last
       THEN /\ cmPc' = "waitRead"
            /\ frame' = [frame EXCEPT !.pos = @ + piece.len]
       ELSE FrameDone(frame.last)
  /\ UNCHANGED <<mReadReady, mClose, mBuffer, memory, clVars, piece, failures, ownVars>>

Bug_ReadDoneNoProgress ==
  /\ cmPc = "readDone" /\ ChannelLockFree
  /\ mReadReady' = FALSE
  /\ mBufferLen' = piece.len
  /\ IF frame.pos + piece.len < frame.last
       THEN cmPc' = "waitRead" /\ UNCHANGED frame
       ELSE FrameDone(frame.last)
  /\ UNCHANGED <<mClose, mBuffer, memory, clVars, piece, failures, ownVars>>

ReadDone ==
  /\ cmPc = "readDone" /\ ChannelLockFree
  /\ mReadReady' = FALSE
  /\ mBufferLen' = piece.len
  /\ IF frame.pos + piece.len < frame.last
       THEN /\ cmPc' = "waitRead"
            /\ frame' = [frame EXCEPT !.pos = @ + piece.len]
       ELSE FrameDone(frame.last)
  /\ UNCHANGED <<mClose, mBuffer, memory, clVars, piece, failures, ownVars>>

(* The transport fails while ReadTransport waits for the next frame:       *)
(* HandleRead returns and the transport is closed.  What the peer had      *)
(* still to send of a message is lost with the connection.                 *)
TransportFails ==
  /\ cmPc = "transport" /\ failures < MaxFailures
  /\ failures' = failures + 1
  /\ cmPc' = "closing"
  /\ frame' = IF frame.pos = 0 THEN frame
                ELSE [msg |-> frame.msg + 1, pos |-> 0, last |-> 0]
  /\ UNCHANGED <<chVars, memory, clVars, piece, ownVars>>

CloseChannels ==
  /\ cmPc = "closing" /\ ChannelLockFree
  /\ cmPc' = "down"
  /\ mClose' = (mClose \/ clPc # "deleted")
  /\ UNCHANGED <<mReadReady, mBuffer, mBufferLen, memory, clVars, frame, piece, failures, ownVars>>

TransportReopens ==
  /\ cmPc = "down"
  /\ cmPc' = "transport"
  /\ UNCHANGED <<chVars, memory, clVars, frame, piece, failures, ownVars>>

-----------------------------------------------------------------------------
Handler ==
  \/ CheckStarted \/ LockForConnect \/ Connect
  \/ ReadStart \/ ReadNothing \/ ReadMore \/ ReadReturn \/ ReadReset

Owner == Stop \/ DeleteChannel \/ CreateChannel

Manager ==
  \/ HandleRead \/ WaitRead \/ WaitReadClosed \/ WaitReadTimeout
  \/ Copy \/ ReadDone \/ CloseChannels \/ TransportReopens

Next == Handler \/ Manager \/ TransportFails \/ Owner

(* Both threads run whenever they can; a timed wait ends when its period   *)
(* is over; nothing obliges the transport to fail or the owner to act.     *)
Spec == Init /\ [][Next]_vars /\ WF_vars(Handler) /\ WF_vars(Manager)

-----------------------------------------------------------------------------
TypeOK ==
  /\ mReadReady \in BOOLEAN /\ mClose \in BOOLEAN
  /\ mBuffer \in [buf : Buffers, off : Nat] /\ mBufferLen \in Nat
  /\ memory = [b \in Buffers |-> memory[b]]
  /\ \A b \in Buffers : memory[b] \in [1..Cap(b) -> Byte]
  /\ clPc \in {"check", "connect", "connecting", "ready", "asleep", "ended", "deleted"}
  /\ request \in [buf : Buffers, size : Nat]
  /\ delivered \in Seq(Seq(Byte))
  /\ cmPc \in {"transport", "waitRead", "copy", "readDone", "closing", "down"}
  /\ frame \in [msg : Nat \ {0}, pos : Nat, last : Nat]
  /\ piece \in [buf : Buffers, off : Nat, len : Nat]
  /\ failures \in 0..MaxFailures /\ stops \in 0..MaxStops /\ mStarted \in BOOLEAN

(* The memcpy of ProcessData stays inside the bytes of the buffer it was   *)
(* given, the header variable of Run or mReceiveBuffer, whichever Read the *)
(* piece belongs to: also after an aborted Read left its buffer published, *)
(* and when PBHandler::Stop closes the channel between WaitRead and the    *)
(* memcpy (channelmanager.cpp:264-270, channel.cpp:55-57, pbhandler.cpp:   *)
(* 65).  It says where the bytes go, not that the variable is still alive: *)
(* in the last case the header may be one of a Run that has left its       *)
(* scope.                                                                  *)
CopyInBounds == cmPc = "copy" => piece.off + piece.len <= Cap(piece.buf)

(* A handler gets no payload byte twice: the messages given to             *)
(* ReceiveMessage hold ever later bytes of the stream, although a piece is *)
(* copied outside the lock and a Read may be aborted and issued again.     *)
Earlier(a, b) == a[1] < b[1] \/ (a[1] = b[1] /\ a[2] < b[2])
NothingTwice ==
  \A i, j \in DOMAIN delivered : i < j =>
    \A p \in DOMAIN delivered[i], q \in DOMAIN delivered[j] :
      Earlier(delivered[i][p], delivered[j][q])

(* The two threads wait for each other's lock for ever: Connect holds      *)
(* Channel::mMutex, ProcessData or the order of the closing holds          *)
(* ChannelManager's (channel.cpp:21, 25; channelmanager.cpp:247, 264) or   *)
(* keeps the transport down (channelmanager.cpp:190, 329).                 *)
Embrace == clPc = "connecting" /\ cmPc \in {"waitRead", "closing"}

(* ProcessData gets stuck on a handler only in the embrace, which a frame  *)
(* for a handler that is connecting brings about.  In every other case the *)
(* frame is copied, or the wait times out, or the channel is closed, and   *)
(* the transport is read again (the thread serves all the other channels). *)
FrameReleased == cmPc = "waitRead" ~> cmPc = "transport" \/ Embrace

(* A closed channel wakes its reader, which connects again once the        *)
(* transport is back, unless the handler is stopped, or is caught in the   *)
(* embrace because it connects while a frame for it is handled or while    *)
(* the channels are closed (pbhandler.cpp:146-149, channel.cpp:29).        *)
Reconnects == mClose ~> ~mClose \/ ~mStarted \/ Embrace

(* With no failure and no timeout, and frames that end where headers and   *)
(* payloads end, the channel is a message pipe: the messages reach         *)
(* ReceiveMessage whole, in order and once each (pbhandler.cpp:120-175,    *)
(* channelmanager.cpp:251-283) ...                                         *)
Pipe == INSTANCE MessagePipe
PipeSafety == Pipe!Safety

(* ... and all of them do: neither thread ever waits for a wake-up of the  *)
(* other that does not come (channel.cpp:59-61, 91, 112-115).              *)
PipeLiveness == Pipe!Liveness
=============================================================================
