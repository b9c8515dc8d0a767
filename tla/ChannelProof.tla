---------------------------- MODULE ChannelProof ----------------------------
(***************************************************************************)
(* Proofs about module Channel, for every size of the header and of the    *)
(* receive buffer, every script of the peer, every way the stream is cut   *)
(* into frames and any number of failures, timeouts and stops of the       *)
(* handler: its type invariant, that the memcpy of ProcessData never       *)
(* leaves the buffer it writes to, and that no byte reaches a handler      *)
(* twice.  With orderly frames, no failure and no stop, the hand-over of   *)
(* bytes implements MessagePipe.                                           *)
(***************************************************************************)
EXTENDS Channel, SequenceTheorems, TLAPS

(* A Read asks for no more than its buffer holds; a published buffer and a *)
(* piece fetched from it end inside the variable they point to.  The       *)
(* published buffer is not tied to the Read in progress: it may be the one *)
(* an aborted Read left behind.                                            *)
RequestFits == request.size <= Cap(request.buf)
PublishedFits == mReadReady => mBuffer.off + mBufferLen <= Cap(mBuffer.buf)
PieceFits ==
  cmPc \in {"copy", "readDone"} => piece.off + piece.len <= Cap(piece.buf)

(* ProcessData copies what is left of its frame and no more.               *)
FrameLeft ==
  /\ cmPc \in {"waitRead", "copy", "readDone"} => frame.pos < frame.last
  /\ cmPc \in {"copy", "readDone"} => frame.pos + piece.len <= frame.last

BoundsInv == TypeOK /\ RequestFits /\ PublishedFits /\ PieceFits /\ FrameLeft

(* The size of a buffer is a number.                                       *)
LEMMA CapType == \A b \in Buffers : Cap(b) \in Nat
  BY ChannelAssumption DEF Cap

(* Whatever the header buffer holds, the data size Run reads from it is a  *)
(* number.                                                                 *)
LEMMA DataSizesType == \A bytes : DataSizes(bytes) \subseteq Nat
<1>1. \A m \in DOMAIN Payloads : Payloads[m] \in Nat
  BY ChannelAssumption
<1>2. 0..(ReceiveSize + 1) \subseteq Nat
  BY ChannelAssumption
<1> QED
  BY <1>1, <1>2 DEF DataSizes

(* So is the size of a message of the peer.                                *)
LEMMA MsgSizeType == \A m \in 1..Len(Payloads) : MsgSize(m) \in Nat
<1> SUFFICES ASSUME NEW m \in 1..Len(Payloads) PROVE MsgSize(m) \in Nat
  OBVIOUS
<1>1. Payloads[m] \in Nat
  BY ChannelAssumption
<1> QED
  BY <1>1, ChannelAssumption DEF MsgSize

(* The bound holds at the start: nothing is published or fetched.          *)
LEMMA BoundsInit == Init => BoundsInv
<1> SUFFICES ASSUME Init PROVE BoundsInv
  OBVIOUS
<1>1. \A b \in Buffers : memory[b] \in [1..Cap(b) -> Byte]
  BY DEF Init, Byte, NoByte
<1>2. memory = [b \in Buffers |-> memory[b]]
  BY DEF Init
<1>3. delivered \in Seq(Seq(Byte))
  BY DEF Init
<1>4. request \in [buf : Buffers, size : Nat] /\ failures \in 0..MaxFailures /\ stops \in 0..MaxStops
  BY ChannelAssumption DEF Init, Buffers, HeaderRequest
<1>5. TypeOK
  <2>1. /\ mReadReady = FALSE /\ mClose = FALSE /\ mBufferLen = 0
        /\ mBuffer = [buf |-> "header", off |-> 0]
        /\ clPc = "check" /\ cmPc = "transport" /\ mStarted = TRUE
        /\ frame = [msg |-> 1, pos |-> 0, last |-> 0]
        /\ piece = [buf |-> "header", off |-> 0, len |-> 0]
    BY DEF Init
  <2>2. /\ mBuffer \in [buf : Buffers, off : Nat] /\ mBufferLen \in Nat
        /\ frame \in [msg : Nat \ {0}, pos : Nat, last : Nat]
        /\ piece \in [buf : Buffers, off : Nat, len : Nat]
    BY <2>1 DEF Buffers
  <2>3. /\ mReadReady \in BOOLEAN /\ mClose \in BOOLEAN /\ mStarted \in BOOLEAN
        /\ clPc \in {"check", "connect", "connecting", "ready", "asleep", "ended", "deleted"}
        /\ cmPc \in {"transport", "waitRead", "copy", "readDone", "closing", "down"}
    BY <2>1
  <2> QED
    BY <1>1, <1>2, <1>3, <1>4, <2>2, <2>3, Zenon DEF TypeOK
<1> QED
  BY <1>5, ChannelAssumption
  DEF Init, BoundsInv, RequestFits, PublishedFits, PieceFits, FrameLeft, Cap, HeaderRequest

(* What a complete Read makes of the request and of the delivered          *)
(* messages keeps their types, and the next request fits its buffer.       *)
LEMMA ReturnedFits ==
  ASSUME BoundsInv, Returned
  PROVE  /\ request' \in [buf : Buffers, size : Nat]
         /\ request'.size <= Cap(request'.buf)
         /\ delivered' \in Seq(Seq(Byte))
         /\ clPc' = "ready"
<1>1. CASE request.buf = "header"
  <2>1. UNCHANGED delivered
    BY <1>1 DEF Returned
  <2>2. PICK n \in DataSizes(memory["header"]) :
          request' = IF n > ReceiveSize THEN HeaderRequest
                                        ELSE [buf |-> "receive", size |-> n]
    BY <1>1 DEF Returned
  <2>3. n \in Nat
    BY DataSizesType
  <2> QED
    BY <2>1, <2>2, <2>3, ChannelAssumption
    DEF BoundsInv, TypeOK, Returned, HeaderRequest, Buffers, Cap
<1>2. CASE request.buf = "receive"
  <2>1. /\ delivered' = Append(delivered, SubSeq(memory["receive"], 1, request.size))
        /\ request' = HeaderRequest
        /\ clPc' = "ready"
    BY <1>2 DEF Returned
  <2>2. memory["receive"] \in [1..ReceiveSize -> Byte]
    BY DEF BoundsInv, TypeOK, Buffers, Cap
  <2>3. memory["receive"] \in Seq(Byte) /\ Len(memory["receive"]) = ReceiveSize
    BY <2>2, ChannelAssumption, IsASeq, LenProperties
  <2>4. request.size \in 0..ReceiveSize
    BY <1>2, ChannelAssumption DEF BoundsInv, TypeOK, RequestFits, Cap
  <2>5. SubSeq(memory["receive"], 1, request.size) \in Seq(Byte)
    BY <2>3, <2>4, SubSeqProperties
  <2>6. delivered' \in Seq(Seq(Byte))
    BY <2>1, <2>5, AppendProperties DEF BoundsInv, TypeOK
  <2> QED
    BY <2>1, <2>6, ChannelAssumption DEF HeaderRequest, Buffers, Cap
<1> QED
  BY <1>1, <1>2 DEF BoundsInv, TypeOK, Buffers

(* Publishing the rest of the buffer of a Read keeps it in bounds.         *)
LEMMA PublishFits ==
  ASSUME BoundsInv, NEW got \in Nat, got <= request.size, Publish(got)
  PROVE  BoundsInv'
<1>1. TypeOK'
  BY DEF BoundsInv, TypeOK, Publish, cmVars, ownVars, Byte
<1>2. request.size \in Nat /\ Cap(request.buf) \in Nat
  BY CapType DEF BoundsInv, TypeOK
<1>3. PublishedFits'
  BY <1>2 DEF BoundsInv, RequestFits, PublishedFits, Publish
<1> QED
  BY <1>1, <1>3 DEF BoundsInv, RequestFits, PieceFits, FrameLeft, Publish, cmVars

(* The end of a frame moves on in the stream.                              *)
LEMMA FrameDoneType ==
  ASSUME TypeOK, NEW pos \in Nat, FrameDone(pos)
  PROVE  /\ cmPc' = "transport"
         /\ frame' \in [msg : Nat \ {0}, pos : Nat, last : Nat]
<1>1. cmPc' = "transport"
  BY DEF FrameDone
<1>2. frame.msg \in Nat \ {0}
  BY DEF TypeOK
<1>3. CASE pos = MsgSize(frame.msg)
  BY <1>1, <1>2, <1>3 DEF FrameDone
<1>4. CASE pos # MsgSize(frame.msg)
  <2>1. frame' = [frame EXCEPT !.pos = pos]
    BY <1>4 DEF FrameDone
  <2> QED
    BY <1>1, <2>1 DEF TypeOK
<1> QED
  BY <1>3, <1>4

(* Every step of the threads, and a failure of the transport, keeps the    *)
(* published buffer, the request and the piece within their variables.     *)
LEMMA BoundsNext == BoundsInv /\ [Next]_vars => BoundsInv'
<1> SUFFICES ASSUME BoundsInv, [Next]_vars PROVE BoundsInv'
  OBVIOUS
<1> USE DEF BoundsInv, ownVars
<1>1. CASE Connect
  <2>1. request' = HeaderRequest
    BY <1>1 DEF Connect
  <2>2. request' \in [buf : Buffers, size : Nat] /\ request'.size <= Cap(request'.buf)
    BY <2>1, ChannelAssumption DEF HeaderRequest, Buffers, Cap
  <2>3. TypeOK'
    BY <1>1, <2>2 DEF Connect, TypeOK, cmVars
  <2> QED
    BY <1>1, <2>2, <2>3
    DEF Connect, RequestFits, PublishedFits, PieceFits, FrameLeft, cmVars
<1>2. CASE ReadStart
  <2>1. 0 \in Nat /\ 0 <= request.size /\ Publish(0)
    BY <1>2 DEF ReadStart, TypeOK
  <2> QED
    BY <2>1, PublishFits
<1>3. CASE ReadNothing
  <2>1. BoundsInv /\ Returned
    BY <1>3 DEF ReadNothing
  <2>2. TypeOK'
    BY <1>3, <2>1, ReturnedFits DEF ReadNothing, TypeOK, cmVars
  <2>3. PublishedFits'
    BY <1>3, CapType DEF ReadNothing, TypeOK, PublishedFits, Buffers
  <2> QED
    BY <1>3, <2>1, <2>2, <2>3, ReturnedFits
    DEF ReadNothing, RequestFits, PieceFits, FrameLeft, cmVars
<1>4. CASE ReadMore
  <2>1. mBufferLen \in Nat /\ mBufferLen <= request.size /\ Publish(mBufferLen)
    BY <1>4 DEF ReadMore, TypeOK
  <2> QED
    BY <2>1, PublishFits
<1>5. CASE ReadReturn
  <2>1. BoundsInv /\ Returned
    BY <1>5 DEF ReadReturn
  <2>2. TypeOK'
    BY <1>5, <2>1, ReturnedFits DEF ReadReturn, TypeOK, chVars, cmVars
  <2> QED
    BY <1>5, <2>1, <2>2, ReturnedFits
    DEF ReadReturn, RequestFits, PublishedFits, PieceFits, FrameLeft, chVars, cmVars
<1>6. CASE ReadReset
  BY <1>6 DEF ReadReset, TypeOK, RequestFits, PublishedFits, PieceFits, FrameLeft, chVars, cmVars
<1>7. CASE HandleRead
  <2>1. PICK e \in (frame.pos + 1)..MsgSize(frame.msg) :
          IF clPc = "deleted"
            THEN FrameDone(e)
            ELSE cmPc' = "waitRead" /\ frame' = [frame EXCEPT !.last = e]
    BY <1>7 DEF HandleRead
  <2>2. MsgSize(frame.msg) \in Nat /\ e \in Nat /\ e > frame.pos
    BY <1>7, MsgSizeType DEF HandleRead, TypeOK
  <2>3. /\ frame' \in [msg : Nat \ {0}, pos : Nat, last : Nat]
        /\ cmPc' = "transport" \/ (cmPc' = "waitRead" /\ frame'.pos < frame'.last)
    <3>1. CASE clPc = "deleted"
      BY <2>1, <2>2, <3>1, FrameDoneType
    <3>2. CASE clPc # "deleted"
      BY <2>1, <2>2, <3>2 DEF TypeOK
    <3> QED
      BY <3>1, <3>2
  <2> QED
    BY <1>7, <2>3
    DEF HandleRead, TypeOK, RequestFits, PublishedFits, PieceFits, FrameLeft, chVars, clVars
<1>8. CASE WaitRead
  <2> DEFINE n == IF mBufferLen < frame.last - frame.pos
                    THEN mBufferLen ELSE frame.last - frame.pos
  <2>1. piece' = [buf |-> mBuffer.buf, off |-> mBuffer.off, len |-> n]
    BY <1>8 DEF WaitRead
  <2>2. n \in Nat /\ n <= mBufferLen /\ n <= frame.last - frame.pos
    BY <1>8 DEF TypeOK, FrameLeft, WaitRead
  <2>3. TypeOK'
    BY <1>8, <2>1, <2>2 DEF WaitRead, TypeOK, chVars, clVars
  <2>4. mBuffer.off + n <= Cap(mBuffer.buf)
    BY <1>8, <2>2, CapType DEF WaitRead, TypeOK, PublishedFits
  <2>5. PieceFits' /\ FrameLeft'
    BY <1>8, <2>1, <2>2, <2>4 DEF WaitRead, TypeOK, PieceFits, FrameLeft
  <2> QED
    BY <1>8, <2>3, <2>5 DEF WaitRead, RequestFits, PublishedFits, chVars, clVars
<1>9. CASE WaitReadClosed
  <2>1. frame.last \in Nat /\ FrameDone(frame.last)
    BY <1>9 DEF WaitReadClosed, TypeOK
  <2> QED
    BY <1>9, <2>1, FrameDoneType
    DEF WaitReadClosed, TypeOK, RequestFits, PublishedFits, PieceFits, FrameLeft,
        chVars, clVars
<1>10. CASE WaitReadTimeout
  <2>1. frame.last \in Nat /\ FrameDone(frame.last)
    BY <1>10 DEF WaitReadTimeout, TypeOK
  <2> QED
    BY <1>10, <2>1, FrameDoneType
    DEF WaitReadTimeout, TypeOK, RequestFits, PublishedFits, PieceFits, FrameLeft,
        chVars, clVars
<1>11. CASE Copy
  <2>1. ASSUME NEW i \in 1..Cap(piece.buf),
               i \in (piece.off + 1)..(piece.off + piece.len)
        PROVE  <<frame.msg, frame.pos + i - piece.off>> \in Byte
    BY <2>1 DEF TypeOK, Byte
  <2>2. piece.buf \in Buffers
    BY DEF TypeOK
  <2>3. \A b \in Buffers : memory'[b] \in [1..Cap(b) -> Byte]
    <3> SUFFICES ASSUME NEW b \in Buffers
                 PROVE  memory'[b] \in [1..Cap(b) -> Byte]
      OBVIOUS
    <3>1. CASE b = piece.buf
      BY <1>11, <2>1, <3>1 DEF Copy, TypeOK
    <3>2. CASE b # piece.buf
      BY <1>11, <3>2 DEF Copy, TypeOK
    <3> QED
      BY <3>1, <3>2
  <2>4. memory' = [b \in Buffers |-> memory'[b]]
    BY <1>11 DEF Copy, TypeOK
  <2>5. TypeOK'
    BY <1>11, <2>3, <2>4 DEF Copy, TypeOK, chVars, clVars
  <2> QED
    BY <1>11, <2>5
    DEF Copy, RequestFits, PublishedFits, PieceFits, FrameLeft, chVars, clVars
<1>12. CASE ReadDone
  <2>1. CASE frame.pos + piece.len < frame.last
    <3>1. /\ frame' \in [msg : Nat \ {0}, pos : Nat, last : Nat]
          /\ frame'.pos < frame'.last
          /\ cmPc' = "waitRead"
      <4>1. frame' = [frame EXCEPT !.pos = frame.pos + piece.len] /\ cmPc' = "waitRead"
        BY <1>12, <2>1 DEF ReadDone
      <4>2. /\ frame \in [msg : Nat \ {0}, pos : Nat, last : Nat]
            /\ piece.len \in Nat
        BY DEF TypeOK
      <4> QED
        BY <2>1, <4>1, <4>2
    <3> QED
      BY <1>12, <3>1
      DEF ReadDone, TypeOK, RequestFits, PublishedFits, PieceFits, FrameLeft, clVars
  <2>2. CASE ~(frame.pos + piece.len < frame.last)
    <3>1. frame.last \in Nat /\ FrameDone(frame.last)
      BY <1>12, <2>2 DEF ReadDone, TypeOK
    <3> QED
      BY <1>12, <3>1, FrameDoneType
      DEF ReadDone, TypeOK, RequestFits, PublishedFits, PieceFits, FrameLeft, clVars
  <2> QED
    BY <2>1, <2>2
<1>13. CASE TransportFails
  <2>1. frame' \in [msg : Nat \ {0}, pos : Nat, last : Nat]
    BY <1>13 DEF TransportFails, TypeOK
  <2>2. failures' \in 0..MaxFailures
    BY <1>13, ChannelAssumption DEF TransportFails, TypeOK
  <2> QED
    BY <1>13, <2>1, <2>2
    DEF TransportFails, TypeOK, RequestFits, PublishedFits, PieceFits, FrameLeft, chVars, clVars
<1>14. CASE CloseChannels \/ TransportReopens
  <2>1. /\ UNCHANGED <<mReadReady, mBuffer, mBufferLen, memory>>
        /\ UNCHANGED <<clPc, request, delivered, frame, piece, failures, mStarted, stops>>
        /\ cmPc' \in {"down", "transport"} /\ mClose' \in BOOLEAN
    <3>1. mClose \in BOOLEAN
      BY DEF TypeOK
    <3> QED
      BY <1>14, <3>1 DEF CloseChannels, TransportReopens, chVars, clVars
  <2>2. TypeOK'
    BY <2>1 DEF TypeOK
  <2> QED
    BY <2>1, <2>2 DEF RequestFits, PublishedFits, PieceFits, FrameLeft
<1>15. CASE CheckStarted \/ LockForConnect \/ DeleteChannel
  BY <1>15
  DEF CheckStarted, LockForConnect, DeleteChannel, TypeOK, RequestFits, PublishedFits,
      PieceFits, FrameLeft, chVars, cmVars
<1>16. CASE Stop
  <2>1. stops' \in 0..MaxStops
    BY <1>16, ChannelAssumption DEF Stop, TypeOK
  <2> QED
    BY <1>16, <2>1
    DEF Stop, TypeOK, RequestFits, PublishedFits, PieceFits, FrameLeft, clVars, cmVars
<1>17. CASE CreateChannel
  <2>1. /\ mBuffer' \in [buf : Buffers, off : Nat] /\ mBufferLen' = 0 /\ mReadReady' = FALSE
    BY <1>17 DEF CreateChannel, Buffers
  <2>2. \A b \in Buffers : memory'[b] \in [1..Cap(b) -> Byte]
    <3>1. [i \in 1..HeaderSize |-> NoByte] \in [1..Cap("header") -> Byte]
      BY DEF Cap, NoByte, Byte
    <3>2. memory'["header"] = [i \in 1..HeaderSize |-> NoByte]
      BY <1>17 DEF CreateChannel, TypeOK, Buffers
    <3>3. \A b \in Buffers : b # "header" => memory'[b] = memory[b]
      BY <1>17 DEF CreateChannel, TypeOK
    <3> QED
      BY <3>1, <3>2, <3>3 DEF TypeOK
  <2>3. memory' = [b \in Buffers |-> memory'[b]]
    BY <1>17 DEF CreateChannel, TypeOK
  <2>4. TypeOK'
    BY <1>17, <2>1, <2>2, <2>3 DEF CreateChannel, TypeOK, cmVars
  <2> QED
    BY <1>17, <2>1, <2>4
    DEF CreateChannel, RequestFits, PublishedFits, PieceFits, FrameLeft, cmVars
<1>18. CASE UNCHANGED vars
  BY <1>18
  DEF vars, chVars, clVars, cmVars, TypeOK, RequestFits, PublishedFits, PieceFits,
      FrameLeft
<1> QED
  BY <1>1, <1>2, <1>3, <1>4, <1>5, <1>6, <1>7, <1>8, <1>9, <1>10, <1>11, <1>12,
     <1>13, <1>14, <1>15, <1>16, <1>17, <1>18
  DEF Next, Handler, Manager, Owner

(* The fields of the channel, the request of the handler, the frame and    *)
(* the delivered messages keep their types.                                *)
THEOREM TypeCorrect == Spec => []TypeOK
<1>1. Init => BoundsInv
  BY BoundsInit
<1>2. BoundsInv /\ [Next]_vars => BoundsInv'
  BY BoundsNext
<1>3. BoundsInv => TypeOK
  BY DEF BoundsInv
<1> QED
  BY <1>1, <1>2, <1>3, PTL DEF Spec

(* ProcessData never writes outside the bytes of the header variable of    *)
(* Run or of mReceiveBuffer: not when a Read is filled piecewise, not when *)
(* the piece goes to the buffer an aborted Read left published, not when   *)
(* PBHandler::Stop closes the channel between WaitRead and the memcpy, any *)
(* number of times.  That the variable is still alive then is not said.    *)
THEOREM CopiesStayInBounds == Spec => []CopyInBounds
<1>1. Init => BoundsInv
  BY BoundsInit
<1>2. BoundsInv /\ [Next]_vars => BoundsInv'
  BY BoundsNext
<1>3. BoundsInv => CopyInBounds
  BY DEF BoundsInv, PieceFits, CopyInBounds
<1> QED
  BY <1>1, <1>2, <1>3, PTL DEF Spec

-----------------------------------------------------------------------------
(* No byte is handed over twice.                                           *)

(* The bytes of the stream that ProcessData has done with.                 *)
Consumed(b) == b[1] < frame.msg \/ (b[1] = frame.msg /\ b[2] <= frame.pos)

(* A header is read whole.  A piece is being copied only while the buffer  *)
(* it belongs to is published.                                             *)
HandOver ==
  /\ request.buf = "header" => request.size = HeaderSize
  /\ cmPc \in {"copy", "readDone"} => mReadReady

(* While the handler reads a payload, it is the buffer of this Read that   *)
(* is published and copied to, not the one of an aborted Read.             *)
PayloadRead ==
  request.buf = "receive" =>
    /\ clPc = "ready" => ~mReadReady
    /\ clPc = "asleep" /\ mReadReady =>
         mBuffer.buf = "receive" /\ mBuffer.off + mBufferLen = request.size
    /\ clPc = "asleep" /\ cmPc \in {"copy", "readDone"} =>
         piece.buf = "receive" /\ piece.off + piece.len <= request.size
    /\ clPc = "asleep" /\ cmPc = "readDone" =>
         \A i \in (piece.off + 1)..(piece.off + piece.len) :
           memory["receive"][i] = <<frame.msg, frame.pos + i - piece.off>>

(* What was delivered has been consumed, and what a Read is going to       *)
(* return has been, too, but after all that was delivered.                 *)
ReturnedIsNew ==
  /\ \A k \in DOMAIN delivered : \A p \in DOMAIN delivered[k] : Consumed(delivered[k][p])
  /\ request.buf = "receive" /\ clPc = "asleep" /\ ~mReadReady /\ mBufferLen >= request.size =>
       \A i \in 1..request.size :
         /\ Consumed(memory["receive"][i])
         /\ \A k \in DOMAIN delivered : \A p \in DOMAIN delivered[k] :
              Earlier(delivered[k][p], memory["receive"][i])

OnceInv == BoundsInv /\ HandOver /\ PayloadRead /\ ReturnedIsNew /\ NothingTwice

(* The bytes delivered, and those in the receive buffer, are bytes.        *)
LEMMA DeliveredBytes ==
  ASSUME TypeOK
  PROVE  /\ \A k \in DOMAIN delivered : \A p \in DOMAIN delivered[k] :
              delivered[k][p] \in Byte
         /\ \A i \in 1..ReceiveSize : memory["receive"][i] \in Byte
<1>1. delivered \in Seq(Seq(Byte)) /\ memory["receive"] \in [1..ReceiveSize -> Byte]
  BY DEF TypeOK, Buffers, Cap
<1>2. ASSUME NEW k \in DOMAIN delivered, NEW p \in DOMAIN delivered[k]
      PROVE  delivered[k][p] \in Byte
  <2>1. k \in 1..Len(delivered)
    BY <1>1, LenProperties
  <2>2. delivered[k] \in Seq(Byte)
    BY <1>1, <2>1, ElementOfSeq
  <2>3. p \in 1..Len(delivered[k])
    BY <1>2, <2>2, LenProperties
  <2> QED
    BY <2>2, <2>3, ElementOfSeq
<1> QED
  BY <1>1, <1>2

(* The stream only moves forward, so what is consumed stays so.            *)
Forward ==
  frame'.msg > frame.msg \/ (frame'.msg = frame.msg /\ frame'.pos >= frame.pos)

(* What is consumed stays consumed.                                        *)
LEMMA ConsumedStays ==
  ASSUME TypeOK, TypeOK', Forward, NEW b \in Byte, Consumed(b)
  PROVE  Consumed(b)'
<1>1. b[1] \in Nat /\ b[2] \in Nat
  BY DEF Byte
<1>2. /\ frame.msg \in Nat /\ frame.pos \in Nat
      /\ frame'.msg \in Nat /\ frame'.pos \in Nat
  BY DEF TypeOK
<1> QED
  BY <1>1, <1>2 DEF Forward, Consumed

(* A step that leaves the handler and its buffers alone, and moves the     *)
(* stream at most forward, keeps what is known of the delivered bytes.     *)
LEMMA ReturnedStaysNew ==
  ASSUME BoundsInv, BoundsInv', ReturnedIsNew, NothingTwice, Forward,
         delivered' = delivered,
         \/ request'.buf = "header" \/ clPc' # "asleep" \/ mReadReady'
         \/ UNCHANGED <<request, clPc, mReadReady, mBufferLen, memory>>
  PROVE  ReturnedIsNew' /\ NothingTwice'
<1> DEFINE Later(b) == b[1] < frame'.msg \/ (b[1] = frame'.msg /\ b[2] <= frame'.pos)
<1>1. \A b \in Byte : Consumed(b) => Later(b)
  BY ConsumedStays DEF BoundsInv, Consumed
<1>2. ASSUME NEW k \in DOMAIN delivered, NEW p \in DOMAIN delivered[k]
      PROVE  Later(delivered[k][p])
  <2>1. delivered[k][p] \in Byte /\ Consumed(delivered[k][p])
    BY DeliveredBytes DEF BoundsInv, ReturnedIsNew
  <2> QED
    BY <1>1, <2>1
<1>3. ASSUME UNCHANGED <<request, clPc, mReadReady, mBufferLen, memory>>,
             request.buf = "receive", clPc = "asleep", ~mReadReady,
             mBufferLen >= request.size, NEW i \in 1..request.size
      PROVE  /\ Later(memory["receive"][i])
             /\ \A k \in DOMAIN delivered : \A p \in DOMAIN delivered[k] :
                  Earlier(delivered[k][p], memory["receive"][i])
  <2>1. request.size \in Nat /\ request.size <= ReceiveSize
    BY <1>3 DEF BoundsInv, TypeOK, RequestFits, Cap
  <2>2. i \in 1..ReceiveSize
    BY <2>1, ChannelAssumption
  <2>3. memory["receive"][i] \in Byte /\ Consumed(memory["receive"][i])
    BY <1>3, <2>2, DeliveredBytes DEF BoundsInv, ReturnedIsNew
  <2> QED
    BY <1>1, <1>3, <2>3 DEF ReturnedIsNew
<1>4. ReturnedIsNew'
  BY <1>2, <1>3 DEF ReturnedIsNew, Consumed
<1> QED
  BY <1>4 DEF NothingTwice

(* A Read that ends hands over what is consumed and later than all before. *)
LEMMA ReturnedOnce ==
  ASSUME OnceInv, BoundsInv', Returned, UNCHANGED <<frame, memory>>,
         \/ clPc = "asleep" /\ ~mReadReady /\ mBufferLen >= request.size
         \/ request.size = 0
  PROVE  ReturnedIsNew' /\ NothingTwice'
<1> USE DEF OnceInv
<1>1. clPc' = "ready" /\ Forward
  BY DEF Returned, Forward, BoundsInv, TypeOK
<1>2. CASE request.buf = "header"
  BY <1>1, <1>2, ReturnedStaysNew DEF Returned
<1>3. CASE request.buf = "receive"
  <2> DEFINE new == SubSeq(memory["receive"], 1, request.size)
  <2>1. delivered' = Append(delivered, new)
    BY <1>3 DEF Returned
  <2>2. memory["receive"] \in [1..ReceiveSize -> Byte] /\ request.size \in 0..ReceiveSize
    BY <1>3, ChannelAssumption DEF BoundsInv, TypeOK, RequestFits, Buffers, Cap
  <2>3. memory["receive"] \in Seq(Byte) /\ Len(memory["receive"]) = ReceiveSize
    <3>1. memory["receive"] \in Seq(Byte)
      BY <2>2, ChannelAssumption, IsASeq
    <3> QED
      BY <2>2, <3>1, ChannelAssumption, LenProperties
  <2>4. /\ DOMAIN new = 1..request.size
        /\ \A i \in 1..request.size : new[i] = memory["receive"][i]
    BY <2>2, <2>3, SubSeqProperties
  <2>5. \A i \in 1..request.size :
          /\ Consumed(memory["receive"][i])
          /\ \A k \in DOMAIN delivered : \A p \in DOMAIN delivered[k] :
               Earlier(delivered[k][p], memory["receive"][i])
    <3>1. CASE request.size = 0
      BY <3>1
    <3>2. CASE clPc = "asleep" /\ ~mReadReady /\ mBufferLen >= request.size
      BY <1>3, <3>2 DEF ReturnedIsNew
    <3> QED
      BY <3>1, <3>2
  <2> HIDE DEF new
  <2>6. /\ DOMAIN delivered' = 1..(Len(delivered) + 1) /\ DOMAIN delivered = 1..Len(delivered)
        /\ Len(delivered) \in Nat
        /\ \A k \in 1..Len(delivered) : delivered'[k] = delivered[k]
        /\ delivered'[Len(delivered) + 1] = new
    BY <2>1 DEF BoundsInv, TypeOK
  <2>7. \A k \in DOMAIN delivered' : \A p \in DOMAIN delivered'[k] :
          Consumed(delivered'[k][p])
    <3> SUFFICES ASSUME NEW k \in DOMAIN delivered', NEW p \in DOMAIN delivered'[k]
                 PROVE  Consumed(delivered'[k][p])
      OBVIOUS
    <3>1. CASE k = Len(delivered) + 1
      BY <2>4, <2>5, <2>6, <3>1
    <3>2. CASE k # Len(delivered) + 1
      <4>1. k \in DOMAIN delivered
        BY <2>6, <3>2
      <4> QED
        BY <2>6, <4>1 DEF ReturnedIsNew
    <3> QED
      BY <3>1, <3>2
  <2>8. ReturnedIsNew'
    BY <1>1, <2>7 DEF ReturnedIsNew, Consumed
  <2>9. NothingTwice'
    <3> SUFFICES ASSUME NEW i \in DOMAIN delivered', NEW j \in DOMAIN delivered', i < j,
                        NEW p \in DOMAIN delivered'[i], NEW q \in DOMAIN delivered'[j]
                 PROVE  Earlier(delivered'[i][p], delivered'[j][q])
      BY DEF NothingTwice
    <3>1. i \in DOMAIN delivered /\ delivered'[i] = delivered[i]
      BY <2>6
    <3>2. CASE j = Len(delivered) + 1
      BY <2>4, <2>5, <2>6, <3>1, <3>2
    <3>3. CASE j # Len(delivered) + 1
      <4>1. j \in DOMAIN delivered /\ delivered'[j] = delivered[j]
        BY <2>6, <3>3
      <4> QED
        BY <3>1, <4>1 DEF NothingTwice
    <3> QED
      BY <3>2, <3>3
  <2> QED
    BY <2>8, <2>9
<1> QED
  BY <1>2, <1>3 DEF BoundsInv, TypeOK, Buffers

(* Publishing part of a buffer starts or continues a Read.                 *)
LEMMA PublishOnce ==
  ASSUME OnceInv, BoundsInv', NEW got \in Nat, got <= request.size, ~mReadReady,
         Publish(got)
  PROVE  OnceInv'
<1> USE DEF OnceInv
<1>1. ~(cmPc \in {"copy", "readDone"})
  BY DEF HandOver
<1>2. HandOver'
  BY <1>1 DEF HandOver, Publish, cmVars
<1>3. PayloadRead'
  BY <1>1 DEF PayloadRead, Publish, cmVars, BoundsInv, TypeOK
<1>4. Forward
  BY DEF Forward, Publish, cmVars, BoundsInv, TypeOK
<1>5. ReturnedIsNew' /\ NothingTwice'
  BY <1>4, ReturnedStaysNew DEF Publish
<1> QED
  BY <1>2, <1>3, <1>5

(* The end of a frame is further on in the stream.                         *)
LEMMA FrameDoneForward ==
  ASSUME TypeOK, NEW pos \in Nat, pos >= frame.pos, FrameDone(pos)
  PROVE  Forward
<1>1. CASE pos = MsgSize(frame.msg)
  BY <1>1 DEF FrameDone, Forward, TypeOK
<1>2. CASE pos # MsgSize(frame.msg)
  <2>1. frame' = [frame EXCEPT !.pos = pos]
    BY <1>2 DEF FrameDone
  <2> QED
    BY <2>1 DEF Forward, TypeOK
<1> QED
  BY <1>1, <1>2

(* At the start nothing is delivered and nothing is read.                  *)
LEMMA OnceInit == Init => OnceInv
<1> SUFFICES ASSUME Init PROVE OnceInv
  OBVIOUS
<1>1. /\ request = HeaderRequest /\ delivered = << >>
      /\ clPc = "check" /\ cmPc = "transport"
  BY DEF Init
<1>2. DOMAIN delivered = {}
  BY <1>1
<1>3. HandOver /\ PayloadRead
  BY <1>1 DEF HandOver, PayloadRead, HeaderRequest
<1>4. ReturnedIsNew /\ NothingTwice
  BY <1>1, <1>2 DEF ReturnedIsNew, NothingTwice, HeaderRequest
<1> QED
  BY BoundsInit, <1>3, <1>4 DEF OnceInv

(* Every step of the threads, and a failure of the transport, keeps the    *)
(* delivered bytes, those a Read is about to return and those still to     *)
(* come in the order of the stream.                                        *)
LEMMA OnceNext == OnceInv /\ [Next]_vars => OnceInv'
<1> SUFFICES ASSUME OnceInv, [Next]_vars PROVE OnceInv'
  OBVIOUS
<1> USE DEF OnceInv
<1>a. BoundsInv'
  BY BoundsNext
<1>b. TypeOK
  BY DEF BoundsInv
<1>c. UNCHANGED frame => Forward
  BY <1>b DEF Forward, TypeOK
<1>1. CASE Connect
  <2>1. request' = HeaderRequest /\ clPc' = "ready" /\ UNCHANGED <<frame, delivered>>
        /\ cmPc' = "transport"
    BY <1>1 DEF Connect, cmVars
  <2>2. HandOver' /\ PayloadRead'
    BY <2>1 DEF HandOver, PayloadRead, HeaderRequest
  <2> QED
    BY <1>a, <1>c, <2>1, <2>2, ReturnedStaysNew
<1>2. CASE ReadStart
  <2>1. request.buf = "receive" => ~mReadReady
    BY <1>2 DEF ReadStart, PayloadRead
  <2>2. CASE ~mReadReady
    <3>1. 0 \in Nat /\ 0 <= request.size /\ Publish(0)
      BY <1>2 DEF ReadStart, BoundsInv, TypeOK
    <3> QED
      BY <1>a, <2>2, <3>1, PublishOnce
  <2>3. CASE request.buf = "header"
    <3>1. /\ UNCHANGED <<mClose, request, delivered, frame, cmPc>>
          /\ mReadReady'
      BY <1>2 DEF ReadStart, Publish, cmVars
    <3>2. HandOver' /\ PayloadRead'
      BY <2>3, <3>1 DEF HandOver, PayloadRead
    <3> QED
      BY <1>a, <1>c, <3>1, <3>2, ReturnedStaysNew
  <2> QED
    BY <1>b, <2>1, <2>2, <2>3 DEF TypeOK, Buffers
<1>3. CASE ReadNothing
  <2>1. Returned /\ request.size = 0 /\ UNCHANGED <<mReadReady, mClose, cmPc, frame, memory>>
    BY <1>3 DEF ReadNothing, cmVars
  <2>2. request.buf = "receive" /\ clPc = "ready"
    BY <1>3, <1>b, <2>1, ChannelAssumption DEF ReadNothing, HandOver, TypeOK, Buffers
  <2>3. request' = HeaderRequest
    BY <2>1, <2>2 DEF Returned
  <2>4. HandOver' /\ PayloadRead'
    BY <2>1, <2>3 DEF HandOver, PayloadRead, HeaderRequest
  <2> QED
    BY <1>a, <2>1, <2>4, ReturnedOnce
<1>4. CASE ReadMore
  <2>1. /\ mBufferLen \in Nat /\ mBufferLen <= request.size /\ Publish(mBufferLen)
        /\ ~mReadReady
    BY <1>4 DEF ReadMore, BoundsInv, TypeOK
  <2> QED
    BY <1>a, <2>1, PublishOnce
<1>5. CASE ReadReturn
  <2>1. /\ Returned /\ UNCHANGED <<mReadReady, mClose, cmPc, frame, memory>>
        /\ clPc = "asleep" /\ ~mReadReady /\ mBufferLen >= request.size
    BY <1>5 DEF ReadReturn, chVars, cmVars
  <2>2. clPc' = "ready" /\ (request'.buf = "header" => request'.size = HeaderSize)
    <3>1. CASE request.buf = "receive"
      BY <2>1, <3>1 DEF Returned, HeaderRequest
    <3>2. CASE request.buf = "header"
      <4>1. PICK n \in DataSizes(memory["header"]) :
              request' = IF n > ReceiveSize THEN HeaderRequest
                                            ELSE [buf |-> "receive", size |-> n]
        BY <2>1, <3>2 DEF Returned
      <4> QED
        BY <2>1, <4>1 DEF Returned, HeaderRequest
    <3> QED
      BY <1>b, <3>1, <3>2 DEF TypeOK, Buffers
  <2>3. HandOver' /\ PayloadRead'
    BY <2>1, <2>2 DEF HandOver, PayloadRead
  <2> QED
    BY <1>a, <2>1, <2>3, ReturnedOnce
<1>6. CASE ReadReset
  <2>1. /\ UNCHANGED <<mReadReady, mClose, request, cmPc, frame, delivered>>
        /\ clPc' = "check"
    BY <1>6 DEF ReadReset, chVars, cmVars
  <2>2. HandOver' /\ PayloadRead'
    BY <2>1 DEF HandOver, PayloadRead
  <2> QED
    BY <1>a, <1>c, <2>1, <2>2, ReturnedStaysNew
<1>7. CASE HandleRead
  <2>1. PICK e \in (frame.pos + 1)..MsgSize(frame.msg) :
          IF clPc = "deleted"
            THEN FrameDone(e)
            ELSE cmPc' = "waitRead" /\ frame' = [frame EXCEPT !.last = e]
    BY <1>7 DEF HandleRead
  <2>2. MsgSize(frame.msg) \in Nat /\ e \in Nat /\ e >= frame.pos
    BY <1>7, <1>b, MsgSizeType DEF HandleRead, TypeOK
  <2>3. /\ UNCHANGED <<mReadReady, mClose, mBuffer, mBufferLen, memory>>
        /\ UNCHANGED <<clPc, request, delivered>>
        /\ cmPc' \in {"waitRead", "transport"}
    BY <1>7, <2>1 DEF HandleRead, FrameDone, chVars, clVars
  <2>4. HandOver' /\ PayloadRead'
    BY <2>3 DEF HandOver, PayloadRead
  <2>5. Forward
    <3>1. CASE clPc = "deleted"
      BY <1>b, <2>1, <2>2, <3>1, FrameDoneForward
    <3>2. CASE clPc # "deleted"
      <4>1. frame' = [frame EXCEPT !.last = e]
        BY <2>1, <3>2
      <4>2. frame \in [msg : Nat \ {0}, pos : Nat, last : Nat]
        BY <1>b DEF TypeOK
      <4>3. frame'.msg = frame.msg /\ frame'.pos = frame.pos
        BY <4>1, <4>2
      <4> QED
        BY <4>2, <4>3 DEF Forward
    <3> QED
      BY <3>1, <3>2
  <2> QED
    BY <1>a, <2>3, <2>4, <2>5, ReturnedStaysNew
<1>8. CASE WaitRead
  <2> DEFINE n == IF mBufferLen < frame.last - frame.pos
                    THEN mBufferLen ELSE frame.last - frame.pos
  <2>1. /\ UNCHANGED <<mReadReady, mClose, mBuffer, mBufferLen, memory>>
        /\ UNCHANGED <<clPc, request, delivered, frame>>
        /\ cmPc' = "copy" /\ mReadReady /\ ~mClose
        /\ piece' = [buf |-> mBuffer.buf, off |-> mBuffer.off, len |-> n]
    BY <1>8 DEF WaitRead, chVars, clVars
  <2>2. HandOver'
    BY <2>1 DEF HandOver
  <2>3. n \in Nat /\ n <= mBufferLen
    BY <1>8, <1>b DEF TypeOK, BoundsInv, FrameLeft, WaitRead
  <2> HIDE DEF n
  <2>4. PayloadRead'
    BY <1>b, <2>1, <2>3 DEF PayloadRead, TypeOK
  <2> QED
    BY <1>a, <1>c, <2>1, <2>2, <2>4, ReturnedStaysNew
<1>9. ASSUME FrameDone(frame.last), UNCHANGED <<chVars, memory, clVars>>, cmPc = "waitRead"
      PROVE  OnceInv'
  <2>1. Forward
    BY <1>9, <1>b, FrameDoneForward DEF BoundsInv, FrameLeft, TypeOK
  <2>2. /\ UNCHANGED <<mReadReady, mClose, mBuffer, mBufferLen, memory>>
        /\ UNCHANGED <<clPc, request, delivered>>
        /\ cmPc' = "transport"
    BY <1>9 DEF FrameDone, chVars, clVars
  <2>3. HandOver' /\ PayloadRead'
    BY <2>2 DEF HandOver, PayloadRead
  <2> QED
    BY <1>a, <2>1, <2>2, <2>3, ReturnedStaysNew
<1>10. CASE Copy
  <2>1. /\ UNCHANGED <<mReadReady, mClose, mBuffer, mBufferLen>>
        /\ UNCHANGED <<clPc, request, delivered, frame, piece>>
        /\ cmPc = "copy" /\ cmPc' = "readDone"
        /\ memory' = [memory EXCEPT ![piece.buf] =
             [i \in 1..Cap(piece.buf) |->
                IF i \in (piece.off + 1)..(piece.off + piece.len)
                  THEN <<frame.msg, frame.pos + i - piece.off>> ELSE @[i]]]
    BY <1>10 DEF Copy, chVars, clVars
  <2>2. mReadReady
    BY <2>1 DEF HandOver
  <2>3. HandOver'
    BY <2>1, <2>2 DEF HandOver
  <2>4. ASSUME piece.buf = "receive", NEW i \in (piece.off + 1)..(piece.off + piece.len)
        PROVE  memory'["receive"][i] = <<frame.msg, frame.pos + i - piece.off>>
    <3>1. "receive" \in DOMAIN memory
      BY <1>b DEF TypeOK, Buffers
    <3>2. i \in 1..Cap("receive")
      BY <1>b, <2>1, <2>4, CapType DEF BoundsInv, PieceFits, TypeOK, Buffers
    <3> QED
      BY <2>1, <2>4, <3>1, <3>2
  <2>5. PayloadRead'
    BY <2>1, <2>2, <2>4 DEF PayloadRead
  <2> QED
    BY <1>a, <1>c, <2>1, <2>2, <2>3, <2>5, ReturnedStaysNew
<1>11. CASE ReadDone
  <2>1. /\ UNCHANGED <<mClose, mBuffer, memory, clPc, request, delivered>>
        /\ cmPc = "readDone" /\ ~mReadReady' /\ mBufferLen' = piece.len
    BY <1>11 DEF ReadDone, clVars
  <2>n. /\ frame.msg \in Nat /\ frame.pos \in Nat /\ frame.last \in Nat
        /\ piece.len \in Nat /\ frame'.msg \in Nat /\ frame'.pos \in Nat
    BY <1>a, <1>b DEF BoundsInv, TypeOK
  <2>2. mReadReady
    BY <2>1 DEF HandOver
  <2>3. /\ cmPc' \in {"waitRead", "transport"}
        /\ \/ frame'.msg > frame.msg
           \/ frame'.msg = frame.msg /\ frame'.pos >= frame.pos + piece.len
    <3>1. CASE frame.pos + piece.len < frame.last
      BY <1>11, <1>b, <3>1 DEF ReadDone, TypeOK
    <3>2. CASE ~(frame.pos + piece.len < frame.last)
      <4>1. FrameDone(frame.last) /\ frame.last = frame.pos + piece.len
        <5>1. frame.pos + piece.len <= frame.last
          BY <2>1 DEF BoundsInv, FrameLeft
        <5> QED
          BY <1>11, <2>n, <3>2, <5>1 DEF ReadDone
      <4>2. CASE frame.last = MsgSize(frame.msg)
        BY <1>b, <4>1, <4>2 DEF FrameDone, TypeOK
      <4>3. CASE frame.last # MsgSize(frame.msg)
        <5>1. frame' = [frame EXCEPT !.pos = frame.last] /\ cmPc' = "transport"
          BY <4>1, <4>3 DEF FrameDone
        <5> QED
          BY <1>b, <4>1, <5>1 DEF TypeOK
      <4> QED
        BY <4>2, <4>3
    <3> QED
      BY <3>1, <3>2
  <2>4. Forward
    BY <2>3, <2>n DEF Forward
  <2>5. HandOver' /\ PayloadRead'
    BY <2>1, <2>2, <2>3 DEF HandOver, PayloadRead
  <2>6. ASSUME request.buf = "receive", clPc = "asleep", piece.len >= request.size,
               NEW i \in 1..request.size
        PROVE  /\ Consumed(memory["receive"][i])'
               /\ \A k \in DOMAIN delivered : \A p \in DOMAIN delivered[k] :
                    Earlier(delivered[k][p], memory["receive"][i])
    <3>1. piece.off = 0 /\ piece.len = request.size
      BY <1>b, <2>1, <2>6 DEF PayloadRead, TypeOK
    <3>2. memory["receive"][i] = <<frame.msg, frame.pos + i>>
      BY <1>b, <2>1, <2>6, <3>1 DEF PayloadRead, TypeOK
    <3>4. Consumed(memory["receive"][i])'
      <4>1. request.size \in Nat /\ i <= piece.len
        BY <1>b, <3>1 DEF TypeOK
      <4>2. memory'["receive"][i] = <<frame.msg, frame.pos + i>> /\ i \in Nat
        BY <1>b, <2>1, <3>2, <4>1
      <4>3. memory'["receive"][i][1] = frame.msg /\ memory'["receive"][i][2] = frame.pos + i
        BY <4>2
      <4> QED
        BY <2>3, <2>n, <4>1, <4>2, <4>3 DEF Consumed
    <3>5. ASSUME NEW k \in DOMAIN delivered, NEW p \in DOMAIN delivered[k]
          PROVE  Earlier(delivered[k][p], memory["receive"][i])
      <4>1. delivered[k][p] \in Byte /\ Consumed(delivered[k][p])
        BY <1>b, DeliveredBytes DEF ReturnedIsNew
      <4>2. delivered[k][p][1] \in Nat /\ delivered[k][p][2] \in Nat
        BY <4>1 DEF Byte
      <4> QED
        BY <2>n, <3>2, <4>1, <4>2 DEF Consumed, Earlier
    <3> QED
      BY <3>4, <3>5
  <2>7. ASSUME NEW k \in DOMAIN delivered, NEW p \in DOMAIN delivered[k]
        PROVE  Consumed(delivered[k][p])'
    <3>1. delivered[k][p] \in Byte /\ Consumed(delivered[k][p])
      BY <1>b, DeliveredBytes DEF ReturnedIsNew
    <3>2. \A b \in Byte : Consumed(b) =>
            b[1] < frame'.msg \/ (b[1] = frame'.msg /\ b[2] <= frame'.pos)
      BY <1>a, <1>b, <2>4, ConsumedStays DEF BoundsInv, Consumed
    <3> QED
      BY <2>1, <3>1, <3>2 DEF Consumed
  <2>8. ReturnedIsNew'
    BY <2>1, <2>6, <2>7 DEF ReturnedIsNew, Consumed
  <2>9. NothingTwice'
    BY <2>1 DEF NothingTwice
  <2> QED
    BY <1>a, <2>5, <2>8, <2>9
<1>12. CASE TransportFails
  <2>1. /\ UNCHANGED <<mReadReady, mBuffer, mBufferLen, memory>>
        /\ UNCHANGED <<clPc, request, delivered>>
        /\ cmPc' = "closing"
    BY <1>12 DEF TransportFails, chVars, clVars
  <2>2. HandOver' /\ PayloadRead'
    BY <2>1 DEF HandOver, PayloadRead
  <2>3. Forward
    BY <1>12, <1>b DEF TransportFails, Forward, TypeOK
  <2> QED
    BY <1>a, <2>1, <2>2, <2>3, ReturnedStaysNew
<1>13. CASE CloseChannels \/ TransportReopens
  <2>1. /\ UNCHANGED <<mReadReady, mBuffer, mBufferLen, memory>>
        /\ UNCHANGED <<clPc, request, delivered, frame>>
        /\ cmPc' \in {"down", "transport"}
    BY <1>13 DEF CloseChannels, TransportReopens, chVars, clVars
  <2>2. HandOver' /\ PayloadRead'
    BY <2>1 DEF HandOver, PayloadRead
  <2> QED
    BY <1>a, <1>c, <2>1, <2>2, ReturnedStaysNew
<1>17. CASE CheckStarted \/ LockForConnect \/ DeleteChannel
  <2>1. /\ UNCHANGED <<mReadReady, mClose, mBuffer, mBufferLen, memory>>
        /\ UNCHANGED <<request, delivered, frame, cmPc, piece>>
        /\ clPc' \in {"connect", "ended", "connecting", "deleted"}
    BY <1>17 DEF CheckStarted, LockForConnect, DeleteChannel, chVars, cmVars
  <2>2. HandOver' /\ PayloadRead'
    BY <2>1 DEF HandOver, PayloadRead
  <2> QED
    BY <1>a, <1>c, <2>1, <2>2, ReturnedStaysNew
<1>18. CASE Stop
  <2>1. /\ UNCHANGED <<mReadReady, mBuffer, mBufferLen, memory>>
        /\ UNCHANGED <<clPc, request, delivered, frame, cmPc, piece>>
    BY <1>18 DEF Stop, clVars, cmVars
  <2>2. HandOver' /\ PayloadRead'
    BY <2>1 DEF HandOver, PayloadRead
  <2> QED
    BY <1>a, <1>c, <2>1, <2>2, ReturnedStaysNew
<1>19. CASE CreateChannel
  <2>1. /\ UNCHANGED <<request, delivered, frame, cmPc, piece>>
        /\ clPc' = "check" /\ ~(cmPc \in {"copy", "readDone"})
    BY <1>19 DEF CreateChannel, ManagerLockFree, cmVars
  <2>2. HandOver' /\ PayloadRead'
    BY <2>1 DEF HandOver, PayloadRead
  <2> QED
    BY <1>a, <1>c, <2>1, <2>2, ReturnedStaysNew
<1>14. CASE UNCHANGED vars
  <2>1. /\ UNCHANGED <<mReadReady, mClose, mBuffer, mBufferLen, memory>>
        /\ UNCHANGED <<clPc, request, delivered, frame, cmPc, piece>>
    BY <1>14 DEF vars, chVars, clVars, cmVars
  <2>2. HandOver' /\ PayloadRead'
    BY <2>1 DEF HandOver, PayloadRead
  <2> QED
    BY <1>a, <1>c, <2>1, <2>2, ReturnedStaysNew
<1>15. CASE WaitReadClosed
  BY <1>9, <1>15 DEF WaitReadClosed
<1>16. CASE WaitReadTimeout
  BY <1>9, <1>16 DEF WaitReadTimeout
<1> QED
  BY <1>1, <1>2, <1>3, <1>4, <1>5, <1>6, <1>7, <1>8, <1>10, <1>11, <1>12,
     <1>13, <1>14, <1>15, <1>16, <1>17, <1>18, <1>19
  DEF Next, Handler, Manager, Owner

(* No byte of a payload reaches ReceiveMessage twice or out of order,      *)
(* however the stream is cut into frames, however often the connection     *)
(* breaks in the middle of a Read, and although ProcessData copies outside *)
(* the lock of the channel (channel.cpp:34-75, channelmanager.cpp:251-283).*)
THEOREM BytesArriveOnce == Spec => []NothingTwice
<1>1. Init => OnceInv
  BY OnceInit
<1>2. OnceInv /\ [Next]_vars => OnceInv'
  BY OnceNext
<1>3. OnceInv => NothingTwice
  BY DEF OnceInv
<1> QED
  BY <1>1, <1>2, <1>3, PTL DEF Spec

-----------------------------------------------------------------------------
(* The channel is a message pipe, as long as the peer waits for a handler, *)
(* no frame ends inside a header or a payload, every payload fits the      *)
(* receive buffer, neither the transport nor a WaitRead fails, and nobody  *)
(* stops the handler.                                                      *)
Orderly ==
  /\ WholeReads /\ PeerWaits /\ ~TimeoutsHappen /\ MaxFailures = 0 /\ MaxStops = 0
  /\ \A m \in DOMAIN Payloads : Payloads[m] <= ReceiveSize

(* The message the handler reads at present.                               *)
Reading == Len(delivered) + 1

(* Where the stream is once the header of a message is consumed.           *)
HeaderConsumed(m) ==
  IF Payloads[m] = 0 THEN frame.msg = m + 1 /\ frame.pos = 0
                     ELSE frame.msg = m /\ frame.pos = HeaderSize

Filled == clPc = "asleep" /\ ~mReadReady

(* The handler and the stream are at the same message, and the published   *)
(* buffer is the whole one of the Read in progress: it is filled at once.  *)
StreamInv ==
  /\ ~mClose /\ failures = 0 /\ cmPc \notin {"closing", "down"}
  /\ mStarted /\ clPc \notin {"ended", "deleted"}
  /\ \A k \in 1..Len(delivered) : delivered[k] = Payload(k)
  /\ Len(delivered) <= Len(Payloads)
  /\ cmPc \in {"waitRead", "copy", "readDone"} =>
       frame.msg <= Len(Payloads) /\ frame.last \in {HeaderSize, MsgSize(frame.msg)}

ReadInv ==
  /\ clPc # "asleep" => ~mReadReady
  /\ clPc \in {"check", "connect", "connecting"} => request.buf = "header"
  /\ request.buf = "header" => request.size = HeaderSize
  /\ request.buf = "header" /\ ~Filled => frame.msg = Reading /\ frame.pos = 0
  /\ request.buf = "header" /\ Filled =>
       /\ Reading <= Len(Payloads) /\ HeaderConsumed(Reading)
       /\ IsHeaderOf(Reading, memory["header"])
  /\ request.buf = "receive" =>
       Reading <= Len(Payloads) /\ request.size = Payloads[Reading]
  /\ request.buf = "receive" /\ ~Filled => HeaderConsumed(Reading)
  /\ request.buf = "receive" /\ Filled =>
       /\ frame.msg = Reading + 1 /\ frame.pos = 0
       /\ \A i \in 1..request.size : memory["receive"][i] = <<Reading, HeaderSize + i>>
  /\ Filled => mBufferLen = request.size
  /\ clPc = "asleep" => request.size > 0

CopyInv ==
  /\ clPc = "asleep" /\ mReadReady =>
       mBuffer = [buf |-> request.buf, off |-> 0] /\ mBufferLen = request.size
  /\ cmPc \in {"copy", "readDone"} =>
       /\ clPc = "asleep" /\ mReadReady
       /\ piece = [buf |-> request.buf, off |-> 0, len |-> request.size]
  /\ cmPc = "readDone" =>
       \A i \in 1..request.size : memory[request.buf][i] = <<frame.msg, frame.pos + i>>

PipeInv == BoundsInv /\ StreamInv /\ ReadInv /\ CopyInv

(* The sizes of the messages.                                              *)
LEMMA MessageSizes ==
  ASSUME NEW m \in 1..Len(Payloads)
  PROVE  /\ Payloads[m] \in Nat /\ m \in Nat
         /\ HeaderSize \in Nat /\ HeaderSize > 0 /\ MsgSize(m) = HeaderSize + Payloads[m]
  BY ChannelAssumption DEF MsgSize

(* Run reads from the header of a message the size of its payload.         *)
LEMMA HeaderTellsSize ==
  ASSUME NEW m \in 1..Len(Payloads), NEW bytes, IsHeaderOf(m, bytes)
  PROVE  DataSizes(bytes) = {Payloads[m]}
<1>1. m \in DOMAIN Payloads
  BY ChannelAssumption
<1>2. ASSUME NEW k \in DOMAIN Payloads, IsHeaderOf(k, bytes) PROVE k = m
  <2>1. 1 \in 1..HeaderSize
    BY ChannelAssumption
  <2>2. bytes[1] = <<k, 1>> /\ bytes[1] = <<m, 1>>
    BY <1>2, <2>1 DEF IsHeaderOf
  <2> QED
    BY <2>2
<1>3. {k \in DOMAIN Payloads : IsHeaderOf(k, bytes)} = {m}
  BY <1>1, <1>2
<1> QED
  BY <1>1, <1>3 DEF DataSizes

(* The receive buffer, up to the size of the payload, is the payload.      *)
LEMMA PayloadRead1 ==
  ASSUME TypeOK, NEW m \in 1..Len(Payloads), Payloads[m] <= ReceiveSize,
         \A i \in 1..Payloads[m] : memory["receive"][i] = <<m, HeaderSize + i>>
  PROVE  SubSeq(memory["receive"], 1, Payloads[m]) = Payload(m)
<1> DEFINE s == SubSeq(memory["receive"], 1, Payloads[m])
<1>1. Payloads[m] \in Nat /\ ReceiveSize \in Nat
  BY MessageSizes, ChannelAssumption
<1>2. memory["receive"] \in [1..ReceiveSize -> Byte]
  BY DEF TypeOK, Buffers, Cap
<1>3. memory["receive"] \in Seq(Byte)
  BY <1>1, <1>2, IsASeq
<1>4. Len(memory["receive"]) = ReceiveSize
  BY <1>1, <1>2, <1>3, LenProperties
<1>5. /\ s \in Seq(Byte) /\ Len(s) = Payloads[m]
      /\ \A i \in 1..Payloads[m] : s[i] = memory["receive"][i]
  BY <1>1, <1>3, <1>4, SubSeqProperties
<1> HIDE DEF s
<1>6. s = [i \in 1..Payloads[m] |-> s[i]]
  BY <1>5
<1>7. \A i \in 1..Payloads[m] : s[i] = <<m, HeaderSize + i>>
  BY <1>5
<1> QED
  BY <1>6, <1>7 DEF Payload, s

(* ReceiveMessage is given the message the handler was reading.            *)
LEMMA ReturnedDelivers ==
  ASSUME Orderly, PipeInv, BoundsInv', Returned,
         UNCHANGED <<mClose, mReadReady, memory, cmVars, ownVars>>,
         request.buf = "receive",
         Filled \/ (clPc = "ready" /\ request.size = 0)
  PROVE  /\ PipeInv'
         /\ Reading <= Len(Payloads) /\ delivered' = Append(delivered, Payload(Reading))
<1> USE DEF PipeInv, ownVars
<1>1. /\ Reading \in 1..Len(Payloads) /\ request.size = Payloads[Reading]
      /\ delivered \in Seq(Seq(Byte)) /\ Len(delivered) \in Nat
  <2>1. delivered \in Seq(Seq(Byte)) /\ Len(delivered) \in Nat
    BY DEF BoundsInv, TypeOK
  <2>2. Len(Payloads) \in Nat
    BY ChannelAssumption
  <2> QED
    BY <2>1, <2>2 DEF ReadInv, Reading
<1>2. \A i \in 1..Payloads[Reading] : memory["receive"][i] = <<Reading, HeaderSize + i>>
  BY <1>1 DEF ReadInv
<1>3. Payloads[Reading] <= ReceiveSize
  BY <1>1, ChannelAssumption DEF Orderly
<1>4. SubSeq(memory["receive"], 1, Payloads[Reading]) = Payload(Reading)
  BY <1>1, <1>2, <1>3, PayloadRead1 DEF BoundsInv
<1>5. /\ delivered' = Append(delivered, Payload(Reading))
      /\ request' = HeaderRequest /\ clPc' = "ready"
  BY <1>1, <1>4 DEF Returned
<1>6. /\ Len(delivered') = Len(delivered) + 1 /\ Reading' = Reading + 1
      /\ \A k \in 1..Len(delivered) : delivered'[k] = delivered[k]
      /\ delivered'[Len(delivered) + 1] = Payload(Reading)
  BY <1>1, <1>5 DEF Reading
<1>7. UNCHANGED <<cmPc, frame, piece, failures, mClose, mReadReady, mStarted>>
  BY DEF cmVars
<1>8. frame.msg = Reading + 1 /\ frame.pos = 0
  BY <1>1 DEF ReadInv, HeaderConsumed
<1>9. ~mReadReady /\ ~(cmPc \in {"copy", "readDone"})
  BY DEF Filled, ReadInv, CopyInv
<1>10. StreamInv'
  <2>1. \A k \in 1..Len(delivered') : k \in 1..Len(delivered) \/ k = Len(delivered) + 1
    BY <1>1, <1>6
  <2>2. \A k \in 1..Len(delivered') : delivered'[k] = Payload(k)
    BY <1>6, <2>1 DEF StreamInv, Reading
  <2>3. Len(delivered') <= Len(Payloads)
    BY <1>1, <1>6 DEF Reading
  <2> QED
    BY <1>5, <1>7, <2>2, <2>3 DEF StreamInv
<1>11. ReadInv' /\ CopyInv'
  BY <1>5, <1>6, <1>7, <1>8, <1>9 DEF ReadInv, CopyInv, HeaderRequest, Filled
<1> QED
  BY <1>1, <1>5, <1>10, <1>11

(* The invariant of the refinement holds at the start, and the pipe starts *)
(* empty.                                                                  *)
LEMMA PipeInit == Orderly /\ Init => PipeInv /\ Pipe!Init
<1> SUFFICES ASSUME Orderly, Init PROVE PipeInv /\ Pipe!Init
  OBVIOUS
<1>1. /\ ~mClose /\ ~mReadReady /\ failures = 0 /\ clPc = "check" /\ cmPc = "transport" /\ mStarted
      /\ request.buf = "header" /\ request.size = HeaderSize /\ delivered = << >>
      /\ frame.msg = 1 /\ frame.pos = 0
  BY DEF Init, HeaderRequest
<1>2. Len(delivered) = 0 /\ Len(Payloads) \in Nat
  BY <1>1, ChannelAssumption
<1>3. StreamInv
  BY <1>1, <1>2 DEF StreamInv
<1>4. ReadInv /\ CopyInv
  BY <1>1, <1>2 DEF ReadInv, CopyInv, Filled, Reading
<1> QED
  BY <1>1, <1>3, <1>4, BoundsInit DEF PipeInv, Pipe!Init

(* Every step of the two threads delivers the next message or none.        *)
LEMMA PipeNext ==
  ASSUME Orderly, PipeInv, [Next]_vars
  PROVE  PipeInv' /\ (UNCHANGED delivered \/ Pipe!Deliver)
<1> USE DEF PipeInv, ownVars
<1>a. BoundsInv'
  BY BoundsNext
<1>b. TypeOK
  BY DEF BoundsInv
<1>c. request.buf \in {"header", "receive"} /\ request.size \in Nat
  BY <1>b DEF TypeOK, Buffers
<1>d. HeaderSize \in Nat /\ HeaderSize > 0
  BY ChannelAssumption
<1>1. ASSUME Returned, UNCHANGED <<mClose, mReadReady, memory, cmVars, ownVars>>, request.buf = "receive",
             Filled \/ (clPc = "ready" /\ request.size = 0)
      PROVE  PipeInv' /\ Pipe!Deliver
  <2>1. PipeInv' /\ Reading <= Len(Payloads) /\ delivered' = Append(delivered, Payload(Reading))
    BY <1>1, <1>a, ReturnedDelivers
  <2>2. Reading \in 1..Len(Payloads) /\ Len(delivered) \in Nat
    <3>1. Len(delivered) \in Nat
      BY <1>b DEF TypeOK
    <3>2. Len(Payloads) \in Nat
      BY ChannelAssumption
    <3> QED
      BY <2>1, <3>1, <3>2 DEF Reading
  <2>3. Len(Messages) = Len(Payloads) /\ Messages[Reading] = Payload(Reading)
    <3>1. DOMAIN Payloads = 1..Len(Payloads) /\ Len(Payloads) \in Nat
      BY ChannelAssumption
    <3> QED
      BY <2>2, <3>1 DEF Messages
  <2> QED
    BY <2>1, <2>2, <2>3 DEF Pipe!Deliver, Reading
<1>2. CASE Connect
  <2>1. /\ UNCHANGED <<mReadReady, mBuffer, mBufferLen, memory, delivered>>
        /\ UNCHANGED <<cmPc, frame, piece, failures, mStarted>>
        /\ ~mClose' /\ clPc' = "ready" /\ clPc = "connecting" /\ cmPc = "transport"
        /\ request'.buf = "header" /\ request'.size = HeaderSize
    BY <1>2 DEF Connect, cmVars, HeaderRequest
  <2>2. StreamInv'
    BY <2>1 DEF StreamInv
  <2>3. ReadInv' /\ CopyInv'
    BY <2>1 DEF ReadInv, CopyInv, Filled, Reading
  <2> QED
    BY <1>a, <2>1, <2>2, <2>3
<1>3. CASE ReadStart
  <2>1. /\ UNCHANGED <<mClose, memory, request, delivered>>
        /\ UNCHANGED <<cmPc, frame, piece, failures, mStarted>>
        /\ mReadReady' /\ clPc = "ready" /\ clPc' = "asleep" /\ request.size > 0
        /\ mBuffer' = [buf |-> request.buf, off |-> 0] /\ mBufferLen' = request.size - 0
    BY <1>3 DEF ReadStart, Publish, cmVars
  <2>2. StreamInv'
    BY <2>1 DEF StreamInv
  <2>3. mBufferLen' = request.size
    BY <1>c, <2>1
  <2>4. ReadInv' /\ CopyInv'
    BY <2>1, <2>3 DEF ReadInv, CopyInv, Filled, Reading, HeaderConsumed
  <2> QED
    BY <1>a, <2>1, <2>2, <2>4
<1>4. CASE ReadNothing
  <2>1. /\ Returned /\ UNCHANGED <<mClose, mReadReady, memory, cmVars, ownVars>>
        /\ clPc = "ready" /\ request.size = 0
    BY <1>4 DEF ReadNothing
  <2>2. request.buf = "receive"
    BY <1>c, <1>d, <2>1 DEF ReadInv
  <2> QED
    BY <1>1, <2>1, <2>2
<1>5. CASE ReadMore
  <2>1. Filled /\ mBufferLen < request.size
    BY <1>5 DEF ReadMore, Filled
  <2> QED
    BY <1>c, <2>1 DEF ReadInv
<1>6. CASE ReadReturn
  <2>1. Returned /\ UNCHANGED <<mClose, mReadReady, memory, cmVars, ownVars>> /\ Filled
    BY <1>6 DEF ReadReturn, chVars, Filled
  <2>2. CASE request.buf = "header"
    <3>1. /\ Reading <= Len(Payloads) /\ HeaderConsumed(Reading)
          /\ IsHeaderOf(Reading, memory["header"])
      BY <2>1, <2>2 DEF ReadInv
    <3>2. Reading \in 1..Len(Payloads) /\ Payloads[Reading] <= ReceiveSize
      <4>1. Len(delivered) \in Nat
        BY <1>b DEF TypeOK
      <4>2. Len(Payloads) \in Nat /\ DOMAIN Payloads = 1..Len(Payloads)
        BY ChannelAssumption
      <4> QED
        BY <3>1, <4>1, <4>2 DEF Reading, Orderly
    <3>3. DataSizes(memory["header"]) = {Payloads[Reading]}
      BY <3>1, <3>2, HeaderTellsSize
    <3>4. /\ request' = [buf |-> "receive", size |-> Payloads[Reading]]
          /\ UNCHANGED delivered /\ clPc' = "ready"
      <4>1. ~(Payloads[Reading] > ReceiveSize)
        BY <3>2, MessageSizes, ChannelAssumption
      <4> QED
        BY <2>1, <2>2, <3>3, <4>1 DEF Returned
    <3>5. UNCHANGED <<mClose, mReadReady, cmPc, frame, piece, failures, mStarted>>
      BY <2>1 DEF cmVars
    <3>6. StreamInv'
      BY <3>4, <3>5 DEF StreamInv
    <3>7. ~mReadReady /\ ~(cmPc \in {"copy", "readDone"})
      BY <2>1 DEF Filled, CopyInv
    <3>8. ReadInv' /\ CopyInv'
      BY <3>1, <3>4, <3>5, <3>7 DEF ReadInv, CopyInv, Filled, Reading, HeaderConsumed
    <3> QED
      BY <1>a, <3>4, <3>6, <3>8
  <2> QED
    BY <1>1, <1>c, <2>1, <2>2
<1>7. CASE ReadReset \/ WaitReadClosed \/ WaitReadTimeout \/ TransportFails \/ CloseChannels
           \/ TransportReopens \/ Owner
  <2>1. ~mClose /\ failures = 0 /\ cmPc \notin {"closing", "down"} /\ clPc \notin {"ended", "deleted"}
    BY DEF StreamInv
  <2>2. stops = 0 /\ ~TimeoutsHappen /\ MaxFailures = 0 /\ MaxStops = 0
    BY <1>b DEF Orderly, TypeOK
  <2> QED
    BY <1>7, <2>1, <2>2
    DEF ReadReset, WaitReadClosed, WaitReadTimeout, TransportFails, CloseChannels,
        TransportReopens, Owner, Stop, DeleteChannel, CreateChannel
<1>13. CASE CheckStarted \/ LockForConnect
  <2>1. /\ UNCHANGED <<mReadReady, mClose, mBuffer, mBufferLen, memory>>
        /\ UNCHANGED <<request, delivered, frame, cmPc, piece, failures, mStarted>>
        /\ clPc \in {"check", "connect"} /\ clPc' \in {"connect", "connecting"}
    BY <1>13 DEF CheckStarted, LockForConnect, StreamInv, chVars, cmVars
  <2>2. StreamInv'
    BY <2>1 DEF StreamInv
  <2>3. ReadInv' /\ CopyInv'
    BY <2>1 DEF ReadInv, CopyInv, Filled, Reading, HeaderConsumed
  <2> QED
    BY <1>a, <2>1, <2>2, <2>3
<1>8. CASE HandleRead
  <2>1. /\ UNCHANGED <<mReadReady, mClose, mBuffer, mBufferLen, memory>>
        /\ UNCHANGED <<clPc, request, delivered, piece, failures, mStarted>>
        /\ cmPc = "transport" /\ frame.msg <= Len(Payloads) /\ clPc # "deleted"
    BY <1>8 DEF HandleRead, StreamInv, chVars, clVars
  <2>2. PICK e \in {HeaderSize, MsgSize(frame.msg)} :
          frame' = [frame EXCEPT !.last = e] /\ cmPc' = "waitRead"
    BY <1>8, <2>1 DEF HandleRead, Orderly
  <2>3. frame'.msg = frame.msg /\ frame'.pos = frame.pos /\ frame'.last = e
    BY <1>b, <2>2 DEF TypeOK
  <2>4. StreamInv'
    BY <2>1, <2>2, <2>3 DEF StreamInv
  <2>5. ReadInv' /\ CopyInv'
    BY <2>1, <2>2, <2>3 DEF ReadInv, CopyInv, Filled, Reading, HeaderConsumed
  <2> QED
    BY <1>a, <2>1, <2>4, <2>5
<1>9. CASE WaitRead
  <2>1. /\ UNCHANGED <<mReadReady, mClose, mBuffer, mBufferLen, memory>>
        /\ UNCHANGED <<clPc, request, delivered, frame, failures, mStarted>>
        /\ cmPc = "waitRead" /\ cmPc' = "copy" /\ mReadReady
        /\ piece' = [buf |-> mBuffer.buf, off |-> mBuffer.off,
                     len |-> IF mBufferLen < frame.last - frame.pos
                               THEN mBufferLen ELSE frame.last - frame.pos]
    BY <1>9 DEF WaitRead, chVars, clVars
  <2>2. clPc = "asleep" /\ ~Filled
    BY <2>1 DEF ReadInv, Filled
  <2>3. mBuffer.buf = request.buf /\ mBuffer.off = 0 /\ mBufferLen = request.size
    BY <2>1, <2>2 DEF CopyInv
  <2>4. /\ frame.msg \in 1..Len(Payloads) /\ frame.pos < frame.last
        /\ frame.last \in {HeaderSize, MsgSize(frame.msg)}
    <3>1. frame.msg \in Nat \ {0}
      BY <1>b DEF TypeOK
    <3>2. frame.msg <= Len(Payloads) /\ frame.last \in {HeaderSize, MsgSize(frame.msg)}
          /\ frame.pos < frame.last
      BY <2>1 DEF StreamInv, BoundsInv, FrameLeft
    <3> QED
      BY <3>1, <3>2, ChannelAssumption
  <2>5. request.size <= frame.last - frame.pos
    <3>1. CASE request.buf = "header"
      <4>1. request.size = HeaderSize /\ frame.pos = 0
        BY <2>2, <3>1 DEF ReadInv
      <4> QED
        BY <2>4, <4>1, MessageSizes
    <3>2. CASE request.buf = "receive"
      <4>1. request.size = Payloads[Reading] /\ HeaderConsumed(Reading) /\ request.size > 0
        BY <2>2, <3>2 DEF ReadInv
      <4>2. frame.msg = Reading /\ frame.pos = HeaderSize
        BY <4>1 DEF HeaderConsumed
      <4> QED
        BY <1>d, <2>4, <4>1, <4>2, MessageSizes
    <3> QED
      BY <1>c, <3>1, <3>2
  <2>6. piece' = [buf |-> request.buf, off |-> 0, len |-> request.size]
    <3>1. frame.last \in Nat /\ frame.pos \in Nat
      BY <1>b DEF TypeOK
    <3>2. (IF mBufferLen < frame.last - frame.pos
             THEN mBufferLen ELSE frame.last - frame.pos) = request.size
      BY <1>c, <2>3, <2>5, <3>1
    <3> QED
      BY <2>1, <2>3, <3>2
  <2>7. StreamInv'
    BY <2>1 DEF StreamInv
  <2>8. ReadInv' /\ CopyInv'
    BY <2>1, <2>2, <2>6 DEF ReadInv, CopyInv, Filled, Reading, HeaderConsumed
  <2> QED
    BY <1>a, <2>1, <2>7, <2>8
<1>10. CASE Copy
  <2>1. /\ UNCHANGED <<mReadReady, mClose, mBuffer, mBufferLen>>
        /\ UNCHANGED <<clPc, request, delivered, frame, piece, failures, mStarted>>
        /\ cmPc = "copy" /\ cmPc' = "readDone"
        /\ memory' = [memory EXCEPT ![piece.buf] =
             [i \in 1..Cap(piece.buf) |->
                IF i \in (piece.off + 1)..(piece.off + piece.len)
                  THEN <<frame.msg, frame.pos + i - piece.off>> ELSE @[i]]]
    BY <1>10 DEF Copy, chVars, clVars
  <2>2. /\ clPc = "asleep" /\ mReadReady /\ ~Filled
        /\ piece.buf = request.buf /\ piece.off = 0 /\ piece.len = request.size
    BY <2>1 DEF CopyInv, Filled
  <2>3. ASSUME NEW i \in 1..request.size
        PROVE  memory'[request.buf][i] = <<frame.msg, frame.pos + i>>
    <3>1. request.buf \in DOMAIN memory
      BY <1>b DEF TypeOK
    <3>2. i \in 1..Cap(request.buf) /\ i \in (piece.off + 1)..(piece.off + piece.len)
      <4>1. Cap(request.buf) \in Nat /\ request.size <= Cap(request.buf)
        BY <1>b, CapType DEF BoundsInv, RequestFits, TypeOK
      <4> QED
        BY <1>c, <2>2, <4>1
    <3>3. frame.pos + i - piece.off = frame.pos + i
      BY <1>b, <2>2 DEF TypeOK
    <3> QED
      BY <2>1, <2>2, <3>1, <3>2, <3>3
  <2>4. StreamInv'
    BY <2>1 DEF StreamInv
  <2>5. ReadInv' /\ CopyInv'
    BY <2>1, <2>2, <2>3 DEF ReadInv, CopyInv, Filled, Reading, HeaderConsumed
  <2> QED
    BY <1>a, <2>1, <2>4, <2>5
<1>11. CASE ReadDone
  <2>1. /\ UNCHANGED <<mClose, mBuffer, memory, clPc, request, delivered, piece, failures, mStarted>>
        /\ cmPc = "readDone" /\ ~mReadReady' /\ mBufferLen' = piece.len
    BY <1>11 DEF ReadDone, clVars
  <2>2. /\ clPc = "asleep" /\ mReadReady /\ ~Filled /\ piece.len = request.size
        /\ request.size > 0
        /\ \A i \in 1..request.size : memory[request.buf][i] = <<frame.msg, frame.pos + i>>
    BY <2>1 DEF CopyInv, Filled, ReadInv
  <2>3. /\ frame.msg \in 1..Len(Payloads) /\ frame.pos + piece.len <= frame.last
        /\ frame.last \in {HeaderSize, MsgSize(frame.msg)}
    <3>1. frame.msg \in Nat \ {0}
      BY <1>b DEF TypeOK
    <3>2. frame.msg <= Len(Payloads) /\ frame.last \in {HeaderSize, MsgSize(frame.msg)}
          /\ frame.pos + piece.len <= frame.last
      BY <2>1 DEF StreamInv, BoundsInv, FrameLeft
    <3> QED
      BY <3>1, <3>2, ChannelAssumption
  <2>4. /\ Payloads[frame.msg] \in Nat /\ frame.msg \in Nat
        /\ MsgSize(frame.msg) = HeaderSize + Payloads[frame.msg]
    BY <2>3, MessageSizes
  <2>5. /\ frame.pos + piece.len = HeaderSize /\ Payloads[frame.msg] > 0 =>
             frame'.msg = frame.msg /\ frame'.pos = HeaderSize
        /\ frame.pos + piece.len = MsgSize(frame.msg) =>
             frame'.msg = frame.msg + 1 /\ frame'.pos = 0
        /\ cmPc' \in {"waitRead", "transport"}
        /\ cmPc' = "waitRead" => frame'.msg = frame.msg /\ frame'.last = frame.last
    <3>1. CASE frame.pos + piece.len < frame.last
      <4>1. /\ cmPc' = "waitRead" /\ frame'.msg = frame.msg /\ frame'.last = frame.last
            /\ frame'.pos = frame.pos + piece.len
        BY <1>11, <1>b, <3>1 DEF ReadDone, TypeOK
      <4> QED
        BY <1>c, <1>d, <2>2, <2>3, <2>4, <3>1, <4>1
    <3>2. CASE ~(frame.pos + piece.len < frame.last)
      <4>1. FrameDone(frame.last)
        BY <1>11, <3>2 DEF ReadDone
      <4>2. frame.last = frame.pos + piece.len
        <5>1. frame.pos \in Nat /\ frame.last \in Nat
          BY <1>b DEF TypeOK
        <5> QED
          BY <1>c, <2>2, <2>3, <3>2, <5>1
      <4>3. CASE frame.last = MsgSize(frame.msg)
        BY <1>d, <2>4, <4>1, <4>2, <4>3 DEF FrameDone
      <4>4. CASE frame.last # MsgSize(frame.msg)
        <5>1. cmPc' = "transport" /\ frame' = [frame EXCEPT !.pos = frame.last]
          BY <4>1, <4>4 DEF FrameDone
        <5>2. frame'.msg = frame.msg /\ frame'.pos = frame.last
          BY <1>b, <5>1 DEF TypeOK
        <5> QED
          BY <4>2, <4>4, <5>1, <5>2
      <4> QED
        BY <4>3, <4>4
    <3> QED
      BY <3>1, <3>2
  <2>6. StreamInv'
    BY <2>1, <2>3, <2>5 DEF StreamInv
  <2>7. Reading' = Reading /\ Filled'
    BY <2>1, <2>2 DEF Reading, Filled
  <2>8. ReadInv'
    <3>1. CASE request.buf = "header"
      <4>1. request.size = HeaderSize /\ frame.msg = Reading /\ frame.pos = 0
        BY <2>2, <3>1 DEF ReadInv
      <4>2. HeaderConsumed(Reading)'
        <5>1. frame.pos + piece.len = HeaderSize
          BY <1>d, <2>2, <4>1
        <5>2. /\ Payloads[Reading] = 0 => frame'.msg = Reading + 1 /\ frame'.pos = 0
              /\ Payloads[Reading] > 0 => frame'.msg = Reading /\ frame'.pos = HeaderSize
          BY <1>d, <2>4, <2>5, <4>1, <5>1
        <5>3. Payloads[Reading] \in Nat
          BY <2>4, <4>1
        <5> QED
          BY <2>7, <5>2, <5>3 DEF HeaderConsumed
      <4>3. IsHeaderOf(Reading, memory["header"])
        BY <1>d, <2>2, <3>1, <4>1 DEF IsHeaderOf
      <4>4. Reading <= Len(Payloads)
        BY <2>3, <4>1, ChannelAssumption
      <4> QED
        BY <2>1, <2>2, <2>7, <3>1, <4>1, <4>2, <4>3, <4>4 DEF ReadInv, IsHeaderOf
    <3>2. CASE request.buf = "receive"
      <4>1. /\ request.size = Payloads[Reading] /\ HeaderConsumed(Reading)
            /\ Reading <= Len(Payloads)
        BY <2>2, <3>2 DEF ReadInv
      <4>2. frame.msg = Reading /\ frame.pos = HeaderSize
        BY <2>2, <4>1 DEF HeaderConsumed
      <4>3. frame'.msg = Reading + 1 /\ frame'.pos = 0
        BY <2>2, <2>4, <2>5, <4>1, <4>2
      <4> QED
        BY <2>1, <2>2, <2>7, <3>2, <4>1, <4>2, <4>3 DEF ReadInv
    <3> QED
      BY <1>c, <3>1, <3>2
  <2>9. CopyInv'
    BY <2>1, <2>5 DEF CopyInv
  <2> QED
    BY <1>a, <2>1, <2>6, <2>8, <2>9
<1>12. CASE UNCHANGED vars
  <2>1. /\ UNCHANGED <<mReadReady, mClose, mBuffer, mBufferLen, memory>>
        /\ UNCHANGED <<clPc, request, delivered, frame, piece, failures, cmPc, mStarted>>
    BY <1>12 DEF vars, chVars, clVars, cmVars
  <2>2. StreamInv'
    BY <2>1 DEF StreamInv
  <2>3. ReadInv' /\ CopyInv'
    BY <2>1 DEF ReadInv, CopyInv, Filled, Reading, HeaderConsumed
  <2> QED
    BY <1>a, <2>1, <2>2, <2>3
<1> QED
  BY <1>2, <1>3, <1>4, <1>5, <1>6, <1>7, <1>8, <1>9, <1>10, <1>11, <1>12,
     <1>13
  DEF Next, Handler, Manager

(* Under these conditions Channel implements the message pipe: the whole   *)
(* messages of the peer reach ReceiveMessage in order, none lost, none     *)
(* twice, none mixed with another, for every script of the peer, every     *)
(* size of the buffers and every interleaving of ProcessData and Read      *)
(* (pbhandler.cpp:120-175, channelmanager.cpp:251-283).                    *)
THEOREM ImplementsPipe ==
  ASSUME Orderly
  PROVE  Spec => PipeSafety
<1>1. Init => PipeInv /\ Pipe!Init
  BY PipeInit
<1>2. PipeInv /\ [Next]_vars => PipeInv' /\ [Pipe!Deliver]_delivered
  BY PipeNext
<1> QED
  BY <1>1, <1>2, PTL DEF Spec, PipeSafety, Pipe!Safety
==============================================================================
