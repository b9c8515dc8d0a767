---------------------------- MODULE MessagePipe ----------------------------
(***************************************************************************)
(* What a communication channel promises to the protobuf handler on top of *)
(* it: the messages of the peer reach ReceiveMessage whole, in order, once *)
(* each, and every one of them eventually does.                            *)
(***************************************************************************)
EXTENDS Naturals, Sequences

CONSTANT Messages      \* the messages the peer sends, in the order it sends them

VARIABLE delivered     \* the messages handed to ReceiveMessage so far

Init == delivered = << >>

Deliver ==
  /\ Len(delivered) < Len(Messages)
  /\ delivered' = Append(delivered, Messages[Len(delivered) + 1])

Safety   == Init /\ [][Deliver]_delivered
Liveness == WF_delivered(Deliver)

Spec == Safety /\ Liveness
=============================================================================
