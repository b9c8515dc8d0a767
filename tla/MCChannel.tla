----------------------------- MODULE MCChannel -----------------------------
(* The scripts of the peer used to check module Channel: payloads of every *)
(* size, and one that does not fit the receive buffer of the handler.      *)
EXTENDS Channel

MCPayloads      == <<2, 0, 1, 2, 1, 0, 2>>
MCShortPayloads == <<2, 3, 1>>
=============================================================================
