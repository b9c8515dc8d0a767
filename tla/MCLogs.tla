------------------------------ MODULE MCLogs ------------------------------
(* Two files of one write, and two requests, for module LogProvider: one   *)
(* with every filter set, one for the whole log.                           *)
EXTENDS LogProvider

CONSTANTS i1, i2, node

WriterOf == [e \in 1..MaxWrites |-> IF e = 1 THEN node ELSE IF e = 2 THEN i1 ELSE i2]

RequestsOf == {[from |-> 2, till |-> 5, filtered |-> TRUE, idents |-> {i2}],
               [from |-> 0, till |-> 0, filtered |-> FALSE, idents |-> {}]}
=============================================================================
