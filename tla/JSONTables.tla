----------------------------- MODULE JSONTables -----------------------------
(***************************************************************************)
(* The JSON library as the node uses it: an object of a document is a      *)
(* function from the names of its fields to their values, and is parsed    *)
(* into a structure that holds something already.                          *)
(*                                                                         *)
(* A call that may fail returns <<value>>, or Error.                       *)
(***************************************************************************)
EXTENDS Naturals, Sequences

Error == <<>>

(* json_obj_parse of one object: a field that the structure has no member  *)
(* for is skipped, a member without a field stays as it was.               *)
Read(struct, doc) == [f \in DOMAIN struct |-> IF f \in DOMAIN doc THEN doc[f] ELSE struct[f]]

(* An array of objects, into structures that all hold the same.            *)
ReadAll(struct, docs) == [i \in DOMAIN docs |-> Read(struct, docs[i])]

(* An array that does not fit its table makes the parser fail.             *)
TablesFit(x, F, max) == \A f \in F : Len(x[f]) <= max

(* The definitions named Bug_... are not part of the specification: each   *)
(* is a slip in the code that a property must catch.                       *)
Bug_CanPush(a, b, max) == Len(a) <= max /\ Len(b) <= max

(* PushBack of one element after the other.  An error ends the call, or is *)
(* dropped, and the elements that do not fit with it.                      *)
CanPush(a, b, max) == Len(a) + Len(b) <= max
PushDropping(a, b, max) ==
  IF CanPush(a, b, max) THEN a \o b ELSE SubSeq(a \o b, 1, max)

(* Resize keeps the elements that are there; new ones are empty.           *)
Resized(a, n, empty) == [i \in 1..n |-> IF i <= Len(a) THEN a[i] ELSE empty]
=============================================================================
