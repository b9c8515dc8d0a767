---------------------------- MODULE RecordStore ----------------------------
(***************************************************************************)
(* What a database of Storage promises to its users: a set of records, one *)
(* per key.  A record that was added or removed is saved when the call     *)
(* returns; an updated one may have to wait for the next record that is    *)
(* added or removed.  A restart keeps what is saved, and of what is not    *)
(* yet saved any part.                                                     *)
(***************************************************************************)
CONSTANTS Keys, Values

VARIABLES
  records,  \* the records its users find
  saved,    \* the records that survive a power cut
  busy      \* TRUE: a call has added or removed a record and not yet returned

vars == <<records, saved, busy>>

KeysOf(R) == {r.key : r \in R}
Unique(R) == \A r, s \in R : r.key = s.key => r = s

Init == records = {} /\ saved = {} /\ busy = FALSE

Add(k, v) ==
  /\ ~busy /\ k \notin KeysOf(records)
  /\ records' = records \union {[key |-> k, val |-> v]}
  /\ busy' = TRUE
  /\ UNCHANGED saved

Update(k, v) ==
  /\ ~busy /\ k \in KeysOf(records)
  /\ records' = {r \in records : r.key # k} \union {[key |-> k, val |-> v]}
  /\ UNCHANGED <<saved, busy>>

Remove(r) ==
  /\ ~busy /\ r \in records
  /\ records' = records \ {r}
  /\ busy' = TRUE
  /\ UNCHANGED saved

Save == saved' = records /\ busy' = FALSE /\ UNCHANGED records

Restart ==
  /\ records' \in SUBSET (records \union saved)
  /\ records \intersect saved \subseteq records'
  /\ KeysOf(records) \intersect KeysOf(saved) \subseteq KeysOf(records')
  /\ Unique(records')
  /\ saved' = records'
  /\ busy' = FALSE

Next ==
  \/ \E k \in Keys, v \in Values : Add(k, v) \/ Update(k, v)
  \/ \E r \in records : Remove(r)
  \/ Save \/ Restart

Spec == Init /\ [][Next]_vars
=============================================================================
