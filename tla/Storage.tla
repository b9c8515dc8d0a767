------------------------------ MODULE Storage ------------------------------
(***************************************************************************)
(* One database of Storage (instances, services, layers or certificates)   *)
(* and the file it is kept in (FileStorage).                               *)
(*                                                                         *)
(* The file is a sequence of slots of one size, each a record and its flag *)
(* mDeleted; a scan reads slot after slot and stops at what is shorter     *)
(* than a slot.  Storage::mMutex makes the calls exclude each other, so a  *)
(* call is one step up to its Sync, which is the next: between the two,    *)
(* and at any other time, the power may go.  The header and the checksums  *)
(* are written and never read, so they are left out.                       *)
(***************************************************************************)
EXTENDS Integers, Sequences, FiniteSets

CONSTANTS
  Keys,        \* what the filter of Add compares
  Values,      \* the rest of a record
  Filters,     \* the sets of keys that the filters of Remove match
  NoKey,       \* stands for bytes that belong to no record
  MaxSlots,    \* bound on the slots of the file
  WritesFail   \* TRUE: a write may fail, or stop before the end of a slot

ASSUME StorageAssumption ==
  /\ Filters \subseteq SUBSET Keys
  /\ NoKey \notin Keys /\ NoKey \notin Values
  /\ MaxSlots \in Nat
  /\ WritesFail \in BOOLEAN

VARIABLES
  slots,     \* the whole slots of the file, as mFd reads them
  fragment,  \* what is behind the last whole slot: nothing, or part of a record
  disk,      \* the slots that survive a power cut
  opened,    \* mFd >= 0
  call       \* the last call: what it was asked and what it returned

fileVars == <<slots, fragment, disk, opened>>
vars     == <<fileVars, call>>

Record(k, v) == [key |-> k, val |-> v]
Garbage      == Record(NoKey, NoKey)
Slot(r)      == [data |-> r, mDeleted |-> FALSE]

Live(s)      == {i \in DOMAIN s : ~s[i].mDeleted}
Records(s)   == {s[i].data : i \in Live(s)}
Matching(F)  == {i \in Live(slots) : slots[i].data.key \in F}
Deleted      == DOMAIN slots \ Live(slots)
First(S)     == CHOOSE i \in S : \A j \in S : i <= j

Idle == opened /\ call.ret # "busy"

Calls(op, F, v, ret) == call' = [op |-> op, filter |-> F, val |-> v, ret |-> ret]

Init ==
  /\ slots = << >> /\ fragment = << >> /\ disk = << >> /\ opened = TRUE
  /\ call = [op |-> "init", filter |-> {}, val |-> NoKey, ret |-> "ok"]

-----------------------------------------------------------------------------
(* Add: scan the file for the key, remember the first deleted slot.        *)

AddExists(k, v) ==
  /\ Idle /\ Matching({k}) # {}
  /\ Calls("add", {k}, v, "exists")
  /\ UNCHANGED fileVars

Reuse(r) ==
  /\ Deleted # {}
  /\ slots' = [slots EXCEPT ![First(Deleted)] = Slot(r)]
  /\ UNCHANGED fragment

AppendSlot(r) ==
  /\ Deleted = {} /\ fragment = << >> /\ Len(slots) < MaxSlots
  /\ slots' = Append(slots, Slot(r))
  /\ UNCHANGED fragment

(* The scan has read the fragment, so the record is written behind it: the *)
(* fragment and the beginning of the record are one slot from now on, and  *)
(* the end of the record is the new fragment.                              *)
AppendBehindFragment ==
  /\ Deleted = {} /\ fragment # << >> /\ Len(slots) < MaxSlots
  /\ \E r \in {fragment[1], Record(fragment[1].key, NoKey), Garbage}, deleted \in BOOLEAN :
       slots' = Append(slots, [data |-> r, mDeleted |-> deleted])
  /\ fragment' = <<Garbage>>

(* The definitions named Bug_... are not part of the specification: each   *)
(* is a plausible slip in the action that follows it, which a property     *)
(* must catch.                                                             *)
Bug_AddUnchecked(k, v) ==
  /\ Idle
  /\ Reuse(Record(k, v)) \/ AppendSlot(Record(k, v)) \/ AppendBehindFragment
  /\ Calls("add", {k}, v, "busy")
  /\ UNCHANGED <<disk, opened>>

Bug_AddAppends(k, v) ==
  /\ Idle /\ Matching({k}) = {} /\ Len(slots) < MaxSlots
  /\ slots' = Append(slots, Slot(Record(k, v)))
  /\ Calls("add", {k}, v, "busy")
  /\ UNCHANGED <<fragment, disk, opened>>

Add(k, v) ==
  /\ Idle /\ Matching({k}) = {}
  /\ Reuse(Record(k, v)) \/ AppendSlot(Record(k, v)) \/ AppendBehindFragment
  /\ Calls("add", {k}, v, "busy")
  /\ UNCHANGED <<disk, opened>>

(* A short write may leave nothing, part of the record, or all but the     *)
(* checksum.  Add returns the error and does not Sync.                     *)
AddFails(k, v) ==
  /\ WritesFail /\ Idle /\ Matching({k}) = {}
  /\ \/ UNCHANGED <<slots, fragment>>
     \/ Reuse(Record(k, v))
     \/ Deleted = {} /\ fragment = << >>
        /\ fragment' = <<Record(k, v)>> /\ UNCHANGED slots
     \/ AppendBehindFragment
  /\ Calls("add", {k}, v, "failed")
  /\ UNCHANGED <<disk, opened>>

-----------------------------------------------------------------------------
(* Update writes over the first record that matches, and returns.          *)

Bug_OverwriteNext(k, v) ==
  slots' = LET next == First(Matching({k})) + 1
           IN IF next \in DOMAIN slots THEN [slots EXCEPT ![next] = Slot(Record(k, v))]
              ELSE Append(slots, Slot(Record(k, v)))

Bug_OverwriteBefore(k, v) ==
  LET before == First(Matching({k})) - 1
  IN slots' = [i \in DOMAIN slots \union {before} |->
                 IF i = before THEN Slot(Record(k, v)) ELSE slots[i]]

Overwrite(k, v) ==
  slots' = [slots EXCEPT ![First(Matching({k}))] = Slot(Record(k, v))]

Update(k, v) ==
  /\ Idle /\ Matching({k}) # {}
  /\ Overwrite(k, v)
  /\ Calls("update", {k}, v, "ok")
  /\ UNCHANGED <<fragment, disk, opened>>

UpdateFails(k, v) ==
  /\ WritesFail /\ Idle /\ Matching({k}) # {}
  /\ UNCHANGED slots \/ Overwrite(k, v) \/ Overwrite(k, NoKey)
  /\ Calls("update", {k}, v, "failed")
  /\ UNCHANGED <<fragment, disk, opened>>

(* It is the update of a missing record that calls Sync.                   *)
UpdateNotFound(k, v) ==
  /\ Idle /\ Matching({k}) = {}
  /\ disk' = slots /\ opened' \in BOOLEAN
  /\ Calls("update", {k}, v, IF opened' THEN "notFound" ELSE "failed")
  /\ UNCHANGED <<slots, fragment>>

-----------------------------------------------------------------------------
(* Remove marks the first record that matches.  RemoveAllCertsInfo calls   *)
(* it once, and takes "not found" for success.                             *)

RemoveOps == {"remove", "removeAll"}

Mark(F) == slots' = [slots EXCEPT ![First(Matching(F))].mDeleted = TRUE]

Remove(op, F) ==
  /\ Idle /\ Matching(F) # {}
  /\ Mark(F)
  /\ Calls(op, F, NoKey, "busy")
  /\ UNCHANGED <<fragment, disk, opened>>

RemoveFails(op, F) ==
  /\ WritesFail /\ Idle /\ Matching(F) # {}
  /\ UNCHANGED slots \/ Mark(F)
  /\ Calls(op, F, NoKey, "failed")
  /\ UNCHANGED <<fragment, disk, opened>>

RemoveNotFound(op, F) ==
  /\ Idle /\ Matching(F) = {}
  /\ Calls(op, F, NoKey, IF op = "removeAll" THEN "ok" ELSE "notFound")
  /\ UNCHANGED fileVars

-----------------------------------------------------------------------------
Bug_SyncWithoutClose ==
  /\ call.ret = "busy"
  /\ call' = [call EXCEPT !.ret = "ok"]
  /\ UNCHANGED <<slots, fragment, disk, opened>>

(* Sync closes the file, which saves it, and opens it again.  When that    *)
(* fails, no call gets beyond its first lseek until the program restarts.  *)
Sync ==
  /\ call.ret = "busy"
  /\ disk' = slots /\ opened' \in BOOLEAN
  /\ call' = [call EXCEPT !.ret = IF opened' THEN "ok" ELSE "failed"]
  /\ UNCHANGED <<slots, fragment>>

NotOpened(op, F) ==
  /\ ~opened
  /\ Calls(op, F, NoKey, "failed")
  /\ UNCHANGED fileVars

(* The power goes, or the program ends: of the slots that are not saved,   *)
(* each is the old or the new one when Init opens the file again.          *)
Restart ==
  /\ \E n \in Len(disk)..Len(slots), new \in SUBSET DOMAIN slots :
       slots' = [i \in 1..n |-> IF i \in new \/ i > Len(disk) THEN slots[i] ELSE disk[i]]
  /\ fragment' \in {fragment, << >>}
  /\ disk' = slots' /\ opened' = TRUE
  /\ Calls("init", {}, NoKey, "ok")

Next ==
  \/ \E k \in Keys, v \in Values :
       \/ AddExists(k, v) \/ Add(k, v) \/ AddFails(k, v)
       \/ Update(k, v) \/ UpdateFails(k, v) \/ UpdateNotFound(k, v)
  \/ \E op \in RemoveOps, F \in Filters :
       Remove(op, F) \/ RemoveFails(op, F) \/ RemoveNotFound(op, F)
  \/ \E op \in {"add", "update"} \union RemoveOps, F \in Filters : NotOpened(op, F)
  \/ Sync \/ Restart

Spec == Init /\ [][Next]_vars

-----------------------------------------------------------------------------
Slots == [data : [key : Keys \union {NoKey}, val : Values \union {NoKey}],
          mDeleted : BOOLEAN]

(* Every slot lies behind the header and within the bound, the saved ones *)
(* among those of the file; a fragment is part of at most one record.      *)
TypeOK ==
  /\ DOMAIN slots \subseteq 1..MaxSlots /\ slots \in Seq(Slots)
  /\ DOMAIN disk \subseteq DOMAIN slots /\ disk \in Seq(Slots)
  /\ fragment = << >> \/ \E r \in [key : Keys \union {NoKey}, val : Values \union {NoKey}] :
                            fragment = <<r>>
  /\ opened \in BOOLEAN
  /\ call \in [op : {"init", "add", "update"} \union RemoveOps, filter : SUBSET Keys,
               val : Values \union {NoKey},
               ret : {"ok", "busy", "exists", "notFound", "failed"}]

(* No two records have one key, neither in the file nor in what a power    *)
(* cut leaves of it: Add answers eAlreadyExist (filestorage.hpp:107-109)   *)
(* whatever was removed, reused, updated or lost before.                   *)
UniqueIn(s) == \A i, j \in Live(s) : s[i].data.key = s[j].data.key => i = j
UniqueKeys == UniqueIn(slots) /\ UniqueIn(disk)

(* Deleted slots are used again: the file never has more slots than there  *)
(* can be records (filestorage.hpp:111-116, 134-139).                      *)
FileIsBounded == Len(slots) <= Cardinality(Keys)

(* A saved record outlives every call about other keys and every power     *)
(* cut, in its place, whatever writes failed or stopped half-way before:   *)
(* each write goes to the slot that was just read, to a deleted slot or to *)
(* the end (filestorage.hpp:134-141, 180-199, 244-255).                    *)
SavedIsKept ==
  [][\A i \in DOMAIN slots \intersect DOMAIN disk :
       slots[i] = disk[i] /\ i \in Live(slots) /\ slots[i].data.key \notin call'.filter
         => /\ i \in DOMAIN slots' /\ slots'[i] = slots[i]
            /\ i \in DOMAIN disk' /\ disk'[i] = slots[i]]_vars

(* The file is a record store.                                             *)
Store == INSTANCE RecordStore WITH
  records <- Records(slots), saved <- Records(disk), busy <- call.ret = "busy"
StoreSpec == Store!Spec
=============================================================================
