---------------------------- MODULE StorageProof ----------------------------
(***************************************************************************)
(* Proofs about module Storage.                                            *)
(***************************************************************************)
EXTENDS Storage, LeastElement, SequenceTheorems

(* First returns an element of its set.                                    *)
LEMMA FirstIsElement ==
  ASSUME NEW S \in SUBSET Nat, S # {}
  PROVE  First(S) \in S
BY HasLeast DEF First

(* The slots that the calls look for are slots of the file, and the first  *)
(* of them is one of them.                                                 *)
LEMMA FirstMatch ==
  ASSUME slots \in Seq(Slots), NEW F, Matching(F) # {}
  PROVE  /\ First(Matching(F)) \in 1..Len(slots)
         /\ ~slots[First(Matching(F))].mDeleted
         /\ slots[First(Matching(F))].data.key \in F
<1>1. Matching(F) \in SUBSET Nat
  BY DEF Matching, Live
<1>2. First(Matching(F)) \in Matching(F)
  BY <1>1, FirstIsElement
<1> QED
  BY <1>2 DEF Matching, Live

LEMMA FirstDeleted ==
  ASSUME slots \in Seq(Slots), Deleted # {}
  PROVE  First(Deleted) \in 1..Len(slots) /\ slots[First(Deleted)].mDeleted
<1>1. Deleted \in SUBSET Nat
  BY DEF Deleted, Live
<1>2. First(Deleted) \in Deleted
  BY <1>1, FirstIsElement
<1>3. First(Deleted) \in DOMAIN slots /\ slots[First(Deleted)].mDeleted
  BY <1>2 DEF Deleted, Live
<1> QED
  BY <1>3

-----------------------------------------------------------------------------
(* Type correctness.                                                       *)

Fragments == {<< >>} \union {<<r>> : r \in [key : Keys \union {NoKey}, val : Values \union {NoKey}]}

FileOK(s) == s \in Seq(Slots) /\ Len(s) <= MaxSlots

(* TypeOK in terms of lengths.                                             *)
LEMMA TypeByLength ==
  ASSUME NEW s \in Seq(Slots), NEW d \in Seq(Slots)
  PROVE  /\ DOMAIN s \subseteq 1..MaxSlots <=> Len(s) <= MaxSlots
         /\ DOMAIN d \subseteq DOMAIN s <=> Len(d) <= Len(s)
<1>1. \A m, n \in Nat : 1..m \subseteq 1..n <=> m <= n
  <2> SUFFICES ASSUME NEW m \in Nat, NEW n \in Nat PROVE 1..m \subseteq 1..n <=> m <= n
    OBVIOUS
  <2>1. m <= n => 1..m \subseteq 1..n
    OBVIOUS
  <2>2. CASE m = 0
    BY <2>1, <2>2
  <2>3. CASE m # 0
    <3>1. m \in 1..m
      BY <2>3
    <3> QED
      BY <3>1, <2>1
  <2> QED
    BY <2>2, <2>3
<1>2. DOMAIN s = 1..Len(s) /\ DOMAIN d = 1..Len(d) /\ Len(s) \in Nat /\ Len(d) \in Nat
  OBVIOUS
<1>3. MaxSlots \in Nat
  BY StorageAssumption
<1> QED
  BY <1>1, <1>2, <1>3

(* What a record is made of.                                               *)
LEMMA SlotType ==
  ASSUME NEW k \in Keys \union {NoKey}, NEW v \in Values \union {NoKey}
  PROVE  /\ Record(k, v) \in [key : Keys \union {NoKey}, val : Values \union {NoKey}]
         /\ Slot(Record(k, v)) \in Slots
         /\ Record(k, v).key = k
         /\ Slot(Record(k, v)).data = Record(k, v)
         /\ ~Slot(Record(k, v)).mDeleted
BY DEF Record, Slot, Slots

(* Where the writes go: each writes one slot, an old one or the next.      *)
LEMMA OldSlotWritten ==
  ASSUME slots \in Seq(Slots), NEW w \in 1..Len(slots), NEW x \in Slots,
         slots' = [slots EXCEPT ![w] = x]
  PROVE  /\ slots' \in Seq(Slots) /\ Len(slots') = Len(slots)
         /\ slots'[w] = x
         /\ \A i \in 1..Len(slots) : i # w => slots'[i] = slots[i]
OBVIOUS

LEMMA NextSlotWritten ==
  ASSUME slots \in Seq(Slots), NEW x \in Slots, slots' = Append(slots, x)
  PROVE  /\ slots' \in Seq(Slots) /\ Len(slots') = Len(slots) + 1
         /\ slots'[Len(slots) + 1] = x
         /\ \A i \in 1..Len(slots) : slots'[i] = slots[i]
OBVIOUS

(* The file after a write, for the type invariant.                         *)
Grown ==
  /\ slots' \in Seq(Slots) /\ Len(slots) <= Len(slots') /\ Len(slots') <= MaxSlots
  /\ fragment' \in Fragments

LEMMA WriteOfAdd ==
  ASSUME slots \in Seq(Slots), Len(slots) <= MaxSlots, fragment \in Fragments,
         NEW k \in Keys, NEW v \in Values,
         Reuse(Record(k, v)) \/ AppendSlot(Record(k, v)) \/ AppendBehindFragment
  PROVE  Grown
<1>1. Slot(Record(k, v)) \in Slots
  BY SlotType
<1>2. CASE Reuse(Record(k, v))
  BY <1>1, <1>2, FirstDeleted, OldSlotWritten DEF Reuse, Grown
<1>3. CASE AppendSlot(Record(k, v))
  BY <1>1, <1>3, NextSlotWritten, StorageAssumption DEF AppendSlot, Grown
<1>4. CASE AppendBehindFragment
  <2>1. PICK r \in {fragment[1], Record(fragment[1].key, NoKey), Garbage}, deleted \in BOOLEAN :
          slots' = Append(slots, [data |-> r, mDeleted |-> deleted])
    BY <1>4 DEF AppendBehindFragment
  <2>2. PICK f \in [key : Keys \union {NoKey}, val : Values \union {NoKey}] : fragment = <<f>>
    BY <1>4 DEF AppendBehindFragment, Fragments
  <2>3. fragment[1] = f
    BY <2>2
  <2>4. r \in [key : Keys \union {NoKey}, val : Values \union {NoKey}]
    BY <2>1, <2>2, <2>3 DEF Record, Garbage
  <2>5. [data |-> r, mDeleted |-> deleted] \in Slots
    BY <2>4 DEF Slots
  <2>6. fragment' \in Fragments
    BY <1>4 DEF AppendBehindFragment, Fragments, Garbage, Record
  <2> QED
    BY <1>4, <2>1, <2>5, <2>6, NextSlotWritten, StorageAssumption DEF AppendBehindFragment, Grown
<1> QED
  BY <1>2, <1>3, <1>4

LEMMA WriteOfUpdate ==
  ASSUME slots \in Seq(Slots), Len(slots) <= MaxSlots, fragment \in Fragments,
         NEW k \in Keys, NEW v \in Values \union {NoKey},
         Matching({k}) # {}, Overwrite(k, v), UNCHANGED fragment
  PROVE  Grown
<1> DEFINE w == First(Matching({k}))
           x == Slot(Record(k, v))
<1>1. w \in 1..Len(slots) /\ x \in Slots
  BY FirstMatch, SlotType
<1>2. slots' = [slots EXCEPT ![w] = x]
  BY DEF Overwrite
<1> HIDE DEF w, x
<1> QED
  BY <1>1, <1>2, OldSlotWritten DEF Grown

LEMMA WriteOfRemove ==
  ASSUME slots \in Seq(Slots), Len(slots) <= MaxSlots, fragment \in Fragments,
         NEW F, Matching(F) # {}, Mark(F), UNCHANGED fragment
  PROVE  Grown
<1> DEFINE w == First(Matching(F))
<1>1. w \in 1..Len(slots)
  BY FirstMatch
<1>2. slots[w] \in Slots
  BY <1>1
<1> HIDE DEF w
<1> DEFINE x == [slots[w] EXCEPT !.mDeleted = TRUE]
<1>3. x \in Slots
  BY <1>2 DEF Slots
<1>4. slots' = [slots EXCEPT ![w] = x]
  BY DEF Mark, w
<1> HIDE DEF x
<1> QED
  BY <1>1, <1>3, <1>4, OldSlotWritten DEF Grown

(* After a restart every slot is the one of the file or the saved one.     *)
LEMMA SlotsAfterRestart ==
  ASSUME slots \in Seq(Slots), disk \in Seq(Slots), Len(disk) <= Len(slots), Restart
  PROVE  /\ slots' \in Seq(Slots) /\ Len(disk) <= Len(slots') /\ Len(slots') <= Len(slots)
         /\ \A i \in 1..Len(slots') :
              \/ i \in 1..Len(slots) /\ slots'[i] = slots[i]
              \/ i \in 1..Len(disk) /\ slots'[i] = disk[i]
<1>1. PICK n \in Len(disk)..Len(slots), new \in SUBSET DOMAIN slots :
        slots' = [i \in 1..n |-> IF i \in new \/ i > Len(disk) THEN slots[i] ELSE disk[i]]
  BY DEF Restart
<1>2. n \in Nat /\ Len(disk) <= n /\ n <= Len(slots)
  BY <1>1
<1>3. \A i \in 1..n : \/ i \in 1..Len(slots) /\ slots'[i] = slots[i]
                      \/ i \in 1..Len(disk) /\ slots'[i] = disk[i]
  BY <1>1, <1>2
<1>4. slots' \in [1..n -> Slots]
  BY <1>1, <1>2
<1>5. slots' \in Seq(Slots) /\ Len(slots') = n
  BY <1>2, <1>4, SeqDef
<1> QED
  BY <1>2, <1>3, <1>5

(* TypeOK, with lengths instead of domains.                                *)
CallSet ==
  [op : {"init", "add", "update"} \union RemoveOps, filter : SUBSET Keys,
   val : Values \union {NoKey}, ret : {"ok", "busy", "exists", "notFound", "failed"}]

FilesOK ==
  /\ slots \in Seq(Slots) /\ Len(slots) <= MaxSlots
  /\ disk \in Seq(Slots) /\ Len(disk) <= Len(slots)
  /\ fragment \in Fragments
  /\ opened \in BOOLEAN

LEMMA TypeParts == TypeOK <=> FilesOK /\ call \in CallSet
<1>1. fragment \in Fragments
        <=> \/ fragment = << >>
            \/ \E r \in [key : Keys \union {NoKey}, val : Values \union {NoKey}] : fragment = <<r>>
  BY DEF Fragments
<1> QED
  BY <1>1, TypeByLength DEF TypeOK, FilesOK, CallSet

(* It holds of the empty file.                                             *)
LEMMA TypeInit == Init => TypeOK
<1> SUFFICES ASSUME Init PROVE FilesOK /\ call \in CallSet
  BY TypeParts
<1>1. << >> \in Seq(Slots) /\ Len(<< >>) = 0 /\ << >> \in Fragments
  BY DEF Fragments
<1> QED
  BY <1>1, StorageAssumption DEF Init, FilesOK, CallSet

(* Every call, every power cut and every failing write keep it.            *)
LEMMA TypeNext == TypeOK /\ [Next]_vars => TypeOK'
<1> SUFFICES ASSUME TypeOK, [Next]_vars PROVE FilesOK' /\ call' \in CallSet
  <2>1. (TypeOK <=> FilesOK /\ call \in CallSet)'
    BY TypeParts, PTL
  <2> QED
    BY <2>1
<1>0. FilesOK /\ call \in CallSet
  BY TypeParts
<1> USE <1>0
<1>a. ASSUME Grown, UNCHANGED <<disk, opened>> PROVE FilesOK'
  BY <1>a DEF FilesOK, Grown
<1>b. ASSUME UNCHANGED fileVars PROVE FilesOK'
  BY <1>b DEF fileVars, FilesOK
<1>c. ASSUME NEW op \in {"init", "add", "update"} \union RemoveOps, NEW F \in SUBSET Keys,
             NEW v \in Values \union {NoKey},
             NEW ret \in {"ok", "busy", "exists", "notFound", "failed"},
             Calls(op, F, v, ret)
      PROVE  call' \in CallSet
  BY <1>c DEF Calls, CallSet
<1>1. ASSUME NEW k \in Keys, NEW v \in Values, AddExists(k, v) PROVE FilesOK' /\ call' \in CallSet
  BY <1>1, <1>b, <1>c DEF AddExists
<1>2. ASSUME NEW k \in Keys, NEW v \in Values, Add(k, v) PROVE FilesOK' /\ call' \in CallSet
  <2>1. Grown
    BY <1>2, WriteOfAdd DEF Add, FilesOK
  <2> QED
    BY <1>2, <2>1, <1>a, <1>c DEF Add
<1>3. ASSUME NEW k \in Keys, NEW v \in Values, AddFails(k, v) PROVE FilesOK' /\ call' \in CallSet
  <2>1. UNCHANGED <<disk, opened>> /\ call' \in CallSet
    BY <1>3, <1>c DEF AddFails
  <2>2. CASE UNCHANGED <<slots, fragment>>
    BY <2>1, <2>2, <1>b DEF fileVars
  <2>3. CASE Reuse(Record(k, v)) \/ AppendBehindFragment
    BY <2>1, <2>3, <1>a, WriteOfAdd DEF FilesOK
  <2>4. CASE fragment' = <<Record(k, v)>> /\ UNCHANGED slots
    <3>1. fragment' \in Fragments
      BY <2>4, SlotType DEF Fragments
    <3> QED
      BY <2>1, <2>4, <3>1 DEF FilesOK
  <2> QED
    BY <1>3, <2>2, <2>3, <2>4 DEF AddFails
<1>4. ASSUME NEW k \in Keys, NEW v \in Values, Update(k, v) PROVE FilesOK' /\ call' \in CallSet
  <2>1. Grown
    BY <1>4, WriteOfUpdate DEF Update, FilesOK
  <2> QED
    BY <1>4, <2>1, <1>a, <1>c DEF Update
<1>5. ASSUME NEW k \in Keys, NEW v \in Values, UpdateFails(k, v) PROVE FilesOK' /\ call' \in CallSet
  <2>1. UNCHANGED <<fragment, disk, opened>> /\ call' \in CallSet
    BY <1>5, <1>c DEF UpdateFails
  <2>2. CASE UNCHANGED slots
    BY <2>1, <2>2, <1>b DEF fileVars
  <2>3. CASE Overwrite(k, v) \/ Overwrite(k, NoKey)
    <3>1. Grown
      BY <1>5, <2>1, <2>3, WriteOfUpdate DEF UpdateFails, FilesOK
    <3> QED
      BY <2>1, <3>1, <1>a
  <2> QED
    BY <1>5, <2>2, <2>3 DEF UpdateFails
<1>6. ASSUME NEW k \in Keys, NEW v \in Values, UpdateNotFound(k, v)
      PROVE  FilesOK' /\ call' \in CallSet
  <2>1. FilesOK'
    BY <1>6 DEF UpdateNotFound, FilesOK
  <2>2. call' \in CallSet
    BY <1>6, <1>c DEF UpdateNotFound
  <2> QED
    BY <2>1, <2>2
<1>7. ASSUME NEW op \in RemoveOps, NEW F \in Filters, Remove(op, F)
      PROVE  FilesOK' /\ call' \in CallSet
  <2>1. Grown
    BY <1>7, WriteOfRemove DEF Remove, FilesOK
  <2> QED
    BY <1>7, <2>1, <1>a, <1>c, StorageAssumption DEF Remove
<1>8. ASSUME NEW op \in RemoveOps, NEW F \in Filters, RemoveFails(op, F)
      PROVE  FilesOK' /\ call' \in CallSet
  <2>1. UNCHANGED <<fragment, disk, opened>> /\ call' \in CallSet
    BY <1>8, <1>c, StorageAssumption DEF RemoveFails
  <2>2. CASE UNCHANGED slots
    BY <2>1, <2>2, <1>b DEF fileVars
  <2>3. CASE Mark(F)
    BY <1>8, <2>1, <2>3, <1>a, WriteOfRemove DEF RemoveFails, FilesOK
  <2> QED
    BY <1>8, <2>1, <2>2, <2>3 DEF RemoveFails
<1>9. ASSUME NEW op \in RemoveOps, NEW F \in Filters, RemoveNotFound(op, F)
      PROVE  FilesOK' /\ call' \in CallSet
  BY <1>9, <1>b, <1>c, StorageAssumption DEF RemoveNotFound
<1>10. ASSUME NEW op \in {"add", "update"} \union RemoveOps, NEW F \in Filters, NotOpened(op, F)
       PROVE  FilesOK' /\ call' \in CallSet
  BY <1>10, <1>b, <1>c, StorageAssumption DEF NotOpened
<1>11. CASE Sync
  <2>1. FilesOK'
    BY <1>11 DEF Sync, FilesOK
  <2>2. call' \in CallSet
    BY <1>11 DEF Sync, CallSet
  <2> QED
    BY <2>1, <2>2
<1>12. CASE Restart
  <2>1. /\ slots' \in Seq(Slots) /\ Len(slots') <= Len(slots)
    BY <1>12, SlotsAfterRestart DEF FilesOK
  <2>2. fragment' \in Fragments
    BY <1>12 DEF Restart, Fragments, FilesOK
  <2>3. FilesOK'
    BY <1>12, <2>1, <2>2, StorageAssumption DEF Restart, FilesOK
  <2>4. call' \in CallSet
    BY <1>12, <1>c DEF Restart
  <2> QED
    BY <2>3, <2>4
<1>13. CASE UNCHANGED vars
  BY <1>13, <1>b DEF vars
<1> QED
  BY <1>1, <1>2, <1>3, <1>4, <1>5, <1>6, <1>7, <1>8, <1>9, <1>10, <1>11, <1>12, <1>13 DEF Next

(* Every variable of the database keeps its type, also when writes fail or *)
(* stop half-way: no slot before the first, no hole, no saved slot beyond  *)
(* the end of the file.                                                    *)
THEOREM TypeCorrect == Spec => []TypeOK
  BY TypeInit, TypeNext, PTL DEF Spec

-----------------------------------------------------------------------------
(* With writes that do not fail, a power cut finds two files that differ   *)
(* in what the current call has written: outside its slot they have the    *)
(* same live slots with the same keys.  That is why any mixture of the two *)
(* has no key twice.                                                       *)

AgreeAt(i) ==
  /\ i \in DOMAIN slots <=> i \in DOMAIN disk
  /\ i \in DOMAIN slots =>
       /\ slots[i].mDeleted <=> disk[i].mDeleted
       /\ ~slots[i].mDeleted => slots[i].data.key = disk[i].data.key

Apart(w) == \A i \in Nat : i # w => AgreeAt(i)
Synced   == \A i \in Nat : AgreeAt(i)

KeyInv ==
  /\ fragment = << >>
  /\ UniqueKeys
  /\ IF call.ret = "busy" THEN opened /\ (\E w \in Nat : Apart(w)) ELSE Synced

(* It holds of the empty file.                                             *)
LEMMA KeyInit == Init => KeyInv
  BY DEF Init, KeyInv, UniqueKeys, UniqueIn, Live, Synced, AgreeAt

(* A call that writes one slot keeps the keys apart when the slot is dead  *)
(* or holds a key that no other live slot has.                             *)
LEMMA OneSlot ==
  ASSUME FilesOK, KeyInv, Synced, UNCHANGED <<fragment, disk, opened>>,
         slots' \in Seq(Slots),
         NEW w \in 1..Len(slots'),
         Len(slots') = Len(slots) \/ (Len(slots') = Len(slots) + 1 /\ w = Len(slots')),
         \A i \in 1..Len(slots) : i # w => slots'[i] = slots[i],
         \/ slots'[w].mDeleted
         \/ \A i \in 1..Len(slots) :
              i # w /\ ~slots[i].mDeleted => slots[i].data.key # slots'[w].data.key
  PROVE  UniqueKeys' /\ Apart(w)' /\ fragment' = << >>
<1>1. Apart(w)'
  <2> SUFFICES ASSUME NEW i \in Nat, i # w PROVE AgreeAt(i)'
    BY DEF Apart
  <2>1. AgreeAt(i)
    BY DEF Synced
  <2>2. i \in 1..Len(slots') <=> i \in 1..Len(slots)
    BY DEF FilesOK
  <2>3. i \in 1..Len(slots) => slots'[i] = slots[i]
    OBVIOUS
  <2> QED
    BY <2>1, <2>2, <2>3 DEF AgreeAt, FilesOK
<1>2. UniqueIn(slots)'
  <2> SUFFICES ASSUME NEW i \in 1..Len(slots'), NEW j \in 1..Len(slots'),
                      ~slots'[i].mDeleted, ~slots'[j].mDeleted,
                      slots'[i].data.key = slots'[j].data.key
               PROVE  i = j
    BY DEF UniqueIn, Live
  <2>1. \A m \in 1..Len(slots') : m # w => m \in 1..Len(slots) /\ slots'[m] = slots[m]
    BY DEF FilesOK
  <2>2. CASE i # w /\ j # w
    <3>1. i \in Live(slots) /\ j \in Live(slots) /\ slots[i].data.key = slots[j].data.key
      BY <2>1, <2>2 DEF Live, FilesOK
    <3> QED
      BY <3>1 DEF KeyInv, UniqueKeys, UniqueIn
  <2> QED
    BY <2>1, <2>2
<1>3. UniqueIn(disk)'
  BY DEF KeyInv, UniqueKeys, UniqueIn, Live
<1>4. fragment' = << >>
  BY DEF KeyInv
<1> QED
  BY <1>1, <1>2, <1>3, <1>4 DEF UniqueKeys

(* A mixture of two files that agree outside one slot has no key twice.    *)
LEMMA MixtureUnique ==
  ASSUME FilesOK, UniqueKeys, NEW w \in Nat, Apart(w),
         NEW s \in Seq(Slots),
         \A i \in 1..Len(s) : \/ i \in 1..Len(slots) /\ s[i] = slots[i]
                              \/ i \in 1..Len(disk) /\ s[i] = disk[i]
  PROVE  UniqueIn(s)
<1> DEFINE From(t, i) == i \in 1..Len(t) /\ s[i] = t[i]
<1>1. ASSUME NEW i \in 1..Len(s), NEW j \in 1..Len(s), j # w,
             ~s[i].mDeleted, ~s[j].mDeleted, s[i].data.key = s[j].data.key
      PROVE  i = j
  <2>1. AgreeAt(j)
    BY <1>1 DEF Apart
  <2>2. /\ j \in 1..Len(slots) /\ ~slots[j].mDeleted /\ slots[j].data.key = s[j].data.key
        /\ j \in 1..Len(disk) /\ ~disk[j].mDeleted /\ disk[j].data.key = s[j].data.key
    BY <1>1, <2>1 DEF AgreeAt, FilesOK
  <2>3. CASE i \in 1..Len(slots) /\ s[i] = slots[i]
    <3>1. i \in Live(slots) /\ j \in Live(slots) /\ slots[i].data.key = slots[j].data.key
      BY <1>1, <2>2, <2>3 DEF Live, FilesOK
    <3> QED
      BY <3>1 DEF UniqueKeys, UniqueIn
  <2>4. CASE i \in 1..Len(disk) /\ s[i] = disk[i]
    <3>1. i \in Live(disk) /\ j \in Live(disk) /\ disk[i].data.key = disk[j].data.key
      BY <1>1, <2>2, <2>4 DEF Live, FilesOK
    <3> QED
      BY <3>1 DEF UniqueKeys, UniqueIn
  <2> QED
    BY <2>3, <2>4
<1> SUFFICES ASSUME NEW i \in 1..Len(s), NEW j \in 1..Len(s),
                    ~s[i].mDeleted, ~s[j].mDeleted, s[i].data.key = s[j].data.key
             PROVE  i = j
  BY DEF UniqueIn, Live
<1>2. CASE j # w
  BY <1>1, <1>2
<1>3. CASE i # w
  BY <1>1, <1>3
<1> QED
  BY <1>2, <1>3

(* What Add, Update and Remove write, in the terms of OneSlot.             *)
Written(w) ==
  /\ slots' \in Seq(Slots) /\ w \in 1..Len(slots')
  /\ Len(slots') = Len(slots) \/ (Len(slots') = Len(slots) + 1 /\ w = Len(slots'))
  /\ \A i \in 1..Len(slots) : i # w => slots'[i] = slots[i]

LEMMA AddWrites ==
  ASSUME FilesOK, KeyInv, NEW k \in Keys, NEW v \in Values, Add(k, v)
  PROVE  \E w \in Nat : /\ Written(w) /\ slots'[w] = Slot(Record(k, v))
                        /\ w \in 1..Len(slots) => slots[w].mDeleted
<1>1. Slot(Record(k, v)) \in Slots
  BY SlotType
<1>2. Reuse(Record(k, v)) \/ AppendSlot(Record(k, v))
  BY DEF Add, AppendBehindFragment, KeyInv
<1>3. CASE Reuse(Record(k, v))
  <2>1. /\ First(Deleted) \in 1..Len(slots) /\ slots[First(Deleted)].mDeleted
    BY <1>3, FirstDeleted DEF Reuse, FilesOK
  <2>2. slots' = [slots EXCEPT ![First(Deleted)] = Slot(Record(k, v))]
    BY <1>3 DEF Reuse
  <2> QED
    BY <1>1, <2>1, <2>2, OldSlotWritten DEF Written, FilesOK
<1>4. CASE AppendSlot(Record(k, v))
  <2>1. slots' = Append(slots, Slot(Record(k, v)))
    BY <1>4 DEF AppendSlot
  <2>2. Written(Len(slots) + 1) /\ slots'[Len(slots) + 1] = Slot(Record(k, v))
    BY <1>1, <2>1, NextSlotWritten DEF Written, FilesOK
  <2>3. Len(slots) + 1 \in Nat /\ Len(slots) + 1 \notin 1..Len(slots)
    BY DEF FilesOK
  <2> QED
    BY <2>2, <2>3
<1> QED
  BY <1>2, <1>3, <1>4

LEMMA UpdateWrites ==
  ASSUME FilesOK, NEW k \in Keys, NEW v \in Values, Update(k, v)
  PROVE  \E w \in 1..Len(slots) :
           /\ Written(w) /\ Len(slots') = Len(slots) /\ slots'[w] = Slot(Record(k, v))
           /\ ~slots[w].mDeleted /\ slots[w].data.key = k
<1> DEFINE w == First(Matching({k}))
           x == Slot(Record(k, v))
<1>0. Matching({k}) # {} /\ slots \in Seq(Slots)
  BY DEF Update, FilesOK
<1>1. w \in 1..Len(slots) /\ ~slots[w].mDeleted /\ slots[w].data.key \in {k}
  BY <1>0, FirstMatch
<1>a. x \in Slots
  BY SlotType
<1>2. slots' = [slots EXCEPT ![w] = x]
  BY DEF Update, Overwrite
<1> HIDE DEF w, x
<1>3. Written(w) /\ Len(slots') = Len(slots) /\ slots'[w] = x
  BY <1>1, <1>a, <1>2, OldSlotWritten DEF Written, FilesOK
<1> QED
  BY <1>1, <1>3 DEF x

LEMMA RemoveWrites ==
  ASSUME FilesOK, NEW op, NEW F, Remove(op, F)
  PROVE  \E w \in 1..Len(slots) :
           /\ Written(w) /\ Len(slots') = Len(slots) /\ slots'[w].mDeleted
           /\ ~slots[w].mDeleted
<1> DEFINE w == First(Matching(F))
<1>0. Matching(F) # {} /\ slots \in Seq(Slots)
  BY DEF Remove, FilesOK
<1>1. w \in 1..Len(slots) /\ ~slots[w].mDeleted
  BY <1>0, FirstMatch
<1>2. slots[w] \in Slots
  BY <1>1 DEF FilesOK
<1> HIDE DEF w
<1> DEFINE x == [slots[w] EXCEPT !.mDeleted = TRUE]
<1>3. x \in Slots /\ x.mDeleted
  BY <1>2 DEF Slots
<1>4. slots' = [slots EXCEPT ![w] = x]
  BY DEF Remove, Mark, w
<1> HIDE DEF x
<1> QED
  BY <1>1, <1>3, <1>4, OldSlotWritten DEF Written, FilesOK

(* Every step keeps the invariant.                                         *)
LEMMA KeyNext ==
  ASSUME ~WritesFail
  PROVE  TypeOK /\ KeyInv /\ [Next]_vars => KeyInv'
<1> SUFFICES ASSUME TypeOK, KeyInv, [Next]_vars PROVE KeyInv'
  OBVIOUS
<1>0. FilesOK
  BY TypeParts
<1>b. ASSUME UNCHANGED fileVars, call'.ret # "busy", Synced PROVE KeyInv'
  BY <1>b DEF fileVars, KeyInv, UniqueKeys, UniqueIn, Live, Synced, AgreeAt
<1>i. Idle => Synced
  BY DEF Idle, KeyInv
<1>1. ASSUME NEW k \in Keys, NEW v \in Values, AddExists(k, v) PROVE KeyInv'
  BY <1>1, <1>b, <1>i DEF AddExists, Calls
<1>2. ASSUME NEW k \in Keys, NEW v \in Values, Add(k, v) PROVE KeyInv'
  <2>1. PICK w \in Nat : /\ Written(w) /\ slots'[w] = Slot(Record(k, v))
                         /\ w \in 1..Len(slots) => slots[w].mDeleted
    BY <1>0, <1>2, AddWrites
  <2>2. slots'[w].data.key = k
    BY <2>1 DEF Slot, Record
  <2>3. \A i \in 1..Len(slots) : ~slots[i].mDeleted => slots[i].data.key # k
    BY <1>0, <1>2 DEF Add, Matching, Live, FilesOK
  <2>4. UNCHANGED <<fragment, disk, opened>> /\ opened /\ call'.ret = "busy"
    BY <1>2 DEF Add, Idle, Calls, Reuse, AppendSlot, AppendBehindFragment, KeyInv
  <2>5. UniqueKeys' /\ Apart(w)' /\ fragment' = << >>
    BY <1>0, <1>2, <1>i, <2>1, <2>2, <2>3, <2>4, OneSlot DEF Written, Add
  <2> QED
    BY <2>4, <2>5 DEF KeyInv
<1>4. ASSUME NEW k \in Keys, NEW v \in Values, Update(k, v) PROVE KeyInv'
  <2>1. PICK w \in 1..Len(slots) :
           /\ Written(w) /\ Len(slots') = Len(slots) /\ slots'[w] = Slot(Record(k, v))
           /\ ~slots[w].mDeleted /\ slots[w].data.key = k
    BY <1>0, <1>4, UpdateWrites
  <2>2. slots'[w].data.key = k /\ ~slots'[w].mDeleted
    BY <2>1 DEF Slot, Record
  <2>3. \A i \in 1..Len(slots) : i # w /\ ~slots[i].mDeleted => slots[i].data.key # k
    BY <1>0, <2>1 DEF KeyInv, UniqueKeys, UniqueIn, Live, FilesOK
  <2>4. UNCHANGED <<fragment, disk, opened>> /\ call'.ret # "busy"
    BY <1>4 DEF Update, Calls
  <2>5. Synced
    BY <1>4, <1>i DEF Update
  <2>6. UniqueKeys' /\ Apart(w)' /\ fragment' = << >>
    BY <1>0, <2>1, <2>2, <2>3, <2>4, <2>5, OneSlot DEF Written
  <2>7. AgreeAt(w)'
    BY <1>0, <2>1, <2>2, <2>4, <2>5 DEF Synced, AgreeAt, Written, FilesOK
  <2>8. Synced'
    BY <2>6, <2>7 DEF Synced, Apart
  <2> QED
    BY <2>4, <2>6, <2>8 DEF KeyInv
<1>6. ASSUME NEW k \in Keys, NEW v \in Values, UpdateNotFound(k, v) PROVE KeyInv'
  BY <1>0, <1>6 DEF UpdateNotFound, Calls, KeyInv, UniqueKeys, UniqueIn, Live, Synced, AgreeAt
<1>7. ASSUME NEW op \in RemoveOps, NEW F \in Filters, Remove(op, F) PROVE KeyInv'
  <2>1. PICK w \in 1..Len(slots) :
           /\ Written(w) /\ Len(slots') = Len(slots) /\ slots'[w].mDeleted
           /\ ~slots[w].mDeleted
    BY <1>0, <1>7, RemoveWrites
  <2>2. UNCHANGED <<fragment, disk, opened>> /\ opened /\ call'.ret = "busy"
    BY <1>7 DEF Remove, Idle, Calls
  <2>3. UniqueKeys' /\ Apart(w)' /\ fragment' = << >>
    BY <1>0, <1>7, <1>i, <2>1, <2>2, OneSlot DEF Written, Remove
  <2> QED
    BY <2>2, <2>3 DEF KeyInv
<1>9. ASSUME NEW op \in RemoveOps, NEW F \in Filters, RemoveNotFound(op, F) PROVE KeyInv'
  BY <1>9, <1>b, <1>i DEF RemoveNotFound, Calls
<1>10. ASSUME NEW op \in {"add", "update"} \union RemoveOps, NEW F \in Filters, NotOpened(op, F)
       PROVE  KeyInv'
  BY <1>10, <1>b DEF NotOpened, Calls, KeyInv
<1>11. CASE Sync
  <2>1. call \in CallSet
    BY TypeParts
  <2>2. call'.ret # "busy"
    BY <1>11, <2>1 DEF Sync, CallSet
  <2> QED
    BY <1>0, <1>11, <2>2 DEF Sync, KeyInv, UniqueKeys, UniqueIn, Live, Synced, AgreeAt
<1>12. CASE Restart
  <2>1. \E w \in Nat : Apart(w)
    BY DEF KeyInv, Synced, Apart
  <2>2. PICK w \in Nat : Apart(w)
    BY <2>1
  <2>3. slots' \in Seq(Slots)
        /\ \A i \in 1..Len(slots') : \/ i \in 1..Len(slots) /\ slots'[i] = slots[i]
                                     \/ i \in 1..Len(disk) /\ slots'[i] = disk[i]
    BY <1>0, <1>12, SlotsAfterRestart DEF FilesOK
  <2>4. UniqueIn(slots')
    BY <1>0, <2>2, <2>3, MixtureUnique DEF KeyInv
  <2>5. disk' = slots' /\ fragment' = << >> /\ call'.ret # "busy"
    BY <1>12 DEF Restart, Calls, KeyInv
  <2> QED
    BY <2>4, <2>5 DEF KeyInv, UniqueKeys, UniqueIn, Live, Synced, AgreeAt
<1>13. CASE UNCHANGED vars
  BY <1>13 DEF vars, fileVars, KeyInv, UniqueKeys, UniqueIn, Live, Synced, AgreeAt, Apart
<1> QED
  BY <1>1, <1>2, <1>4, <1>6, <1>7, <1>9, <1>10, <1>11, <1>12, <1>13
     DEF Next, AddFails, UpdateFails, RemoveFails

(* As long as writes do not fail, no two records of the file have one key, *)
(* and no two of what a power cut leaves, for any keys, filters and bound  *)
(* on the file.                                                            *)
THEOREM NoKeyTwice ==
  ASSUME ~WritesFail
  PROVE  Spec => []UniqueKeys
<1>1. TypeOK /\ KeyInv => UniqueKeys
  BY DEF KeyInv
<1> QED
  BY <1>1, TypeInit, TypeNext, KeyInit, KeyNext, PTL DEF Spec

-----------------------------------------------------------------------------
(* The file never has more slots than there are keys: a slot is appended   *)
(* only when all slots are live, and then their keys and the new one are   *)
(* all different.                                                          *)

(* A file that has no room for one more key has as many slots as keys.     *)
LEMMA RoomForKey ==
  ASSUME FilesOK, UniqueKeys, IsFiniteSet(Keys), NEW k \in Keys,
         \A i \in 1..Len(slots) : ~slots[i].mDeleted /\ slots[i].data.key \in Keys \ {k}
  PROVE  Len(slots) + 1 <= Cardinality(Keys)
<1> DEFINE n == Len(slots)
           f == [i \in 1..n |-> slots[i].data.key]
<1>1. n \in Nat
  BY DEF FilesOK
<1>2. f \in [1..n -> Keys \ {k}]
  OBVIOUS
<1>3. ASSUME NEW i \in 1..n, NEW j \in 1..n, f[i] = f[j] PROVE i = j
  BY <1>3 DEF UniqueKeys, UniqueIn, Live, FilesOK
<1>4. f \in Injection(1..n, Keys \ {k})
  BY <1>2, <1>3 DEF Injection, IsInjective
<1>5. IsFiniteSet(Keys \ {k}) /\ Cardinality(Keys \ {k}) = Cardinality(Keys) - 1
  BY FS_RemoveElement
<1>6. Cardinality(1..n) <= Cardinality(Keys \ {k})
  BY <1>4, <1>5, FS_Injection
<1>7. Cardinality(1..n) = n
  <2> HIDE DEF n
  <2>1. Cardinality(1..n) = IF 1 > n THEN 0 ELSE n - 1 + 1
    BY <1>1, FS_Interval
  <2> QED
    BY <1>1, <2>1
<1>8. Cardinality(Keys) \in Nat
  BY FS_CardinalityType
<1> QED
  BY <1>1, <1>5, <1>6, <1>7, <1>8

(* The invariant: every live slot holds the key of a record, and there are *)
(* no more slots than keys.                                                *)
KeysOK(s)  == \A i \in Live(s) : s[i].data.key \in Keys
BoundInv == KeysOK(slots) /\ KeysOK(disk) /\ FileIsBounded

LEMMA BoundInit ==
  ASSUME IsFiniteSet(Keys)
  PROVE  Init => BoundInv
<1> SUFFICES ASSUME Init PROVE BoundInv
  OBVIOUS
<1>1. Cardinality(Keys) \in Nat
  BY FS_CardinalityType
<1>2. slots = << >> /\ disk = << >>
  BY DEF Init
<1> QED
  BY <1>1, <1>2 DEF BoundInv, KeysOK, Live, FileIsBounded

LEMMA BoundNext ==
  ASSUME ~WritesFail, IsFiniteSet(Keys)
  PROVE  TypeOK /\ KeyInv /\ BoundInv /\ [Next]_vars => BoundInv'
<1> SUFFICES ASSUME TypeOK, KeyInv, BoundInv, [Next]_vars PROVE BoundInv'
  OBVIOUS
<1>0. FilesOK /\ Cardinality(Keys) \in Nat
  BY TypeParts, FS_CardinalityType
<1>a. ASSUME UNCHANGED <<slots, disk>> PROVE BoundInv'
  BY <1>a DEF BoundInv, KeysOK, Live, FileIsBounded
<1>b. ASSUME UNCHANGED disk, NEW w \in Nat, Written(w), Len(slots') <= Cardinality(Keys),
             slots'[w].mDeleted \/ slots'[w].data.key \in Keys
      PROVE  BoundInv'
  <2>1. \A i \in 1..Len(slots') : i # w => i \in 1..Len(slots) /\ slots'[i] = slots[i]
    BY <1>0, <1>b DEF Written, FilesOK
  <2>2. KeysOK(slots')
    BY <1>0, <1>b, <2>1 DEF BoundInv, KeysOK, Live, Written, FilesOK
  <2> QED
    BY <1>b, <2>2 DEF BoundInv, KeysOK, Live, FileIsBounded
<1>2. ASSUME NEW k \in Keys, NEW v \in Values, Add(k, v) PROVE BoundInv'
  <2>1. PICK w \in Nat : /\ Written(w) /\ slots'[w] = Slot(Record(k, v))
                         /\ w \in 1..Len(slots) => slots[w].mDeleted
    BY <1>0, <1>2, AddWrites
  <2>2. slots'[w].data.key \in Keys /\ UNCHANGED disk
    BY <1>2, <2>1 DEF Slot, Record, Add
  <2>3. Len(slots') <= Cardinality(Keys)
    <3>1. CASE Len(slots') = Len(slots)
      BY <3>1 DEF BoundInv, FileIsBounded
    <3>2. CASE AppendSlot(Record(k, v))
      <4>1. \A i \in 1..Len(slots) : ~slots[i].mDeleted
        BY <1>0, <3>2 DEF AppendSlot, Deleted, Live, FilesOK
      <4>2. \A i \in 1..Len(slots) : slots[i].data.key # k
        BY <1>0, <4>1, <1>2 DEF Add, Matching, Live, FilesOK
      <4>3. \A i \in 1..Len(slots) : slots[i].data.key \in Keys
        BY <1>0, <4>1 DEF BoundInv, KeysOK, Live, FilesOK
      <4>4. Len(slots) + 1 <= Cardinality(Keys)
        BY <1>0, <4>1, <4>2, <4>3, RoomForKey DEF KeyInv
      <4>5. slots' = Append(slots, Slot(Record(k, v)))
        BY <3>2 DEF AppendSlot
      <4>6. Len(slots') = Len(slots) + 1
        BY <1>0, <4>5, SlotType, NextSlotWritten DEF FilesOK
      <4> QED
        BY <4>4, <4>6
    <3>3. CASE Reuse(Record(k, v))
      <4>1. /\ First(Deleted) \in 1..Len(slots)
            /\ slots' = [slots EXCEPT ![First(Deleted)] = Slot(Record(k, v))]
        BY <1>0, <3>3, FirstDeleted DEF Reuse, FilesOK
      <4>2. Len(slots') = Len(slots)
        BY <1>0, <4>1, SlotType, OldSlotWritten DEF FilesOK
      <4> QED
        BY <3>1, <4>2
    <3> QED
      BY <1>2, <3>2, <3>3 DEF Add, AppendBehindFragment, KeyInv
  <2> QED
    BY <1>b, <2>1, <2>2, <2>3
<1>4. ASSUME NEW k \in Keys, NEW v \in Values, Update(k, v) PROVE BoundInv'
  <2>1. PICK w \in 1..Len(slots) :
           /\ Written(w) /\ Len(slots') = Len(slots) /\ slots'[w] = Slot(Record(k, v))
           /\ ~slots[w].mDeleted /\ slots[w].data.key = k
    BY <1>0, <1>4, UpdateWrites
  <2>2. slots'[w].data.key \in Keys /\ UNCHANGED disk /\ w \in Nat
    BY <1>4, <2>1 DEF Slot, Record, Update
  <2>3. Len(slots') <= Cardinality(Keys)
    BY <2>1 DEF BoundInv, FileIsBounded
  <2> QED
    BY <1>b, <2>1, <2>2, <2>3
<1>7. ASSUME NEW op \in RemoveOps, NEW F \in Filters, Remove(op, F) PROVE BoundInv'
  <2>1. PICK w \in 1..Len(slots) :
           /\ Written(w) /\ Len(slots') = Len(slots) /\ slots'[w].mDeleted
           /\ ~slots[w].mDeleted
    BY <1>0, <1>7, RemoveWrites
  <2>2. UNCHANGED disk /\ w \in Nat
    BY <1>7, <2>1 DEF Remove
  <2>3. Len(slots') <= Cardinality(Keys)
    BY <2>1 DEF BoundInv, FileIsBounded
  <2> QED
    BY <1>b, <2>1, <2>2, <2>3
<1>11. CASE UNCHANGED slots /\ disk' = slots
  BY <1>11 DEF BoundInv, KeysOK, Live, FileIsBounded
<1>12. CASE Restart
  <2>1. /\ slots' \in Seq(Slots) /\ Len(slots') <= Len(slots)
        /\ \A i \in 1..Len(slots') : \/ i \in 1..Len(slots) /\ slots'[i] = slots[i]
                                     \/ i \in 1..Len(disk) /\ slots'[i] = disk[i]
    BY <1>0, <1>12, SlotsAfterRestart DEF FilesOK
  <2>2. KeysOK(slots')
    BY <1>0, <2>1 DEF BoundInv, KeysOK, Live, FilesOK
  <2>3. disk' = slots'
    BY <1>12 DEF Restart
  <2>4. Len(slots') <= Cardinality(Keys)
    BY <1>0, <2>1 DEF BoundInv, FileIsBounded, FilesOK
  <2> QED
    BY <2>2, <2>3, <2>4 DEF BoundInv, KeysOK, Live, FileIsBounded
<1> QED
  BY <1>a, <1>2, <1>4, <1>7, <1>11, <1>12
     DEF Next, vars, fileVars, AddExists, AddFails, UpdateFails, RemoveFails, UpdateNotFound,
         RemoveNotFound, NotOpened, Sync

(* As long as writes do not fail, the file never has more slots than there *)
(* can be records: a deleted slot is used again before the file grows.     *)
THEOREM FileStaysBounded ==
  ASSUME ~WritesFail, IsFiniteSet(Keys)
  PROVE  Spec => []FileIsBounded
<1>1. BoundInv => FileIsBounded
  BY DEF BoundInv
<1> QED
  BY <1>1, TypeInit, TypeNext, KeyInit, KeyNext, BoundInit, BoundNext, PTL DEF Spec

-----------------------------------------------------------------------------
(* The file implements the record store.                                   *)

(* The records in the slots other than w.                                  *)
Others(w) == {slots[i].data : i \in Live(slots) \ {w}}

LEMMA RecordsWritten ==
  ASSUME FilesOK, NEW w \in Nat, Written(w)
  PROVE  /\ slots'[w].mDeleted => Records(slots') = Others(w)
         /\ ~slots'[w].mDeleted => Records(slots') = Others(w) \union {slots'[w].data}
<1>1. \A i \in 1..Len(slots') : i # w => i \in 1..Len(slots) /\ slots'[i] = slots[i]
  BY DEF Written, FilesOK
<1>2. \A i \in 1..Len(slots) : i \in 1..Len(slots') /\ (i # w => slots'[i] = slots[i])
  BY DEF Written, FilesOK
<1>3. DOMAIN slots' = 1..Len(slots') /\ DOMAIN slots = 1..Len(slots) /\ w \in 1..Len(slots')
  BY DEF Written, FilesOK
<1>4. Live(slots') \ {w} = Live(slots) \ {w}
  BY <1>1, <1>2, <1>3 DEF Live
<1>5. \A i \in Live(slots) \ {w} : slots'[i].data = slots[i].data
  BY <1>2, <1>3 DEF Live
<1>6. {slots'[i].data : i \in Live(slots') \ {w}} = Others(w)
  BY <1>4, <1>5 DEF Others
<1>7. CASE slots'[w].mDeleted
  <2>1. Live(slots') = Live(slots') \ {w}
    BY <1>7 DEF Live
  <2> QED
    BY <1>6, <1>7, <2>1 DEF Records
<1>8. CASE ~slots'[w].mDeleted
  <2>1. Live(slots') = (Live(slots') \ {w}) \union {w}
    BY <1>3, <1>8 DEF Live
  <2> QED
    BY <1>6, <1>8, <2>1 DEF Records
<1> QED
  BY <1>7, <1>8

LEMMA RecordsBefore ==
  ASSUME FilesOK, UniqueKeys, NEW w \in Nat
  PROVE  /\ w \notin Live(slots) => Others(w) = Records(slots)
         /\ w \in Live(slots) =>
              /\ Others(w) = {r \in Records(slots) : r.key # slots[w].data.key}
              /\ Others(w) = Records(slots) \ {slots[w].data}
<1>1. w \notin Live(slots) => Others(w) = Records(slots)
  BY DEF Others, Records
<1>2. ASSUME w \in Live(slots)
      PROVE  /\ Others(w) = {r \in Records(slots) : r.key # slots[w].data.key}
             /\ Others(w) = Records(slots) \ {slots[w].data}
  <2>1. \A i \in Live(slots) : i # w => slots[i].data.key # slots[w].data.key
    BY <1>2 DEF UniqueKeys, UniqueIn
  <2> QED
    BY <1>2, <2>1 DEF Others, Records
<1> QED
  BY <1>1, <1>2

(* What a restart finds: the new and the old file may differ in one slot,  *)
(* so a record that both have is in the same slot of both.                 *)
LEMMA SameSlot ==
  ASSUME FilesOK, UniqueKeys, NEW w \in Nat, Apart(w),
         NEW i \in Live(slots), NEW j \in Live(disk), slots[i].data.key = disk[j].data.key
  PROVE  i = j
<1>1. CASE i # w
  <2>1. AgreeAt(i)
    BY <1>1 DEF Apart, Live, FilesOK
  <2>2. i \in Live(disk) /\ disk[i].data.key = disk[j].data.key
    BY <2>1 DEF AgreeAt, Live
  <2> QED
    BY <2>2 DEF UniqueKeys, UniqueIn
<1>2. CASE j # w
  <2>1. AgreeAt(j)
    BY <1>2 DEF Apart, Live, FilesOK
  <2>2. j \in Live(slots) /\ slots[j].data.key = slots[i].data.key
    BY <2>1 DEF AgreeAt, Live
  <2> QED
    BY <2>2 DEF UniqueKeys, UniqueIn
<1> QED
  BY <1>1, <1>2

(* A restart of the file is one of the record store.                       *)
LEMMA RestartRefines ==
  ASSUME FilesOK, KeyInv, UniqueKeys', Restart
  PROVE  Store!Restart
<1>1. PICK w \in Nat : Apart(w)
  BY DEF KeyInv, Synced, Apart
<1>2. /\ slots' \in Seq(Slots) /\ Len(disk) <= Len(slots')
      /\ \A i \in 1..Len(slots') : \/ i \in 1..Len(slots) /\ slots'[i] = slots[i]
                                   \/ i \in 1..Len(disk) /\ slots'[i] = disk[i]
  BY SlotsAfterRestart DEF FilesOK
<1>3. Records(slots') \in SUBSET (Records(slots) \union Records(disk))
  <2> SUFFICES ASSUME NEW i \in Live(slots')
               PROVE  slots'[i].data \in Records(slots) \union Records(disk)
    BY DEF Records
  <2>1. i \in 1..Len(slots') /\ ~slots'[i].mDeleted
    BY <1>2 DEF Live
  <2> QED
    BY <1>2, <2>1 DEF Records, Live, FilesOK
<1>4. ASSUME NEW i \in Live(slots), NEW j \in Live(disk), slots[i].data.key = disk[j].data.key
      PROVE  /\ i = j /\ i \in Live(slots')
             /\ slots'[i].data \in {slots[i].data, disk[i].data}
  <2>1. i = j
    BY <1>1, <1>4, SameSlot DEF KeyInv
  <2>2. i \in 1..Len(disk) /\ i \in 1..Len(slots') /\ ~slots[i].mDeleted /\ ~disk[i].mDeleted
    BY <1>2, <2>1 DEF Live, FilesOK
  <2> QED
    BY <1>2, <2>1, <2>2 DEF Live
<1>5. Records(slots) \intersect Records(disk) \subseteq Records(slots')
  <2> SUFFICES ASSUME NEW i \in Live(slots), NEW j \in Live(disk), slots[i].data = disk[j].data
               PROVE  slots[i].data \in Records(slots')
    BY DEF Records
  <2> QED
    BY <1>4 DEF Records
<1>6. Store!KeysOf(Records(slots)) \intersect Store!KeysOf(Records(disk))
        \subseteq Store!KeysOf(Records(slots'))
  <2> SUFFICES ASSUME NEW i \in Live(slots), NEW j \in Live(disk),
                      slots[i].data.key = disk[j].data.key
               PROVE  slots[i].data.key \in Store!KeysOf(Records(slots'))
    BY DEF Records, Store!KeysOf
  <2>1. i \in Live(slots') /\ slots'[i].data.key = slots[i].data.key
    BY <1>4
  <2> QED
    BY <2>1 DEF Records, Store!KeysOf
<1>7. Store!Unique(Records(slots'))
  BY DEF UniqueKeys, UniqueIn, Records, Store!Unique
<1>8. Records(disk') = Records(slots') /\ call'.ret # "busy"
  BY DEF Restart, Calls
<1> QED
  BY <1>3, <1>5, <1>6, <1>7, <1>8 DEF Store!Restart, Records

(* Every step of the file is one of the record store, or changes none of   *)
(* its variables.                                                          *)
LEMMA StepRefines ==
  ASSUME ~WritesFail
  PROVE  TypeOK /\ KeyInv /\ UniqueKeys' /\ [Next]_vars => [Store!Next]_(Store!vars)
<1> SUFFICES ASSUME TypeOK, KeyInv, UniqueKeys', [Next]_vars PROVE [Store!Next]_(Store!vars)
  OBVIOUS
<1>0. FilesOK /\ call \in CallSet
  BY TypeParts
<1>a. ASSUME UNCHANGED <<slots, disk>>, call.ret # "busy", call'.ret # "busy"
      PROVE  UNCHANGED Store!vars
  BY <1>a DEF Store!vars, Records, Live
<1>2. ASSUME NEW k \in Keys, NEW v \in Values, Add(k, v) PROVE Store!Add(k, v)
  <2>1. PICK w \in Nat : /\ Written(w) /\ slots'[w] = Slot(Record(k, v))
                         /\ w \in 1..Len(slots) => slots[w].mDeleted
    BY <1>0, <1>2, AddWrites
  <2>2. ~slots'[w].mDeleted /\ slots'[w].data = Record(k, v)
    BY <2>1 DEF Slot
  <2>3. Others(w) = Records(slots)
    BY <1>0, <2>1, RecordsBefore DEF KeyInv, Live, FilesOK
  <2>4. Records(slots') = Records(slots) \union {Record(k, v)}
    BY <1>0, <2>1, <2>2, <2>3, RecordsWritten
  <2>5. k \notin Store!KeysOf(Records(slots))
    BY <1>2 DEF Add, Matching, Records, Store!KeysOf
  <2>6. call.ret # "busy" /\ call'.ret = "busy" /\ Records(disk') = Records(disk)
    BY <1>2 DEF Add, Idle, Calls, Records, Live
  <2> QED
    BY <2>4, <2>5, <2>6 DEF Store!Add, Record, Records, Live
<1>4. ASSUME NEW k \in Keys, NEW v \in Values, Update(k, v) PROVE Store!Update(k, v)
  <2>1. PICK w \in 1..Len(slots) :
           /\ Written(w) /\ Len(slots') = Len(slots) /\ slots'[w] = Slot(Record(k, v))
           /\ ~slots[w].mDeleted /\ slots[w].data.key = k
    BY <1>0, <1>4, UpdateWrites
  <2>2. ~slots'[w].mDeleted /\ slots'[w].data = Record(k, v)
    BY <2>1 DEF Slot
  <2>3. w \in Live(slots) /\ w \in Nat
    BY <1>0, <2>1 DEF Live, FilesOK
  <2>4. Others(w) = {r \in Records(slots) : r.key # k}
    BY <1>0, <2>1, <2>3, RecordsBefore DEF KeyInv
  <2>5. Records(slots') = {r \in Records(slots) : r.key # k} \union {Record(k, v)}
    BY <1>0, <2>1, <2>2, <2>3, <2>4, RecordsWritten
  <2>6. k \in Store!KeysOf(Records(slots))
    BY <2>1, <2>3 DEF Records, Store!KeysOf
  <2>7. call.ret # "busy" /\ call'.ret # "busy" /\ Records(disk') = Records(disk)
    BY <1>4 DEF Update, Idle, Calls, Records, Live
  <2> QED
    BY <2>5, <2>6, <2>7 DEF Store!Update, Record, Records, Live
<1>6. ASSUME NEW k \in Keys, NEW v \in Values, UpdateNotFound(k, v) PROVE Store!Save
  <2>1. call'.ret # "busy" /\ UNCHANGED slots /\ disk' = slots
    BY <1>6 DEF UpdateNotFound, Calls
  <2> QED
    BY <2>1 DEF Store!Save, Records, Live
<1>7. ASSUME NEW op \in RemoveOps, NEW F \in Filters, Remove(op, F)
      PROVE  \E r \in Records(slots) : Store!Remove(r)
  <2>1. PICK w \in 1..Len(slots) :
           /\ Written(w) /\ Len(slots') = Len(slots) /\ slots'[w].mDeleted
           /\ ~slots[w].mDeleted
    BY <1>0, <1>7, RemoveWrites
  <2>2. w \in Live(slots) /\ w \in Nat
    BY <1>0, <2>1 DEF Live, FilesOK
  <2>3. Records(slots') = Records(slots) \ {slots[w].data}
    BY <1>0, <2>1, <2>2, RecordsBefore, RecordsWritten DEF KeyInv
  <2>4. call.ret # "busy" /\ call'.ret = "busy" /\ Records(disk') = Records(disk)
    BY <1>7 DEF Remove, Idle, Calls, Records, Live
  <2>5. slots[w].data \in Records(slots)
    BY <2>2 DEF Records
  <2> QED
    BY <2>3, <2>4, <2>5 DEF Store!Remove, Records, Live
<1>11. CASE Sync
  <2>1. call'.ret # "busy"
    BY <1>0, <1>11 DEF Sync, CallSet
  <2>2. UNCHANGED slots /\ disk' = slots
    BY <1>11 DEF Sync
  <2> QED
    BY <2>1, <2>2 DEF Store!Save, Store!Next, Records, Live
<1>12. CASE Restart
  BY <1>0, <1>12, RestartRefines DEF Store!Next
<1>13. ASSUME NEW k \in Keys, NEW v \in Values, AddExists(k, v) PROVE UNCHANGED Store!vars
  BY <1>13, <1>a DEF AddExists, Idle, Calls, fileVars
<1>14. ASSUME NEW op \in RemoveOps, NEW F, RemoveNotFound(op, F) PROVE UNCHANGED Store!vars
  BY <1>14, <1>a DEF RemoveNotFound, Idle, Calls, fileVars
<1>15. ASSUME NEW op, NEW F, NotOpened(op, F) PROVE UNCHANGED Store!vars
  <2>1. call.ret # "busy"
    BY <1>15 DEF NotOpened, KeyInv
  <2> QED
    BY <1>15, <2>1, <1>a DEF NotOpened, Calls, fileVars
<1>16. CASE UNCHANGED vars
  BY <1>16 DEF vars, fileVars, Store!vars, Records, Live
<1> QED
  BY <1>2, <1>4, <1>6, <1>7, <1>11, <1>12, <1>13, <1>14, <1>15, <1>16
     DEF Next, AddFails, UpdateFails, RemoveFails, Store!Next

(* As long as writes do not fail, a database file is a record store: at    *)
(* most one record per key, added and removed ones saved when the call     *)
(* returns, and after a power cut nothing but what was saved and parts of  *)
(* what was not, for any keys, values and filters.                         *)
THEOREM ImplementsRecordStore ==
  ASSUME ~WritesFail
  PROVE  Spec => StoreSpec
<1>1. Init => Store!Init
  BY DEF Init, Store!Init, Records, Live
<1>2. KeyInv => UniqueKeys
  BY DEF KeyInv
<1> QED
  BY <1>1, <1>2, TypeInit, TypeNext, KeyInit, KeyNext, StepRefines, PTL
     DEF Spec, StoreSpec, Store!Spec

-----------------------------------------------------------------------------
(* Saved records are kept, with writes that fail, too.                     *)

SavedSlot(i) ==
  /\ i \in DOMAIN slots \intersect DOMAIN disk /\ slots[i] = disk[i]
  /\ i \in Live(slots) /\ slots[i].data.key \notin call'.filter

KeptSlot(i) ==
  /\ i \in DOMAIN slots' /\ slots'[i] = slots[i]
  /\ i \in DOMAIN disk' /\ disk'[i] = slots[i]

(* A write to another slot keeps it.                                       *)
LEMMA OtherSlotKept ==
  ASSUME FilesOK, UNCHANGED disk, NEW i, SavedSlot(i), NEW w \in 1..Len(slots), i # w,
         NEW x, slots' = [slots EXCEPT ![w] = x]
  PROVE  KeptSlot(i)
BY DEF SavedSlot, KeptSlot, FilesOK

LEMMA AppendKeeps ==
  ASSUME FilesOK, UNCHANGED disk, NEW i, SavedSlot(i),
         NEW x, slots' = Append(slots, x)
  PROVE  KeptSlot(i)
<1>1. i \in 1..Len(slots) /\ i \in DOMAIN disk /\ slots[i] = disk[i]
  BY DEF SavedSlot, FilesOK
<1>2. i \in DOMAIN slots' /\ slots'[i] = slots[i]
  BY <1>1 DEF FilesOK
<1> QED
  BY <1>1, <1>2 DEF KeptSlot

LEMMA MatchedSlotKept ==
  ASSUME FilesOK, UNCHANGED disk, NEW i, SavedSlot(i), NEW F, Matching(F) # {},
         call'.filter = F, NEW x, slots' = [slots EXCEPT ![First(Matching(F))] = x]
  PROVE  KeptSlot(i)
<1> DEFINE w == First(Matching(F))
<1>0. slots \in Seq(Slots)
  BY DEF FilesOK
<1>1. w \in 1..Len(slots) /\ slots[w].data.key \in F
  BY <1>0, FirstMatch
<1>2. i # w
  BY <1>1 DEF SavedSlot
<1>3. slots' = [slots EXCEPT ![w] = x]
  OBVIOUS
<1> HIDE DEF w
<1> QED
  BY <1>1, <1>2, <1>3, OtherSlotKept

LEMMA SavedStep == TypeOK /\ [Next]_vars => \A i : SavedSlot(i) => KeptSlot(i) \/ UNCHANGED vars
<1> SUFFICES ASSUME TypeOK, [Next]_vars, NEW i, SavedSlot(i) PROVE KeptSlot(i) \/ UNCHANGED vars
  OBVIOUS
<1>0. FilesOK
  BY TypeParts
<1>a. ASSUME UNCHANGED slots, disk' \in {slots, disk} PROVE KeptSlot(i)
  BY <1>a DEF SavedSlot, KeptSlot
<1>b. ASSUME NEW k, NEW v, UNCHANGED disk,
             Reuse(Record(k, v)) \/ AppendSlot(Record(k, v)) \/ AppendBehindFragment
      PROVE  KeptSlot(i)
  <2>1. CASE Reuse(Record(k, v))
    <3>0. slots \in Seq(Slots) /\ Deleted # {}
      BY <1>0, <2>1 DEF Reuse, FilesOK
    <3>1. First(Deleted) \in 1..Len(slots) /\ slots[First(Deleted)].mDeleted
      BY <3>0, FirstDeleted
    <3>2. i # First(Deleted)
      BY <3>1 DEF SavedSlot, Live
    <3> QED
      BY <1>0, <1>b, <2>1, <3>1, <3>2, OtherSlotKept DEF Reuse
  <2>2. CASE AppendSlot(Record(k, v)) \/ AppendBehindFragment
    BY <1>0, <1>b, <2>2, AppendKeeps DEF AppendSlot, AppendBehindFragment
  <2> QED
    BY <1>b, <2>1, <2>2
<1>c. ASSUME NEW k, NEW v, UNCHANGED disk, Matching({k}) # {}, call'.filter = {k}, Overwrite(k, v)
      PROVE  KeptSlot(i)
  BY <1>0, <1>c, MatchedSlotKept DEF Overwrite
<1>d. ASSUME NEW F, UNCHANGED disk, Matching(F) # {}, call'.filter = F, Mark(F)
      PROVE  KeptSlot(i)
  <2> DEFINE w == First(Matching(F))
             x == [slots[w] EXCEPT !.mDeleted = TRUE]
  <2>1. slots' = [slots EXCEPT ![w] = x]
    BY <1>d DEF Mark
  <2> HIDE DEF x
  <2> QED
    BY <1>0, <1>d, <2>1, MatchedSlotKept
<1>1. ASSUME NEW k \in Keys, NEW v \in Values, Add(k, v) \/ AddFails(k, v) PROVE KeptSlot(i)
  BY <1>1, <1>a, <1>b DEF Add, AddFails
<1>2. ASSUME NEW k \in Keys, NEW v \in Values, Update(k, v) \/ UpdateFails(k, v) PROVE KeptSlot(i)
  BY <1>2, <1>a, <1>c DEF Update, UpdateFails, Calls
<1>3. ASSUME NEW op, NEW F, Remove(op, F) \/ RemoveFails(op, F) PROVE KeptSlot(i)
  BY <1>3, <1>a, <1>d DEF Remove, RemoveFails, Calls
<1>4. ASSUME NEW k, NEW v, AddExists(k, v) \/ UpdateNotFound(k, v) PROVE KeptSlot(i)
  BY <1>4, <1>a DEF AddExists, UpdateNotFound, fileVars
<1>5. ASSUME NEW op, NEW F, RemoveNotFound(op, F) \/ NotOpened(op, F) PROVE KeptSlot(i)
  BY <1>5, <1>a DEF RemoveNotFound, NotOpened, fileVars
<1>6. CASE Sync
  BY <1>6, <1>a DEF Sync
<1>7. CASE Restart
  <2>1. /\ slots' \in Seq(Slots) /\ Len(disk) <= Len(slots')
        /\ \A j \in 1..Len(slots') : \/ j \in 1..Len(slots) /\ slots'[j] = slots[j]
                                     \/ j \in 1..Len(disk) /\ slots'[j] = disk[j]
    BY <1>0, <1>7, SlotsAfterRestart DEF FilesOK
  <2>2. i \in 1..Len(disk) /\ slots[i] = disk[i] /\ i \in 1..Len(slots')
    BY <1>0, <2>1 DEF SavedSlot, FilesOK
  <2>3. disk' = slots'
    BY <1>7 DEF Restart
  <2> QED
    BY <2>1, <2>2, <2>3 DEF KeptSlot
<1> QED
  BY <1>1, <1>2, <1>3, <1>4, <1>5, <1>6, <1>7 DEF Next

(* A saved record outlives every call about other keys and every power     *)
(* cut, whatever writes fail or stop half-way, for any keys and filters.   *)
THEOREM SavedRecordsAreKept == Spec => SavedIsKept
<1> DEFINE Kept == [\A i : SavedSlot(i) => KeptSlot(i)]_vars
<1>1. TypeOK /\ [Next]_vars => Kept
  BY SavedStep
<1>2. Kept => [\A i \in DOMAIN slots \intersect DOMAIN disk :
                 slots[i] = disk[i] /\ i \in Live(slots) /\ slots[i].data.key \notin call'.filter
                   => /\ i \in DOMAIN slots' /\ slots'[i] = slots[i]
                      /\ i \in DOMAIN disk' /\ disk'[i] = slots[i]]_vars
  BY DEF SavedSlot, KeptSlot
<1> QED
  BY <1>1, <1>2, TypeInit, TypeNext, PTL DEF Spec, SavedIsKept
=============================================================================
