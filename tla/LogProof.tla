----------------------------- MODULE LogProof -----------------------------
(***************************************************************************)
(* Proofs about FSBackend, FSLogReader and LogProvider, for every number   *)
(* and size of files, every base of the numerals, every number of writes   *)
(* and of power cuts, in every step of a rotation, of Init and of a reader *)
(* that goes through the files meanwhile.  The log stays within its limits *)
(* and an answer to a request has every entry of its time and of its       *)
(* filter that the files had when it was begun and still have when it      *)
(* ends, in whatever order the names sort.  The files are the end of what  *)
(* was logged, and are read in that order, until names are listed that do  *)
(* not sort as their numerals.                                             *)
(***************************************************************************)
EXTENDS LogProvider, FiniteSetTheorems, SequenceTheorems, TLAPS

(* On the disk: the files hold consecutive writes in the order of their    *)
(* numerals, only the newest one may be empty, and it ends with the last   *)
(* write.                                                                  *)
NonEmpty(n) == dir[n] <= last[dir[n]]

FilesInv ==
  /\ \A n \in Names : /\ n < cMaxLogFileNumeral
                      /\ dir[n] <= last[dir[n]] + 1 /\ last[dir[n]] <= count
                      /\ last[dir[n]] - dir[n] + 1 <= cFileSizeLimit
  /\ \A a, b \in Names : a < b => NonEmpty(a) /\ last[dir[a]] < dir[b]
  /\ \A a \in Names : last[dir[a]] = count
                      \/ \E b \in Names : a < b /\ dir[b] = last[dir[a]] + 1
  /\ count > 0 => Names # {}

(* In memory: mLogFiles lists the files on the disk, in that order.        *)
TableInv ==
  backend # "off" =>
    /\ Len(mLogFiles) <= cMaxLogFiles
    /\ \A n \in Numerals : n \in Names <=> \E i \in 1..Len(mLogFiles) : mLogFiles[i] = n
    /\ \A i, j \in 1..Len(mLogFiles) : i < j => mLogFiles[i] < mLogFiles[j]

(* The next numeral is behind those in use, but while the files are        *)
(* renumbered: then it counts how many are.                                *)
NumeralInv ==
  /\ backend \in {"write", "ready", "create"} \/ (backend = "shrink" /\ ~restoring) =>
       \A i \in 1..Len(mLogFiles) : mLogFiles[i] < mCurrentLogFileNumeral
  /\ backend = "renumber" =>
       /\ mCurrentLogFileNumeral <= Len(mLogFiles)
       /\ \A i \in 1..mCurrentLogFileNumeral : mLogFiles[i] = i - 1
  /\ backend = "create" => mCurrentLogFileNumeral < cMaxLogFileNumeral

(* What each step relies on.                                               *)
StepInv ==
  /\ backend \in {"renumber", "create"} => Len(mLogFiles) < cMaxLogFiles
  /\ backend \in {"renumber", "write", "ready"} => mLogFiles # << >>
  /\ backend = "shrink" /\ restoring /\ mLogFiles = << >> => mCurrentLogFileNumeral = 0
  /\ backend = "create" /\ restoring => mLogFiles = << >>
  /\ backend \in {"shrink", "renumber", "create"} /\ ~restoring =>
       mLogFiles # << >> /\ \A n \in Names : NonEmpty(n)
  /\ backend = "write" => last[Current] < Current
  /\ backend = "write" \/ (backend \in {"shrink", "renumber", "create"} /\ ~restoring)
       => count < MaxWrites

IInv == BackendTypeOK /\ FilesInv /\ Cardinality(Names) <= cMaxLogFiles
        /\ TableInv /\ NumeralInv /\ StepInv

(* So it is while the names that were listed have sorted as their          *)
(* numerals.  Whatever their order, this much holds: there are no more     *)
(* files than the table has entries, and what is done with them is an      *)
(* Init that ends.                                                         *)
UnsortedInv ==
  /\ restoring /\ backend \in {"off", "shrink", "renumber", "create", "ready"}
  /\ backend # "off" => /\ Len(mLogFiles) <= cMaxLogFiles
                        /\ \A n \in Names : \E i \in 1..Len(mLogFiles) : mLogFiles[i] = n
  /\ backend = "create" => mLogFiles = << >>
  /\ backend \in {"shrink", "create"} /\ mLogFiles = << >> => mCurrentLogFileNumeral = 0

WeakInv ==
  /\ BackendTypeOK /\ LogIsBounded
  /\ \A id \in Ids : last[id] <= count
  /\ ~sorted => UnsortedInv

BackendInv == WeakInv /\ (sorted => IInv)

-----------------------------------------------------------------------------
(* The constants.                                                          *)
LEMMA Limits ==
  /\ cMaxLogFiles \in Nat /\ cMaxLogFiles >= 2 /\ cFileSizeLimit \in Nat /\ cFileSizeLimit >= 1
  /\ cMaxLogFileNumeral \in Nat /\ cMaxLogFileNumeral = 2 * cMaxLogFiles
  /\ Base \in Nat /\ Base > 0 /\ MaxWrites \in Nat /\ MaxCrashes \in Nat
  /\ 0 \in Numerals /\ Numerals \subseteq Nat
  BY FSBackendAssumption DEF cMaxLogFileNumeral, Numerals

(* Sort puts no name before itself.                                        *)
LEMMA NotBeforeItself ==
  ASSUME NEW a \in Nat
  PROVE  ~Before(a, a)
<1>1. Digit(a) \in Int
  BY Limits DEF Digit
<1> QED
  BY <1>1 DEF Before

(* A sequence over a set is one over a larger set.                         *)
LEMMA SeqOfSubset ==
  ASSUME NEW A, NEW B, A \subseteq B, NEW s \in Seq(A)
  PROVE  s \in Seq(B)
<1>1. Len(s) \in Nat /\ s \in [1..Len(s) -> A]
  BY LenProperties
<1>2. s \in [1..Len(s) -> B]
  BY <1>1
<1> QED
  BY <1>1, <1>2, IsASeq

(* The interval 1..n has n elements.                                       *)
LEMMA SizeOfInterval ==
  ASSUME NEW n \in Nat
  PROVE  IsFiniteSet(1..n) /\ Cardinality(1..n) = n
<1>1. Cardinality(1..n) = IF 1 > n THEN 0 ELSE n - 1 + 1
  BY FS_Interval
<1>2. (IF 1 > n THEN 0 ELSE n - 1 + 1) = n
  OBVIOUS
<1> QED
  BY <1>1, <1>2, FS_Interval

(* A table that has every element of a set is as long as the set or longer.*)
LEMMA ListedAtLeastOnce ==
  ASSUME NEW S, NEW s, Len(s) \in Nat, \A n \in S : \E i \in 1..Len(s) : s[i] = n
  PROVE  IsFiniteSet(S) /\ Cardinality(S) <= Len(s)
<1> DEFINE f == [n \in S |-> CHOOSE i \in 1..Len(s) : s[i] = n]
<1>1. \A n \in S : f[n] \in 1..Len(s) /\ s[f[n]] = n
  OBVIOUS
<1>2. f \in [S -> 1..Len(s)]
  BY <1>1
<1>3. f \in Injection(S, 1..Len(s))
  BY <1>1, <1>2 DEF Injection, IsInjective
<1>4. IsFiniteSet(1..Len(s)) /\ Cardinality(1..Len(s)) = Len(s)
  BY SizeOfInterval
<1> HIDE DEF f
<1> QED
  BY <1>3, <1>4, FS_Injection

(* A table that lists a set in ascending order is as long as the set.      *)
LEMMA ListedOnce ==
  ASSUME NEW S \in SUBSET Nat, NEW s \in Seq(Nat),
         \A n \in Nat : n \in S <=> \E i \in 1..Len(s) : s[i] = n,
         \A i, j \in 1..Len(s) : i < j => s[i] < s[j]
  PROVE  IsFiniteSet(S) /\ Cardinality(S) = Len(s)
<1>1. Len(s) \in Nat /\ DOMAIN s = 1..Len(s) /\ \A i \in 1..Len(s) : s[i] \in Nat
  OBVIOUS
<1>2. s \in [1..Len(s) -> S]
  <2>1. \A i \in 1..Len(s) : s[i] \in S
    BY <1>1
  <2>2. s = [i \in 1..Len(s) |-> s[i]]
    OBVIOUS
  <2> QED
    BY <2>1, <2>2
<1>3. s \in Surjection(1..Len(s), S)
  BY <1>2 DEF Surjection
<1>4. s \in Injection(1..Len(s), S)
  <2>1. ASSUME NEW i \in 1..Len(s), NEW j \in 1..Len(s), s[i] = s[j] PROVE i = j
    BY <1>1, <2>1
  <2> QED
    BY <1>2, <2>1 DEF Injection, IsInjective
<1>5. IsFiniteSet(1..Len(s)) /\ Cardinality(1..Len(s)) = Len(s)
  BY <1>1, SizeOfInterval
<1> QED
  BY <1>3, <1>4, <1>5, FS_Surjection

(* A list without repetitions as long as the set it is from lists all of   *)
(* it.                                                                     *)
LEMMA FullListing ==
  ASSUME NEW S, IsFiniteSet(S), NEW s \in [1..Cardinality(S) -> S],
         \A i, j \in 1..Cardinality(S) : i < j => s[i] # s[j]
  PROVE  /\ s \in Seq(S) /\ Len(s) = Cardinality(S)
         /\ \A n \in S : \E i \in 1..Len(s) : s[i] = n
<1>1. Cardinality(S) \in Nat
  BY FS_CardinalityType
<1>2. s \in Injection(1..Cardinality(S), S)
  <2>1. ASSUME NEW i \in 1..Cardinality(S), NEW j \in 1..Cardinality(S), s[i] = s[j] PROVE i = j
    <3>1. i \in Int /\ j \in Int /\ ~(i < j) /\ ~(j < i)
      BY <2>1
    <3> QED
      BY <3>1
  <2> QED
    BY <2>1 DEF Injection, IsInjective
<1>3. Cardinality(1..Cardinality(S)) = Cardinality(S)
  BY <1>1, SizeOfInterval
<1>4. s \in Surjection(1..Cardinality(S), S)
  BY <1>2, <1>3, FS_Injection
<1>5. s \in Seq(S) /\ Len(s) = Cardinality(S)
  BY <1>1
<1> QED
  BY <1>4, <1>5 DEF Surjection

(* What is on the disk is numbered below the base.                         *)
LEMMA NamesAreNumerals ==
  /\ Names \subseteq Numerals /\ Names \subseteq Nat /\ IsFiniteSet(Names)
  /\ Cardinality(Names) \in Nat
<1>1. Names \subseteq Numerals /\ Names \subseteq Nat
  BY Limits DEF Names
<1>2. IsFiniteSet(Numerals)
  BY Limits, FS_Interval DEF Numerals
<1> QED
  BY <1>1, <1>2, FS_Subset, FS_CardinalityType

-----------------------------------------------------------------------------
(* The invariant implies the properties.                                   *)
LEMMA InvImplies ==
  ASSUME IInv
  PROVE  LogIsSuffix /\ LogIsBounded
<1>1. \A n \in Names : n \in Nat /\ dir[n] \in Nat /\ last[dir[n]] \in Nat
  <2> SUFFICES ASSUME NEW n \in Names
               PROVE  n \in Nat /\ dir[n] \in Nat /\ last[dir[n]] \in Nat
    OBVIOUS
  <2>1. n \in Nat /\ n \in Numerals
    BY NamesAreNumerals
  <2>2. dir[n] \in Ids
    BY <2>1 DEF IInv, BackendTypeOK, Names
  <2> QED
    BY <2>1, <2>2, Limits DEF IInv, BackendTypeOK, Ids
<1>2. count \in Nat
  BY DEF IInv, BackendTypeOK
<1>4. ASSUME NEW a \in Names, NEW b \in Names, Adjacent(a, b)
      PROVE  Follows(a, b)
  <2>1. a < b /\ \A c \in Names : ~(a < c /\ c < b)
    BY <1>4 DEF Adjacent
  <2>2. last[dir[a]] < dir[b] /\ dir[b] <= last[dir[b]] + 1 /\ last[dir[b]] <= count
    BY <2>1 DEF IInv, FilesInv
  <2>3. CASE last[dir[a]] = count
    BY <1>1, <1>2, <2>2, <2>3 DEF Follows
  <2>4. ASSUME NEW c \in Names, a < c, dir[c] = last[dir[a]] + 1
        PROVE  c = b
    <3>1. c = b \/ b < c
      BY <1>1, <2>1, <2>4
    <3>2. b < c => dir[b] <= last[dir[b]] /\ last[dir[b]] < dir[c]
      BY DEF IInv, FilesInv, NonEmpty
    <3> QED
      BY <1>1, <2>2, <2>4, <3>1, <3>2
  <2> QED
    BY <1>1, <2>3, <2>4 DEF IInv, FilesInv, Follows
<1>5. ASSUME NEW a \in Names, Newest(a)
      PROVE  last[dir[a]] = count
  <2>1. \A b \in Names : ~(a < b)
    BY <1>1, <1>5 DEF Newest
  <2> QED
    BY <2>1 DEF IInv, FilesInv
<1>6. LogIsSuffix
  BY <1>4, <1>5 DEF LogIsSuffix, IInv, FilesInv
<1> QED
  BY <1>6 DEF LogIsBounded, IInv, FilesInv

-----------------------------------------------------------------------------
(* The types of what the files are known by.                               *)
LEMMA FileTypes ==
  ASSUME BackendTypeOK
  PROVE  /\ \A n \in Names : n \in Nat /\ n \in Numerals /\ dir[n] \in Ids /\ dir[n] \in Nat
                             /\ last[dir[n]] \in Nat
         /\ count \in Nat /\ Len(mLogFiles) \in Nat
         /\ \A i \in 1..Len(mLogFiles) : mLogFiles[i] \in Numerals /\ mLogFiles[i] \in Nat
         /\ mCurrentLogFileNumeral \in Nat
<1>1. \A n \in Names : n \in Nat /\ n \in Numerals /\ dir[n] \in Ids
  BY NamesAreNumerals DEF BackendTypeOK, Names
<1>2. Ids \subseteq Nat /\ \A i \in Ids : last[i] \in Nat
  BY Limits DEF BackendTypeOK, Ids
<1>3. \A i \in 1..Len(mLogFiles) : mLogFiles[i] \in Numerals
  BY DEF BackendTypeOK
<1>4. \A n \in Names : dir[n] \in Nat /\ last[dir[n]] \in Nat
  BY <1>1, <1>2
<1>5. count \in Nat /\ Len(mLogFiles) \in Nat /\ mCurrentLogFileNumeral \in Nat
  BY Limits DEF BackendTypeOK
<1>6. \A i \in 1..Len(mLogFiles) : mLogFiles[i] \in Nat
  BY <1>3, Limits
<1> QED
  BY <1>1, <1>3, <1>4, <1>5, <1>6

(* There are as many files as the table has entries.                       *)
LEMMA TableSize ==
  ASSUME BackendTypeOK, TableInv, backend # "off"
  PROVE  Cardinality(Names) = Len(mLogFiles) /\ Cardinality(Names) <= cMaxLogFiles
<1>1. mLogFiles \in Seq(Nat)
  BY Limits, SeqOfSubset DEF BackendTypeOK
<1>2. \A n \in Nat : n \in Names <=> \E i \in 1..Len(mLogFiles) : mLogFiles[i] = n
  BY NamesAreNumerals, FileTypes DEF TableInv
<1>3. \A i, j \in 1..Len(mLogFiles) : i < j => mLogFiles[i] < mLogFiles[j]
  BY DEF TableInv
<1>4. Cardinality(Names) = Len(mLogFiles)
  BY <1>1, <1>2, <1>3, NamesAreNumerals, ListedOnce
<1> QED
  BY <1>4 DEF TableInv

(* The entries of the table are the files, the last one is the newest.     *)
LEMMA TableFacts ==
  ASSUME BackendTypeOK, FilesInv, TableInv, backend # "off"
  PROVE  /\ \A i \in 1..Len(mLogFiles) : mLogFiles[i] \in Names
         /\ \A n \in Names : \E i \in 1..Len(mLogFiles) : mLogFiles[i] = n
         /\ mLogFiles # << >> =>
              LET newest == mLogFiles[Len(mLogFiles)]
              IN  /\ newest \in Names /\ Current = dir[newest] /\ last[Current] = count
                  /\ \A n \in Names : n # newest => n < newest /\ dir[n] < Current /\ NonEmpty(n)
<1>1. /\ \A i \in 1..Len(mLogFiles) : mLogFiles[i] \in Names
      /\ \A n \in Names : \E i \in 1..Len(mLogFiles) : mLogFiles[i] = n
  BY FileTypes DEF TableInv
<1>2. ASSUME mLogFiles # << >>
      PROVE  LET newest == mLogFiles[Len(mLogFiles)]
             IN  /\ newest \in Names /\ Current = dir[newest] /\ last[Current] = count
                 /\ \A n \in Names : n # newest => n < newest /\ dir[n] < Current /\ NonEmpty(n)
  <2> DEFINE newest == mLogFiles[Len(mLogFiles)]
  <2>1. Len(mLogFiles) \in 1..Len(mLogFiles)
    BY <1>2 DEF BackendTypeOK
  <2>2. newest \in Names /\ Current = dir[newest]
    BY <1>1, <2>1 DEF Current
  <2>3. \A n \in Names : n # newest => n < newest
    <3> SUFFICES ASSUME NEW n \in Names, n # newest PROVE n < newest
      OBVIOUS
    <3>1. PICK i \in 1..Len(mLogFiles) : mLogFiles[i] = n
      BY <1>1
    <3>2. i < Len(mLogFiles)
      BY <3>1, <2>1
    <3> QED
      BY <2>1, <3>1, <3>2 DEF TableInv
  <2>4. \A n \in Names : n # newest => dir[n] < Current /\ NonEmpty(n)
    <3> SUFFICES ASSUME NEW n \in Names, n # newest PROVE dir[n] < Current /\ NonEmpty(n)
      OBVIOUS
    <3>1. NonEmpty(n) /\ last[dir[n]] < dir[newest]
      BY <2>2, <2>3 DEF FilesInv
    <3> QED
      BY <2>2, <3>1, FileTypes DEF NonEmpty
  <2>5. last[Current] = count
    <3>1. ~\E b \in Names : newest < b
      <4> SUFFICES ASSUME NEW b \in Names, newest < b PROVE FALSE
        OBVIOUS
      <4>1. newest \in Nat /\ b \in Nat
        BY <2>2, FileTypes
      <4> QED
        BY <2>3, <4>1
    <3> QED
      BY <2>2, <3>1 DEF FilesInv
  <2> QED
    BY <2>2, <2>3, <2>4, <2>5
<1> QED
  BY <1>1, <1>2

(* The directory, listed: every name, and in the order of the numerals if  *)
(* that is how the names sort.                                             *)
LEMMA ListingIsComplete ==
  ASSUME NEW files \in Listings(Names)
  PROVE  /\ files \in Seq(Names) /\ files \in Seq(Numerals) /\ Len(files) = Cardinality(Names)
         /\ \A n \in Names : \E i \in 1..Len(files) : files[i] = n
<1>1. /\ files \in [1..Cardinality(Names) -> Names]
      /\ \A i, j \in 1..Cardinality(Names) : i < j => Before(files[i], files[j])
  BY DEF Listings
<1>2. \A i, j \in 1..Cardinality(Names) : i < j => files[i] # files[j]
  <2> SUFFICES ASSUME NEW i \in 1..Cardinality(Names), NEW j \in 1..Cardinality(Names), i < j
               PROVE  files[i] # files[j]
    OBVIOUS
  <2>1. files[i] \in Nat /\ Before(files[i], files[j])
    BY <1>1, NamesAreNumerals
  <2> QED
    BY <2>1, NotBeforeItself
<1>3. /\ files \in Seq(Names) /\ Len(files) = Cardinality(Names)
      /\ \A n \in Names : \E i \in 1..Len(files) : files[i] = n
  BY <1>1, <1>2, NamesAreNumerals, FullListing
<1>4. files \in Seq(Numerals)
  BY <1>3, NamesAreNumerals, SeqOfSubset
<1> QED
  BY <1>3, <1>4

LEMMA ListingIsSorted ==
  ASSUME NamesSorted, NEW files \in Listings(Names)
  PROVE  \A i, j \in 1..Cardinality(Names) : i < j => files[i] < files[j]
<1> SUFFICES ASSUME NEW i \in 1..Cardinality(Names), NEW j \in 1..Cardinality(Names), i < j
             PROVE  files[i] < files[j]
  OBVIOUS
<1> DEFINE a == files[i]
           b == files[j]
<1>1. a \in Names /\ b \in Names /\ Before(a, b)
  BY DEF Listings
<1>2. a \in Nat /\ b \in Nat
  BY <1>1, NamesAreNumerals
<1>3. b < a => Before(b, a)
  BY <1>1 DEF NamesSorted
<1>4. Digit(a) \in Int /\ Digit(b) \in Int
  BY <1>2, Limits DEF Digit
<1>5. ~(Before(a, b) /\ Before(b, a)) /\ (a = b => ~Before(a, b))
  BY <1>2, <1>4, NotBeforeItself DEF Before
<1> HIDE DEF a, b
<1>6. a < b
  BY <1>1, <1>2, <1>3, <1>5
<1> QED
  BY <1>6 DEF a, b

(* Restore.                                                                *)
LEMMA RestoreKeepsInv ==
  ASSUME IInv, Restore, NamesSorted
  PROVE  BackendTypeOK' /\ FilesInv' /\ TableInv' /\ NumeralInv' /\ StepInv'
<1>1. Cardinality(Names) <= cMaxLogFiles /\ ~(Cardinality(Names) > cMaxLogFiles)
  BY NamesAreNumerals, Limits DEF IInv
<1>2. /\ mLogFiles' \in Listings(Names)
      /\ mCurrentLogFileNumeral' \in {n \in Numerals :
           IF Names = {} THEN n = 0 ELSE n \in Names /\ \A m \in Names : m <= n}
      /\ UNCHANGED <<dir, last, count, crashes>> /\ sorted' \in BOOLEAN
      /\ backend' = "shrink" /\ restoring' = TRUE
  BY <1>1 DEF Restore
<1>4. /\ mLogFiles' \in Seq(Names) /\ mLogFiles' \in Seq(Numerals)
      /\ Len(mLogFiles') = Cardinality(Names)
      /\ \A n \in Names : \E i \in 1..Len(mLogFiles') : mLogFiles'[i] = n
      /\ \A i, j \in 1..Cardinality(Names) : i < j => mLogFiles'[i] < mLogFiles'[j]
  BY <1>2, ListingIsComplete, ListingIsSorted DEF IInv
<1>5. /\ mLogFiles' \in Seq(Names) /\ Len(mLogFiles') = Cardinality(Names)
      /\ \A n \in Names : \E i \in 1..Len(mLogFiles') : mLogFiles'[i] = n
  BY <1>4
<1>6. Names' = Names
  BY <1>2 DEF Names
<1>7. BackendTypeOK'
  BY <1>2, <1>4 DEF IInv, BackendTypeOK
<1>8. FilesInv'
  BY <1>2, <1>6 DEF IInv, FilesInv, NonEmpty
<1>9. TableInv'
  <2>1. \A i \in 1..Len(mLogFiles') : mLogFiles'[i] \in Names
    BY <1>5
  <2> QED
    BY <1>1, <1>4, <1>5, <1>6, <2>1 DEF TableInv
<1>10. mLogFiles' = << >> => mCurrentLogFileNumeral' = 0
  <2>1. mLogFiles' = << >> => Names = {}
    BY <1>5
  <2> QED
    BY <1>2, <2>1
<1> QED
  BY <1>2, <1>7, <1>8, <1>9, <1>10 DEF NumeralInv, StepInv

(* ShrinkLogFiles takes the first entry of a full table and its file.      *)
LEMMA ShrinkTakesOldest ==
  ASSUME IInv, ShrinkLogFiles, IsFull
  PROVE  LET len == Len(mLogFiles)
         IN  /\ len = cMaxLogFiles /\ mLogFiles' \in Seq(Numerals) /\ Len(mLogFiles') = len - 1
             /\ \A i \in 1..(len - 1) : mLogFiles'[i] = mLogFiles[i + 1]
             /\ mLogFiles[1] \in Names /\ Names' = Names \ {mLogFiles[1]}
             /\ \A n \in Names' : dir'[n] = dir[n]
             /\ \A n \in Names' : mLogFiles[1] < n
             /\ dir' \in [Numerals -> Ids \union {0}]
<1> DEFINE len == Len(mLogFiles)
<1>1. len = cMaxLogFiles /\ len \in Nat /\ len >= 2
  BY Limits DEF IsFull
<1>2. backend # "off" /\ mLogFiles \in Seq(Numerals) /\ mLogFiles # << >>
  BY <1>1 DEF ShrinkLogFiles, IInv, BackendTypeOK
<1>3. mLogFiles' = Tail(mLogFiles) /\ dir' = [dir EXCEPT ![mLogFiles[1]] = 0]
  BY DEF ShrinkLogFiles
<1>4. /\ mLogFiles' \in Seq(Numerals) /\ Len(mLogFiles') = len - 1
      /\ \A i \in 1..(len - 1) : mLogFiles'[i] = mLogFiles[i + 1]
  BY <1>1, <1>2, <1>3
<1>5. mLogFiles[1] \in Names
  BY <1>1, <1>2, TableFacts DEF IInv
<1>6. dir \in [Numerals -> Ids \union {0}]
  BY DEF IInv, BackendTypeOK
<1>7. Names' = Names \ {mLogFiles[1]} /\ \A n \in Names' : dir'[n] = dir[n]
  BY <1>3, <1>5, <1>6 DEF Names
<1>8. dir' \in [Numerals -> Ids \union {0}]
  BY <1>3, <1>6
<1>9. ASSUME NEW n \in Names'
      PROVE  mLogFiles[1] < n
  <2>1. n \in Names /\ n # mLogFiles[1]
    BY <1>7
  <2>2. PICK i \in 1..len : mLogFiles[i] = n
    BY <1>2, <2>1, TableFacts DEF IInv
  <2>3. 1 < i
    BY <2>1, <2>2
  <2> QED
    BY <1>1, <1>2, <2>2, <2>3 DEF IInv, TableInv
<1> QED
  BY <1>1, <1>4, <1>5, <1>7, <1>8, <1>9

(* ShrinkLogFiles removes the oldest file or none, and leaves room for one *)
(* more.                                                                   *)
LEMMA ShrinkKeepsFiles ==
  ASSUME IInv, ShrinkLogFiles
  PROVE  /\ dir' \in [Numerals -> Ids \union {0}] /\ mLogFiles' \in Seq(Numerals)
         /\ FilesInv' /\ TableInv' /\ Len(mLogFiles') < cMaxLogFiles
         /\ mLogFiles = << >> <=> mLogFiles' = << >>
         /\ \A i \in 1..Len(mLogFiles') : \E j \in 1..Len(mLogFiles) : mLogFiles'[i] = mLogFiles[j]
         /\ \A n \in Names' : n \in Names /\ dir'[n] = dir[n]
<1>0. backend # "off" /\ last' = last /\ count' = count
  BY DEF ShrinkLogFiles
<1>1. CASE IsFull
  <2> DEFINE len == Len(mLogFiles)
  <2>1. /\ len = cMaxLogFiles /\ mLogFiles' \in Seq(Numerals) /\ Len(mLogFiles') = len - 1
        /\ \A i \in 1..(len - 1) : mLogFiles'[i] = mLogFiles[i + 1]
        /\ mLogFiles[1] \in Names /\ Names' = Names \ {mLogFiles[1]}
        /\ \A n \in Names' : dir'[n] = dir[n]
        /\ \A n \in Names' : mLogFiles[1] < n
        /\ dir' \in [Numerals -> Ids \union {0}]
    BY <1>1, ShrinkTakesOldest
  <2>2. len \in Nat /\ len >= 2
    BY <2>1, Limits
  <2>3. \A i \in 1..Len(mLogFiles') : i \in 1..len /\ i + 1 \in 1..len /\ mLogFiles'[i] = mLogFiles[i + 1]
    BY <2>1, <2>2
  <2>4. TableInv'
    <3>1. Len(mLogFiles') <= cMaxLogFiles
      BY <2>1, <2>2
    <3>2. ASSUME NEW n \in Numerals
          PROVE  n \in Names' <=> \E i \in 1..Len(mLogFiles') : mLogFiles'[i] = n
      <4>1. ASSUME n \in Names'
            PROVE  \E i \in 1..Len(mLogFiles') : mLogFiles'[i] = n
        <5>1. n \in Names /\ n # mLogFiles[1]
          BY <2>1, <4>1
        <5>2. PICK j \in 1..len : mLogFiles[j] = n
          BY <1>0, <5>1, TableFacts DEF IInv
        <5>3. j # 1 /\ j - 1 \in 1..Len(mLogFiles')
          BY <2>1, <2>2, <5>1, <5>2
        <5>4. (j - 1) + 1 = j
          BY <2>2
        <5>5. mLogFiles'[j - 1] = mLogFiles[(j - 1) + 1]
          BY <2>3, <5>3
        <5> QED
          BY <5>2, <5>3, <5>4, <5>5
      <4>2. ASSUME NEW i \in 1..Len(mLogFiles'), mLogFiles'[i] = n
            PROVE  n \in Names'
        <5>1. n = mLogFiles[i + 1] /\ i + 1 \in 1..len /\ 1 < i + 1 /\ 1 \in 1..len
          BY <2>2, <2>3, <4>2
        <5>2. mLogFiles[1] < n /\ mLogFiles[1] \in Nat /\ n \in Nat
          BY <1>0, <5>1, FileTypes DEF IInv, TableInv
        <5>3. n \in Names
          BY <1>0, <5>1, TableFacts DEF IInv
        <5> QED
          BY <2>1, <5>2, <5>3
      <4> QED
        BY <4>1, <4>2
    <3>3. \A i, j \in 1..Len(mLogFiles') : i < j => mLogFiles'[i] < mLogFiles'[j]
      BY <1>0, <2>2, <2>3 DEF IInv, TableInv
    <3> QED
      BY <3>1, <3>2, <3>3 DEF TableInv
  <2>5. FilesInv'
    <3>1. /\ \A n \in Names' : /\ n < cMaxLogFileNumeral
                               /\ dir'[n] <= last'[dir'[n]] + 1 /\ last'[dir'[n]] <= count'
                               /\ last'[dir'[n]] - dir'[n] + 1 <= cFileSizeLimit
          /\ \A a, b \in Names' : a < b => NonEmpty(a)' /\ last'[dir'[a]] < dir'[b]
      BY <1>0, <2>1 DEF IInv, FilesInv, NonEmpty
    <3>2. ASSUME NEW a \in Names'
          PROVE  last'[dir'[a]] = count' \/ \E b \in Names' : a < b /\ dir'[b] = last'[dir'[a]] + 1
      <4>1. a \in Names /\ dir'[a] = dir[a] /\ mLogFiles[1] < a
        BY <2>1
      <4>2. ASSUME NEW b \in Names, a < b, dir[b] = last[dir[a]] + 1
            PROVE  b \in Names' /\ dir'[b] = last'[dir'[a]] + 1
        <5>1. b # mLogFiles[1]
          BY <2>1, <4>1, <4>2, FileTypes DEF IInv
        <5> QED
          BY <1>0, <2>1, <4>1, <4>2, <5>1
      <4> QED
        BY <1>0, <4>1, <4>2 DEF IInv, FilesInv
    <3>3. Names' # {}
      <4>1. 1 \in 1..Len(mLogFiles')
        BY <2>1, <2>2
      <4> QED
        BY <2>1, <2>4, <4>1, <1>0 DEF TableInv, ShrinkLogFiles, AfterShrink, MovesTo
    <3> QED
      BY <3>1, <3>2, <3>3 DEF FilesInv
  <2> QED
    BY <2>1, <2>2, <2>3, <2>4, <2>5
<1>2. CASE ~IsFull
  <2>1. UNCHANGED <<dir, mLogFiles>> /\ Names' = Names
    BY <1>2 DEF ShrinkLogFiles, Names
  <2>2. FilesInv'
    BY <1>0, <2>1 DEF IInv, FilesInv, NonEmpty
  <2>3. TableInv'
    BY <1>0, <2>1 DEF IInv, TableInv
  <2>4. Len(mLogFiles) < cMaxLogFiles
    BY <1>0, <1>2, Limits, FileTypes DEF IInv, TableInv, IsFull
  <2> QED
    BY <2>1, <2>2, <2>3, <2>4 DEF IInv, BackendTypeOK
<1> QED
  BY <1>1, <1>2

(* So it keeps the invariant, as part of Init and of a rotation.           *)
LEMMA ShrinkKeepsInv ==
  ASSUME IInv, ShrinkLogFiles
  PROVE  BackendTypeOK' /\ FilesInv' /\ TableInv' /\ NumeralInv' /\ StepInv'
<1>1. /\ dir' \in [Numerals -> Ids \union {0}] /\ mLogFiles' \in Seq(Numerals)
      /\ FilesInv' /\ TableInv' /\ Len(mLogFiles') < cMaxLogFiles
      /\ mLogFiles = << >> <=> mLogFiles' = << >>
      /\ \A i \in 1..Len(mLogFiles') : \E j \in 1..Len(mLogFiles) : mLogFiles'[i] = mLogFiles[j]
      /\ \A n \in Names' : n \in Names /\ dir'[n] = dir[n]
  BY ShrinkKeepsFiles
<1>2. backend = "shrink" /\ restoring' = restoring /\ UNCHANGED <<last, count, crashes, sorted>>
  BY DEF ShrinkLogFiles, AfterShrink, MovesTo
<1>3. \/ /\ backend' = "renumber" /\ mCurrentLogFileNumeral' = 0
         /\ (restoring /\ mLogFiles # << >>) \/ mCurrentLogFileNumeral = cMaxLogFileNumeral
      \/ /\ backend' = "create" /\ mCurrentLogFileNumeral' = mCurrentLogFileNumeral
         /\ ~(restoring /\ mLogFiles # << >>) /\ mCurrentLogFileNumeral # cMaxLogFileNumeral
  BY DEF ShrinkLogFiles, AfterShrink, MovesTo
<1>4. BackendTypeOK'
  BY <1>1, <1>2, <1>3, Limits DEF IInv, BackendTypeOK
<1>5. mCurrentLogFileNumeral \in 0..cMaxLogFileNumeral
  BY DEF IInv, BackendTypeOK, Numerals
<1>6. CASE backend' = "renumber"
  <2>1. mLogFiles # << >>
    BY <1>2, <1>3, <1>6, Limits DEF IInv, StepInv
  <2>2. NumeralInv'
    BY <1>1, <1>3, <1>6, <1>4, FileTypes DEF NumeralInv, BackendTypeOK
  <2>3. StepInv'
    BY <1>1, <1>2, <1>6, <2>1 DEF IInv, StepInv, NonEmpty
  <2> QED
    BY <1>1, <1>4, <2>2, <2>3
<1>7. CASE backend' = "create"
  <2>1. restoring => mLogFiles = << >>
    BY <1>3, <1>7
  <2>2. mCurrentLogFileNumeral' = mCurrentLogFileNumeral /\ mCurrentLogFileNumeral < cMaxLogFileNumeral
    BY <1>3, <1>5, <1>7, Limits
  <2>3. \A i \in 1..Len(mLogFiles') : mLogFiles'[i] < mCurrentLogFileNumeral'
    <3>1. CASE restoring
      BY <1>1, <2>1, <3>1
    <3>2. CASE ~restoring
      BY <1>1, <1>2, <2>2, <3>2 DEF IInv, NumeralInv
    <3> QED
      BY <3>1, <3>2
  <2>4. NumeralInv'
    BY <1>7, <2>2, <2>3 DEF NumeralInv
  <2>5. StepInv'
    BY <1>1, <1>2, <1>7, <2>1 DEF IInv, StepInv, NonEmpty
  <2> QED
    BY <1>1, <1>4, <2>4, <2>5
<1> QED
  BY <1>3, <1>6, <1>7

(* A renaming that keeps the order of the files and the files themselves   *)
(* keeps what FilesInv says of them.                                       *)
LEMMA RenamedFiles ==
  ASSUME BackendTypeOK, FilesInv, TableInv, backend # "off", TableInv', backend' # "off",
         UNCHANGED <<last, count>>, Len(mLogFiles') = Len(mLogFiles),
         \A i \in 1..Len(mLogFiles) : /\ mLogFiles'[i] \in Numerals
                                      /\ mLogFiles'[i] < cMaxLogFileNumeral
                                      /\ dir'[mLogFiles'[i]] = dir[mLogFiles[i]]
  PROVE  FilesInv'
<1>1. /\ \A n \in Names' : \E i \in 1..Len(mLogFiles) : mLogFiles'[i] = n
      /\ \A i \in 1..Len(mLogFiles) : mLogFiles'[i] \in Names' /\ mLogFiles[i] \in Names
      /\ \A i, j \in 1..Len(mLogFiles) : i < j => mLogFiles'[i] < mLogFiles'[j]
      /\ \A i, j \in 1..Len(mLogFiles) : i < j => mLogFiles[i] < mLogFiles[j]
  <2>1. Names' \subseteq Numerals
    BY DEF Names
  <2> QED
    BY <2>1, TableFacts DEF TableInv
<1>2. \A i \in 1..Len(mLogFiles) : /\ mLogFiles'[i] \in Nat /\ mLogFiles[i] \in Nat
                                   /\ mLogFiles[i] \in Names
  BY <1>1, FileTypes, Limits
<1>3. \A i, j \in 1..Len(mLogFiles) :
        mLogFiles'[i] < mLogFiles'[j] <=> mLogFiles[i] < mLogFiles[j]
  <2> SUFFICES ASSUME NEW i \in 1..Len(mLogFiles), NEW j \in 1..Len(mLogFiles)
               PROVE  mLogFiles'[i] < mLogFiles'[j] <=> mLogFiles[i] < mLogFiles[j]
    OBVIOUS
  <2>1. i < j \/ j < i \/ i = j
    BY FileTypes
  <2>2. /\ mLogFiles'[i] \in Nat /\ mLogFiles[i] \in Nat
        /\ mLogFiles'[j] \in Nat /\ mLogFiles[j] \in Nat
    BY <1>2
  <2>3. /\ i < j => mLogFiles'[i] < mLogFiles'[j] /\ mLogFiles[i] < mLogFiles[j]
        /\ j < i => mLogFiles'[j] < mLogFiles'[i] /\ mLogFiles[j] < mLogFiles[i]
    BY <1>1
  <2> QED
    BY <2>1, <2>2, <2>3
<1>4. ASSUME NEW n \in Names'
      PROVE  /\ n < cMaxLogFileNumeral
             /\ dir'[n] <= last'[dir'[n]] + 1 /\ last'[dir'[n]] <= count'
             /\ last'[dir'[n]] - dir'[n] + 1 <= cFileSizeLimit
  <2>1. PICK i \in 1..Len(mLogFiles) : mLogFiles'[i] = n
    BY <1>1
  <2>2. dir'[n] = dir[mLogFiles[i]] /\ mLogFiles[i] \in Names /\ n < cMaxLogFileNumeral
    BY <1>2, <2>1
  <2> QED
    BY <2>2 DEF FilesInv
<1>5. ASSUME NEW a \in Names', NEW b \in Names', a < b
      PROVE  NonEmpty(a)' /\ last'[dir'[a]] < dir'[b]
  <2>1. PICK i \in 1..Len(mLogFiles) : mLogFiles'[i] = a
    BY <1>1
  <2>2. PICK j \in 1..Len(mLogFiles) : mLogFiles'[j] = b
    BY <1>1
  <2>3. dir'[a] = dir[mLogFiles[i]] /\ dir'[b] = dir[mLogFiles[j]] /\ mLogFiles[i] < mLogFiles[j]
    BY <1>3, <1>5, <2>1, <2>2
  <2> QED
    BY <1>2, <2>3 DEF FilesInv, NonEmpty
<1>6. ASSUME NEW a \in Names'
      PROVE  last'[dir'[a]] = count' \/ \E b \in Names' : a < b /\ dir'[b] = last'[dir'[a]] + 1
  <2>1. PICK i \in 1..Len(mLogFiles) : mLogFiles'[i] = a
    BY <1>1
  <2>2. dir'[a] = dir[mLogFiles[i]] /\ mLogFiles[i] \in Names
    BY <1>2, <2>1
  <2>3. ASSUME NEW c \in Names, mLogFiles[i] < c, dir[c] = last[dir[mLogFiles[i]]] + 1
        PROVE  \E b \in Names' : a < b /\ dir'[b] = last'[dir'[a]] + 1
    <3>1. PICK j \in 1..Len(mLogFiles) : mLogFiles[j] = c
      BY TableFacts
    <3>2. mLogFiles'[j] \in Names' /\ dir'[mLogFiles'[j]] = dir[c] /\ a < mLogFiles'[j]
      BY <1>1, <1>3, <2>1, <2>3, <3>1
    <3> QED
      BY <2>2, <2>3, <3>2
  <2> QED
    BY <2>2, <2>3 DEF FilesInv
<1>7. count' > 0 => Names' # {}
  <2> SUFFICES ASSUME count > 0 PROVE Names' # {}
    OBVIOUS
  <2>1. PICK n \in Names : TRUE
    BY DEF FilesInv
  <2>2. PICK i \in 1..Len(mLogFiles) : mLogFiles[i] = n
    BY TableFacts
  <2> QED
    BY <1>1, <2>2
<1> QED
  BY <1>4, <1>5, <1>6, <1>7 DEF FilesInv

(* One turn of UpdateLogFileNumerals: the numeral a file gets is its own,  *)
(* or one that no file has any more.                                       *)
LEMMA RenumberKeepsInv ==
  ASSUME IInv, UpdateLogFileNumeral
  PROVE  /\ BackendTypeOK' /\ FilesInv' /\ TableInv' /\ NumeralInv' /\ StepInv'
         /\ \A n \in Names' : \E m \in Names : n <= m /\ dir'[n] = dir[m]
         /\ \A m \in Names : \E n \in Names' : dir'[n] = dir[m]
<1> DEFINE len == Len(mLogFiles)
           i == mCurrentLogFileNumeral + 1
           from == mLogFiles[i]
           to == mCurrentLogFileNumeral
<1>1. /\ backend = "renumber" /\ backend' = backend /\ UNCHANGED <<restoring, last, count, crashes, sorted>>
      /\ i \in 1..len /\ to \in Nat /\ len \in Nat /\ len < cMaxLogFiles
      /\ mLogFiles' = [mLogFiles EXCEPT ![i] = to] /\ mCurrentLogFileNumeral' = i
      /\ dir' = [n \in Numerals |-> IF n = to THEN dir[from] ELSE IF n = from THEN 0 ELSE dir[n]]
  BY FileTypes DEF IInv, UpdateLogFileNumeral, Rename, StepInv
<1>2. /\ \A j \in 1..len : mLogFiles[j] \in Names /\ mLogFiles[j] \in Numerals /\ mLogFiles[j] \in Nat
      /\ \A n \in Names : \E j \in 1..len : mLogFiles[j] = n
      /\ \A j, k \in 1..len : j < k => mLogFiles[j] < mLogFiles[k]
      /\ \A n \in Names : n < cMaxLogFileNumeral
  BY <1>1, TableFacts, FileTypes DEF IInv, TableInv, FilesInv
<1>3. \A j \in 1..to : mLogFiles[j] = j - 1
  BY <1>1 DEF IInv, NumeralInv
<1>4. to <= from
  <2>1. CASE to = 0
    BY <1>1, <1>2, <2>1
  <2>2. CASE to > 0
    <3>1. to \in 1..to /\ to \in 1..len /\ to < i
      BY <1>1, <2>2
    <3>2. mLogFiles[to] = to - 1 /\ mLogFiles[to] < from
      BY <1>1, <1>2, <1>3, <3>1
    <3> QED
      BY <1>1, <1>2, <3>2
  <2> QED
    BY <1>1, <2>1, <2>2
<1>5. to \in Numerals /\ to < cMaxLogFileNumeral /\ i \in Numerals
  BY <1>1, Limits DEF Numerals
<1>6. \A j \in 1..len : j # i => mLogFiles[j] # to /\ mLogFiles[j] # from
  <2> SUFFICES ASSUME NEW j \in 1..len, j # i
               PROVE  mLogFiles[j] # to /\ mLogFiles[j] # from
    OBVIOUS
  <2>1. CASE j < i
    <3>1. mLogFiles[j] = j - 1 /\ j - 1 < to
      BY <1>1, <1>3, <2>1
    <3> QED
      BY <1>1, <1>2, <1>4, <3>1
  <2>2. CASE i < j
    BY <1>1, <1>2, <1>4, <2>2
  <2> QED
    BY <1>1, <2>1, <2>2
<1>7. /\ mLogFiles' \in Seq(Numerals) /\ Len(mLogFiles') = len /\ mLogFiles'[i] = to
      /\ \A j \in 1..len : j # i => mLogFiles'[j] = mLogFiles[j]
  BY <1>1, <1>5 DEF IInv, BackendTypeOK
<1>8. \A j \in 1..len : /\ mLogFiles'[j] \in Numerals /\ mLogFiles'[j] < cMaxLogFileNumeral
                        /\ dir'[mLogFiles'[j]] = dir[mLogFiles[j]]
  BY <1>1, <1>2, <1>5, <1>6, <1>7
<1>9. dir' \in [Numerals -> Ids \union {0}]
  BY <1>1, <1>2, <1>5 DEF IInv, BackendTypeOK
<1>10. Names' = (Names \ {from}) \union {to}
  <2>1. from \in Names /\ dir[from] # 0
    BY <1>1, <1>2 DEF Names
  <2> QED
    BY <1>1, <1>5, <2>1 DEF Names
<1>11. TableInv'
  <2>1. ASSUME NEW n \in Numerals
        PROVE  n \in Names' <=> \E j \in 1..len : mLogFiles'[j] = n
    <3>1. ASSUME n \in Names'
          PROVE  \E j \in 1..len : mLogFiles'[j] = n
      <4>1. CASE n = to
        BY <1>1, <1>7, <4>1
      <4>2. CASE n # to
        <5>1. n \in Names /\ n # from
          BY <1>10, <3>1, <4>2
        <5>2. PICK j \in 1..len : mLogFiles[j] = n
          BY <1>2, <5>1
        <5> QED
          BY <1>7, <5>1, <5>2
      <4> QED
        BY <4>1, <4>2
    <3>2. ASSUME NEW j \in 1..len, mLogFiles'[j] = n
          PROVE  n \in Names'
      BY <1>2, <1>6, <1>7, <1>10, <3>2
    <3> QED
      BY <3>1, <3>2
  <2>2. ASSUME NEW j \in 1..len, NEW k \in 1..len, j < k
        PROVE  mLogFiles'[j] < mLogFiles'[k]
    <3>1. CASE j # i /\ k # i
      BY <1>2, <1>7, <2>2, <3>1
    <3>2. CASE k = i
      <4>1. j \in 1..to /\ j # i
        BY <1>1, <2>2, <3>2
      <4>2. mLogFiles'[j] = j - 1 /\ j - 1 < to
        BY <1>1, <1>3, <1>7, <4>1
      <4> QED
        BY <1>7, <3>2, <4>2
    <3>3. CASE j = i
      <4>1. k # i /\ from < mLogFiles[k]
        BY <1>1, <1>2, <2>2, <3>3
      <4> QED
        BY <1>1, <1>2, <1>4, <1>7, <3>3, <4>1
    <3> QED
      BY <3>1, <3>2, <3>3
  <2> QED
    BY <1>1, <1>7, <2>1, <2>2, Limits DEF TableInv
<1>12. FilesInv'
  BY <1>1, <1>7, <1>8, <1>11, RenamedFiles DEF IInv
<1>13. BackendTypeOK'
  BY <1>1, <1>5, <1>7, <1>9 DEF IInv, BackendTypeOK
<1>14. NumeralInv'
  <2>1. \A j \in 1..i : mLogFiles'[j] = j - 1
    <3> SUFFICES ASSUME NEW j \in 1..i PROVE mLogFiles'[j] = j - 1
      OBVIOUS
    <3>1. CASE j = i
      BY <1>1, <1>7, <3>1
    <3>2. CASE j # i
      BY <1>1, <1>3, <1>7, <3>2
    <3> QED
      BY <3>1, <3>2
  <2> QED
    BY <1>1, <1>7, <2>1 DEF NumeralInv
<1>15. StepInv'
  <2>1. mLogFiles' # << >>
    BY <1>1, <1>7
  <2>2. ASSUME ~restoring, NEW n \in Names'
        PROVE  NonEmpty(n)'
    <3>1. PICK j \in 1..len : mLogFiles'[j] = n
      BY <1>1, <1>7, <1>11 DEF TableInv, Names
    <3>2. NonEmpty(mLogFiles[j])
      BY <1>1, <1>2, <2>2 DEF IInv, StepInv
    <3> QED
      BY <1>1, <1>8, <3>1, <3>2 DEF NonEmpty
  <2> QED
    BY <1>1, <1>7, <2>1, <2>2 DEF IInv, StepInv
<1>16. ASSUME NEW n \in Names'
       PROVE  \E m \in Names : n <= m /\ dir'[n] = dir[m]
  <2>1. CASE n = to
    BY <1>1, <1>2, <1>4, <1>5, <2>1
  <2>2. CASE n # to
    <3>1. n \in Names /\ n # from /\ n \in Nat /\ n \in Numerals
      BY <1>10, <2>2, NamesAreNumerals
    <3> QED
      BY <1>1, <2>2, <3>1
  <2> QED
    BY <2>1, <2>2
<1>17. ASSUME NEW m \in Names
       PROVE  \E n \in Names' : dir'[n] = dir[m]
  <2>1. PICK j \in 1..len : mLogFiles[j] = m
    BY <1>2
  <2>2. mLogFiles'[j] \in Names' /\ dir'[mLogFiles'[j]] = dir[m]
    BY <1>1, <1>7, <1>8, <1>11, <2>1 DEF TableInv
  <2> QED
    BY <2>2
<1> QED
  BY <1>11, <1>12, <1>13, <1>14, <1>15, <1>16, <1>17

(* The steps that leave files and table alone.                             *)
LEMMA QuietStepKeepsInv ==
  ASSUME IInv, NumeralsUpdated \/ RotationFails \/ UNCHANGED backendVars
  PROVE  IInv'
<1>1. UNCHANGED <<mLogFiles, mCurrentLogFileNumeral, dir, last, count, crashes, sorted, restoring>>
      /\ (backend = "off" => backend' = "off")
  BY DEF NumeralsUpdated, RotationFails, MovesTo, backendVars, memVars, diskVars
<1>2. Names' = Names
  BY <1>1 DEF Names
<1>3. FilesInv' /\ TableInv' /\ Cardinality(Names') <= cMaxLogFiles
  <2>1. backend' # "off" => backend # "off"
    BY <1>1
  <2> QED
    BY <1>1, <1>2, <2>1 DEF IInv, FilesInv, TableInv, NonEmpty
<1>4. BackendTypeOK'
  BY <1>1 DEF IInv, BackendTypeOK, NumeralsUpdated, RotationFails, MovesTo, backendVars, memVars
<1>5. CASE NumeralsUpdated
  <2>1. /\ backend = "renumber" /\ backend' = IF restoring THEN "ready" ELSE "create"
        /\ mCurrentLogFileNumeral = Len(mLogFiles) /\ Len(mLogFiles) < cMaxLogFiles
        /\ \A i \in 1..Len(mLogFiles) : mLogFiles[i] = i - 1
    BY <1>5, FileTypes DEF IInv, NumeralsUpdated, NumeralInv, StepInv, MovesTo
  <2>2. /\ \A i \in 1..Len(mLogFiles) : mLogFiles[i] < mCurrentLogFileNumeral
        /\ mCurrentLogFileNumeral < cMaxLogFileNumeral
    BY <2>1, Limits, FileTypes DEF IInv
  <2>3. NumeralInv'
    BY <1>1, <2>1, <2>2 DEF NumeralInv
  <2>4. StepInv'
    BY <1>1, <1>2, <2>1 DEF IInv, StepInv, NonEmpty
  <2> QED
    BY <1>3, <1>4, <2>3, <2>4 DEF IInv
<1>6. CASE RotationFails
  BY <1>3, <1>4, <1>6 DEF IInv, RotationFails, MovesTo, NumeralInv, StepInv
<1>7. CASE UNCHANGED backendVars
  <2>1. backend' = backend
    BY <1>7 DEF backendVars, memVars
  <2>2. NumeralInv' /\ StepInv'
    BY <1>1, <1>2, <2>1 DEF IInv, NumeralInv, StepInv, NonEmpty, Current
  <2> QED
    BY <1>3, <1>4, <2>2 DEF IInv
<1> QED
  BY <1>5, <1>6, <1>7

(* A new file begins where the log ends.                                   *)
LEMMA CreateKeepsInv ==
  ASSUME IInv, CreateLogFile
  PROVE  /\ BackendTypeOK' /\ FilesInv' /\ TableInv' /\ NumeralInv' /\ StepInv'
         /\ Names' = Names \union {mCurrentLogFileNumeral} /\ dir'[mCurrentLogFileNumeral] = count + 1
         /\ \A n \in Names : dir'[n] = dir[n] /\ dir[n] < count + 1
         /\ count' = count /\ last' = [last EXCEPT ![count + 1] = count]
<1> DEFINE new == mCurrentLogFileNumeral
           len == Len(mLogFiles)
<1>1. /\ backend = "create" /\ backend' = (IF restoring THEN "ready" ELSE "write")
      /\ restoring' = restoring /\ count' = count /\ UNCHANGED <<crashes, sorted>>
      /\ mLogFiles' = Append(mLogFiles, new) /\ mCurrentLogFileNumeral' = new + 1
  BY DEF CreateLogFile, MovesTo
<1>2. /\ new \in Numerals /\ new \in Nat /\ new < cMaxLogFileNumeral /\ new + 1 \in Numerals
      /\ len \in Nat /\ len < cMaxLogFiles
  BY <1>1, Limits, FileTypes DEF IInv, NumeralInv, StepInv, Numerals
<1>3. /\ \A i \in 1..len : /\ mLogFiles[i] \in Names /\ mLogFiles[i] \in Nat
                           /\ mLogFiles[i] < new
      /\ \A n \in Names : \E i \in 1..len : mLogFiles[i] = n
      /\ \A n \in Names : n \in Nat /\ n < new /\ n # new
  <2>1. /\ \A i \in 1..len : /\ mLogFiles[i] \in Names /\ mLogFiles[i] \in Nat
                            /\ mLogFiles[i] < new
        /\ \A n \in Names : \E i \in 1..len : mLogFiles[i] = n
    BY <1>1, FileTypes, TableFacts DEF IInv, NumeralInv
  <2> QED
    BY <1>2, <2>1
<1>4. /\ count \in Nat /\ count + 1 \in Ids /\ count <= MaxWrites /\ count \in 0..MaxWrites
  BY Limits DEF IInv, BackendTypeOK, Ids
<1>5. /\ dir[new] = 0
      /\ dir' = [dir EXCEPT ![new] = count + 1]
      /\ last' = [last EXCEPT ![count + 1] = count]
  <2>1. dir[new] = 0
    BY <1>2, <1>3 DEF Names
  <2> QED
    BY <2>1 DEF CreateLogFile
<1>6. /\ dir' \in [Numerals -> Ids \union {0}] /\ last' \in [Ids -> 0..MaxWrites]
      /\ dir'[new] = count + 1 /\ last'[count + 1] = count
      /\ \A n \in Names : dir'[n] = dir[n]
      /\ \A i \in Ids : i # count + 1 => last'[i] = last[i]
  BY <1>2, <1>3, <1>4, <1>5 DEF IInv, BackendTypeOK
<1>7. Names' = Names \union {new}
  BY <1>2, <1>4, <1>5 DEF IInv, BackendTypeOK, Names
<1>8. \A n \in Names : /\ NonEmpty(n) /\ dir[n] < count + 1 /\ last'[dir'[n]] = last[dir[n]]
                       /\ dir'[n] = dir[n] /\ dir[n] \in Nat /\ last[dir[n]] \in Nat
                       /\ last[dir[n]] < count + 1 /\ last[dir[n]] <= count
  <2> SUFFICES ASSUME NEW n \in Names
               PROVE  /\ NonEmpty(n) /\ dir[n] < count + 1 /\ last'[dir'[n]] = last[dir[n]]
                      /\ dir'[n] = dir[n] /\ dir[n] \in Nat /\ last[dir[n]] \in Nat
                      /\ last[dir[n]] < count + 1 /\ last[dir[n]] <= count
    OBVIOUS
  <2>1. dir[n] \in Nat /\ dir[n] \in Ids /\ last[dir[n]] \in Nat /\ last[dir[n]] <= count
    BY FileTypes DEF IInv, FilesInv
  <2>2. ~restoring
    <3>1. restoring => len = 0
      BY <1>1 DEF IInv, StepInv
    <3> QED
      BY <1>3, <3>1
  <2>3. NonEmpty(n)
    BY <1>1, <2>2 DEF IInv, StepInv
  <2> QED
    BY <1>4, <1>6, <2>1, <2>3 DEF NonEmpty
<1>9. BackendTypeOK'
  <2>1. mLogFiles' \in Seq(Numerals)
    BY <1>1, <1>2 DEF IInv, BackendTypeOK
  <2> QED
    BY <1>1, <1>2, <1>6, <2>1 DEF IInv, BackendTypeOK
<1>10. /\ Len(mLogFiles') = len + 1 /\ mLogFiles'[len + 1] = new
       /\ \A i \in 1..len : mLogFiles'[i] = mLogFiles[i]
       /\ \A i \in 1..(len + 1) : i \in 1..len \/ i = len + 1
  BY <1>1, <1>2 DEF IInv, BackendTypeOK
<1>11. TableInv'
  <2>1. ASSUME NEW n \in Numerals
        PROVE  n \in Names' <=> \E i \in 1..Len(mLogFiles') : mLogFiles'[i] = n
    BY <1>2, <1>3, <1>7, <1>10
  <2>2. ASSUME NEW i \in 1..Len(mLogFiles'), NEW j \in 1..Len(mLogFiles'), i < j
        PROVE  mLogFiles'[i] < mLogFiles'[j]
    <3>1. i \in 1..len
      BY <1>2, <1>10, <2>2
    <3>2. CASE j \in 1..len
      BY <1>1, <1>10, <2>2, <3>1, <3>2 DEF IInv, TableInv
    <3>3. CASE j = len + 1
      BY <1>3, <1>10, <3>1, <3>3
    <3> QED
      BY <1>10, <3>2, <3>3
  <2> QED
    BY <1>1, <1>2, <1>10, <2>1, <2>2, Limits DEF TableInv
<1>12. FilesInv'
  <2>1. ASSUME NEW n \in Names'
        PROVE  /\ n < cMaxLogFileNumeral
               /\ dir'[n] <= last'[dir'[n]] + 1 /\ last'[dir'[n]] <= count'
               /\ last'[dir'[n]] - dir'[n] + 1 <= cFileSizeLimit
    <3>1. CASE n = new
      BY <1>1, <1>2, <1>4, <1>6, <3>1, Limits
    <3>2. CASE n \in Names
      BY <1>1, <1>8, <3>2 DEF IInv, FilesInv
    <3> QED
      BY <1>7, <3>1, <3>2
  <2>2. ASSUME NEW a \in Names', NEW b \in Names', a < b
        PROVE  NonEmpty(a)' /\ last'[dir'[a]] < dir'[b]
    <3>1. a \in Names
      BY <1>2, <1>3, <1>7, <2>2
    <3>2. CASE b = new
      BY <1>6, <1>8, <3>1, <3>2 DEF NonEmpty
    <3>3. CASE b \in Names
      BY <1>8, <2>2, <3>1, <3>3 DEF IInv, FilesInv, NonEmpty
    <3> QED
      BY <1>7, <3>2, <3>3
  <2>3. ASSUME NEW a \in Names'
        PROVE  last'[dir'[a]] = count' \/ \E b \in Names' : a < b /\ dir'[b] = last'[dir'[a]] + 1
    <3>1. CASE a = new
      BY <1>1, <1>6, <3>1
    <3>2. CASE a \in Names
      <4>1. CASE last[dir[a]] = count
        BY <1>3, <1>6, <1>7, <1>8, <3>2, <4>1
      <4>2. CASE \E b \in Names : a < b /\ dir[b] = last[dir[a]] + 1
        BY <1>7, <1>8, <3>2, <4>2
      <4> QED
        BY <3>2, <4>1, <4>2 DEF IInv, FilesInv
    <3> QED
      BY <1>7, <3>1, <3>2
  <2>4. Names' # {}
    BY <1>7
  <2> QED
    BY <2>1, <2>2, <2>3, <2>4 DEF FilesInv
<1>13. NumeralInv'
  <2>1. \A i \in 1..Len(mLogFiles') : mLogFiles'[i] < mCurrentLogFileNumeral'
    BY <1>1, <1>2, <1>3, <1>10
  <2> QED
    BY <1>1, <2>1 DEF NumeralInv
<1>14. StepInv'
  <2>1. mLogFiles' # << >>
    BY <1>2, <1>10
  <2>2. Current' = count + 1 /\ last'[Current'] = count
    BY <1>2, <1>6, <1>10 DEF Current
  <2>3. ~restoring => count < MaxWrites
    BY <1>1 DEF IInv, StepInv
  <2> QED
    BY <1>1, <1>4, <2>1, <2>2, <2>3 DEF StepInv
<1> QED
  BY <1>1, <1>5, <1>6, <1>7, <1>8, <1>9, <1>11, <1>12, <1>13, <1>14

(* A write goes behind the last one.                                       *)
LEMMA AppendKeepsFiles ==
  ASSUME IInv, backend \in {"write", "ready"}, AppendToFile, count < MaxWrites,
         mFileSize + 1 <= cFileSizeLimit, UNCHANGED <<dir, mLogFiles>>
  PROVE  /\ Names' = Names /\ FilesInv'
         /\ last' \in [Ids -> 0..MaxWrites] /\ count' \in 0..MaxWrites
         /\ \A n \in Names : dir[n] <= Current
<1> DEFINE newest == mLogFiles[Len(mLogFiles)]
<1>1. /\ newest \in Names /\ Current = dir[newest] /\ last[Current] = count
      /\ \A n \in Names : n # newest => n < newest /\ dir[n] < Current /\ NonEmpty(n)
  BY TableFacts DEF IInv, StepInv
<1>2. /\ Names' = Names /\ count' = count + 1 /\ dir' = dir
      /\ last' = [last EXCEPT ![Current] = count + 1]
  BY DEF AppendToFile, Names
<1>3. count \in Nat /\ count + 1 \in 0..MaxWrites /\ Current \in Ids /\ Current \in Nat
  BY <1>1, Limits, FileTypes DEF IInv
<1>4. last' \in [Ids -> 0..MaxWrites] /\ last'[Current] = count + 1
      /\ \A i \in Ids : i # Current => last'[i] = last[i]
  BY <1>2, <1>3 DEF IInv, BackendTypeOK
<1>5. \A n \in Names : n # newest => /\ last'[dir'[n]] = last[dir[n]] /\ n < newest /\ NonEmpty(n)
                                     /\ dir[n] \in Nat /\ last[dir[n]] \in Nat
                                     /\ last[dir[n]] < Current
  <2> SUFFICES ASSUME NEW n \in Names, n # newest
               PROVE  /\ last'[dir'[n]] = last[dir[n]] /\ n < newest /\ NonEmpty(n)
                      /\ dir[n] \in Nat /\ last[dir[n]] \in Nat /\ last[dir[n]] < Current
    OBVIOUS
  <2>1. dir[n] \in Ids /\ dir[n] \in Nat /\ last[dir[n]] \in Nat
    BY FileTypes DEF IInv
  <2>2. dir[n] # Current /\ n < newest /\ NonEmpty(n)
    BY <1>1, <1>3, <2>1
  <2>3. last[dir[n]] < dir[newest]
    BY <1>1, <2>2 DEF IInv, FilesInv
  <2> QED
    BY <1>1, <1>2, <1>4, <2>1, <2>2, <2>3
<1>6. Current <= count + 1 /\ count - Current + 1 + 1 <= cFileSizeLimit
  BY <1>1 DEF IInv, FilesInv, mFileSize
<1>7. ASSUME NEW n \in Names
      PROVE  /\ n < cMaxLogFileNumeral
             /\ dir'[n] <= last'[dir'[n]] + 1 /\ last'[dir'[n]] <= count'
             /\ last'[dir'[n]] - dir'[n] + 1 <= cFileSizeLimit
  <2>1. n < cMaxLogFileNumeral
    BY DEF IInv, FilesInv
  <2>2. CASE n = newest
    BY <1>1, <1>2, <1>3, <1>4, <1>6, <2>1, <2>2, Limits
  <2>3. CASE n # newest
    <3>1. /\ last'[dir'[n]] = last[dir[n]] /\ dir'[n] = dir[n] /\ last[dir[n]] \in Nat
          /\ dir[n] <= last[dir[n]] + 1 /\ last[dir[n]] <= count
          /\ last[dir[n]] - dir[n] + 1 <= cFileSizeLimit
      BY <1>2, <1>5, <2>3 DEF IInv, FilesInv
    <3> QED
      BY <1>2, <1>3, <2>1, <3>1
  <2> QED
    BY <2>2, <2>3
<1>8. ASSUME NEW a \in Names, NEW b \in Names, a < b
      PROVE  NonEmpty(a)' /\ last'[dir'[a]] < dir'[b]
  <2>1. a # newest
    <3>1. newest \in Nat /\ a \in Nat /\ b \in Nat
      BY <1>1, FileTypes DEF IInv
    <3> QED
      BY <1>1, <1>8, <3>1
  <2>2. NonEmpty(a) /\ last[dir[a]] < dir[b]
    BY <1>8 DEF IInv, FilesInv
  <2> QED
    BY <1>2, <1>5, <2>1, <2>2 DEF NonEmpty
<1>9. ASSUME NEW a \in Names
      PROVE  last'[dir'[a]] = count' \/ \E b \in Names : a < b /\ dir'[b] = last'[dir'[a]] + 1
  <2>1. CASE a = newest
    BY <1>1, <1>2, <1>4, <2>1
  <2>2. CASE a # newest
    <3>1. CASE last[dir[a]] = count
      <4>1. Current = count + 1
        BY <1>3, <1>5, <1>6, <2>2, <3>1
      <4> QED
        BY <1>1, <1>2, <1>5, <2>2, <3>1, <4>1
    <3>2. CASE last[dir[a]] # count
      BY <1>2, <1>5, <2>2, <3>2 DEF IInv, FilesInv
    <3> QED
      BY <3>1, <3>2
  <2> QED
    BY <2>1, <2>2
<1>10. FilesInv'
  BY <1>1, <1>2, <1>7, <1>8, <1>9 DEF FilesInv
<1>11. \A n \in Names : dir[n] <= Current
  BY <1>1, <1>3, FileTypes DEF IInv
<1> QED
  BY <1>2, <1>3, <1>4, <1>10, <1>11

(* So does a write, which appends to the newest file.                      *)
LEMMA WriteKeepsInv ==
  ASSUME IInv, WriteToFile \/ WriteToNewFile
  PROVE  /\ BackendTypeOK' /\ FilesInv' /\ TableInv' /\ NumeralInv' /\ StepInv'
         /\ Names' = Names /\ dir' = dir
         /\ UNCHANGED <<last, count>> \/ (AppendToFile /\ \A n \in Names : dir[n] <= Current)
<1>1. /\ UNCHANGED <<mLogFiles, mCurrentLogFileNumeral, dir, crashes, sorted>>
      /\ backend \in {"write", "ready"} /\ backend' \in {"shrink", "ready"}
      /\ Names' = Names /\ restoring' \in BOOLEAN
  BY DEF WriteToFile, WriteToNewFile, MovesTo, Names, IInv, BackendTypeOK
<1>2. TableInv'
  BY <1>1 DEF IInv, TableInv
<1>3. mLogFiles # << >> /\ \A i \in 1..Len(mLogFiles) : mLogFiles[i] < mCurrentLogFileNumeral
  BY <1>1 DEF IInv, StepInv, NumeralInv
<1>4. NumeralInv'
  BY <1>1, <1>3 DEF NumeralInv
<1>5. CASE backend' = "ready"
  <2>1. AppendToFile /\ count < MaxWrites /\ mFileSize + 1 <= cFileSizeLimit
    <3>1. CASE WriteToFile
      <4>1. ~(mFileSize + 1 > cFileSizeLimit) /\ AppendToFile /\ count < MaxWrites
        BY <1>5, <3>1 DEF WriteToFile
      <4>2. mFileSize \in Int
        BY <1>1, <1>3, TableFacts, FileTypes DEF IInv, mFileSize
      <4> QED
        BY <4>1, <4>2, Limits
    <3>2. CASE WriteToNewFile
      <4>1. AppendToFile /\ count < MaxWrites /\ last[Current] < Current
        BY <3>2 DEF WriteToNewFile, IInv, StepInv
      <4>2. Current \in Nat /\ last[Current] \in Nat
        BY <1>1, <1>3, TableFacts, FileTypes DEF IInv
      <4> QED
        BY <4>1, <4>2, Limits DEF mFileSize
    <3> QED
      BY <3>1, <3>2
  <2>2. /\ FilesInv' /\ last' \in [Ids -> 0..MaxWrites] /\ count' \in 0..MaxWrites
        /\ \A n \in Names : dir[n] <= Current
    BY <1>1, <2>1, AppendKeepsFiles
  <2>3. BackendTypeOK'
    BY <1>1, <1>5, <2>2 DEF IInv, BackendTypeOK
  <2> QED
    BY <1>1, <1>2, <1>3, <1>4, <1>5, <2>1, <2>2, <2>3 DEF StepInv
<1>6. CASE backend' = "shrink"
  <2>1. /\ UNCHANGED <<last, count>> /\ restoring' = FALSE /\ count < MaxWrites
        /\ mFileSize + 1 > cFileSizeLimit
    BY <1>6 DEF WriteToFile, WriteToNewFile, MovesTo, AppendToFile
  <2>2. FilesInv'
    BY <1>1, <2>1 DEF IInv, FilesInv, NonEmpty
  <2>3. \A n \in Names : NonEmpty(n)
    <3>1. /\ Current \in Nat /\ last[Current] \in Nat
          /\ \A n \in Names : NonEmpty(n) \/ dir[n] = Current
      BY <1>1, <1>3, TableFacts, FileTypes DEF IInv
    <3>2. Current <= last[Current]
      BY <2>1, <3>1, Limits DEF mFileSize
    <3> QED
      BY <3>1, <3>2 DEF NonEmpty
  <2>4. BackendTypeOK'
    BY <1>1, <1>6, <2>1 DEF IInv, BackendTypeOK
  <2>5. StepInv'
    BY <1>1, <1>3, <1>6, <2>1, <2>3 DEF StepInv, NonEmpty
  <2> QED
    BY <1>1, <1>2, <1>4, <2>1, <2>2, <2>4, <2>5
<1> QED
  BY <1>1, <1>5, <1>6

(* And a power cut, which leaves the files as they are.                    *)
LEMMA PowerCutKeepsInv ==
  ASSUME IInv, PowerCut
  PROVE  IInv'
<1>1. backend' = "off" /\ UNCHANGED <<dir, last, count>> /\ Names' = Names
  BY DEF PowerCut, diskVars, Names
<1>2. FilesInv' /\ Cardinality(Names') <= cMaxLogFiles /\ TableInv' /\ NumeralInv' /\ StepInv'
  BY <1>1 DEF IInv, FilesInv, NonEmpty, TableInv, NumeralInv, StepInv
<1>3. crashes' \in 0..MaxCrashes /\ sorted' \in BOOLEAN /\ mLogFiles' \in Seq(Numerals) /\ mCurrentLogFileNumeral' \in Numerals
  BY Limits DEF IInv, BackendTypeOK, PowerCut
<1>4. BackendTypeOK'
  BY <1>1, <1>3 DEF IInv, BackendTypeOK, PowerCut, diskVars
<1> QED
  BY <1>2, <1>4 DEF IInv

(* The invariant holds on an empty disk.                                   *)
LEMMA InvInit == BackendInit => IInv
<1> SUFFICES ASSUME BackendInit PROVE IInv
  OBVIOUS
<1>1. Names = {}
  BY DEF BackendInit, Names
<1>2. Cardinality(Names) <= cMaxLogFiles
  BY <1>1, FS_EmptySet, Limits
<1>3. BackendTypeOK
  <2>1. /\ 0 \in 0..MaxWrites /\ 0 \in 0..MaxCrashes /\ 0 \in Numerals
        /\ mLogFiles \in Seq(Numerals)
    BY Limits DEF BackendInit
  <2> QED
    BY <2>1 DEF BackendInit, BackendTypeOK
<1>4. FilesInv /\ TableInv /\ NumeralInv /\ StepInv
  BY <1>1 DEF BackendInit, FilesInv, TableInv, NumeralInv, StepInv
<1> QED
  BY <1>2, <1>3, <1>4 DEF IInv

-----------------------------------------------------------------------------
(* Every step of FSBackend keeps the invariant.                            *)
LEMMA StepKeepsInv ==
  ASSUME IInv, [BackendNext]_backendVars, sorted'
  PROVE  IInv'
<1>1. CASE Restore \/ ShrinkLogFiles \/ UpdateLogFileNumeral \/ CreateLogFile
           \/ WriteToFile \/ WriteToNewFile
  <2>0. Restore => NamesSorted
    BY DEF Restore
  <2>1. BackendTypeOK' /\ FilesInv' /\ TableInv' /\ NumeralInv' /\ StepInv'
    BY <1>1, <2>0, RestoreKeepsInv, ShrinkKeepsInv, RenumberKeepsInv, CreateKeepsInv, WriteKeepsInv
  <2>2. backend' # "off"
    BY <1>1 DEF Restore, ShrinkLogFiles, AfterShrink, MovesTo, UpdateLogFileNumeral, CreateLogFile,
                WriteToFile, WriteToNewFile
  <2>3. (BackendTypeOK /\ TableInv /\ backend # "off" => Cardinality(Names) <= cMaxLogFiles)'
    BY TableSize, PTL
  <2> QED
    BY <2>1, <2>2, <2>3 DEF IInv
<1>2. CASE NumeralsUpdated \/ RotationFails \/ UNCHANGED backendVars
  BY <1>2, QuietStepKeepsInv
<1>3. CASE PowerCut
  BY <1>3, PowerCutKeepsInv
<1> QED
  BY <1>1, <1>2, <1>3 DEF BackendNext, Rotation

-----------------------------------------------------------------------------
(* In whatever order the names sort.                                       *)

(* A step ends a file where it did, or where the log does.                 *)
LEMMA EndsOfFiles ==
  ASSUME WeakInv, [BackendNext]_backendVars, count' \in Nat
  PROVE  \A id \in Ids : last[id] \in Nat /\ last'[id] \in Nat
                         /\ last[id] <= last'[id] /\ last'[id] <= count'
<1> SUFFICES ASSUME NEW id \in Ids
             PROVE  last[id] \in Nat /\ last'[id] \in Nat
                    /\ last[id] <= last'[id] /\ last'[id] <= count'
  OBVIOUS
<1>1. count \in Nat /\ last[id] \in Nat /\ last[id] <= count /\ last \in [Ids -> 0..MaxWrites]
  BY Limits DEF WeakInv, BackendTypeOK
<1>2. \/ last' = last /\ count' = count
      \/ \E i \in Ids \union {count + 1} : last' = [last EXCEPT ![i] = count] /\ count' = count
      \/ AppendToFile
  BY DEF BackendNext, Restore, Rotation, RotationFails, WriteToFile, WriteToNewFile, PowerCut,
         ShrinkLogFiles, UpdateLogFileNumeral, NumeralsUpdated, CreateLogFile, MovesTo,
         diskVars, backendVars
<1>3. ASSUME AppendToFile
      PROVE  count' = count + 1 /\ (last'[id] = last[id] \/ last'[id] = count + 1)
  BY <1>1, <1>3 DEF AppendToFile
<1>4. ASSUME NEW i, last' = [last EXCEPT ![i] = count]
      PROVE  last'[id] = last[id] \/ last'[id] = count
  BY <1>1, <1>4
<1> QED
  BY <1>1, <1>2, <1>3, <1>4

(* Init on files in any order, up to its end.                              *)
LEMMA RestoreKeepsWeak ==
  ASSUME WeakInv, Restore
  PROVE  BackendTypeOK' /\ LogIsBounded' /\ UnsortedInv' /\ UNCHANGED <<last, count>>
<1>1. ~(Cardinality(Names) > cMaxLogFiles) /\ Cardinality(Names) <= cMaxLogFiles
  BY NamesAreNumerals, Limits DEF WeakInv, LogIsBounded
<1>2. /\ mLogFiles' \in Listings(Names)
      /\ mCurrentLogFileNumeral' \in {n \in Numerals :
           IF Names = {} THEN n = 0 ELSE n \in Names /\ \A m \in Names : m <= n}
      /\ UNCHANGED <<dir, last, count, crashes>>
      /\ backend' = "shrink" /\ restoring' = TRUE
      /\ sorted' = (sorted /\ NamesSorted)
  BY <1>1 DEF Restore
<1>3. /\ mLogFiles' \in Seq(Names) /\ mLogFiles' \in Seq(Numerals)
      /\ Len(mLogFiles') = Cardinality(Names)
      /\ \A n \in Names : \E i \in 1..Len(mLogFiles') : mLogFiles'[i] = n
  BY <1>2, ListingIsComplete
<1>4. Names' = Names
  BY <1>2 DEF Names
<1>5. sorted' \in BOOLEAN
  BY <1>2
<1>6. BackendTypeOK'
  BY <1>2, <1>3, <1>5 DEF WeakInv, BackendTypeOK
<1>7. LogIsBounded'
  BY <1>2, <1>4 DEF WeakInv, LogIsBounded
<1>8. mLogFiles' = << >> => mCurrentLogFileNumeral' = 0
  <2>1. mLogFiles' = << >> => Names = {}
    BY <1>3
  <2> QED
    BY <1>2, <2>1
<1> QED
  BY <1>1, <1>2, <1>3, <1>4, <1>6, <1>7, <1>8 DEF UnsortedInv

LEMMA ShrinkKeepsWeak ==
  ASSUME WeakInv, ~sorted, ShrinkLogFiles
  PROVE  BackendTypeOK' /\ LogIsBounded' /\ UnsortedInv'
<1>1. /\ backend = "shrink" /\ restoring /\ restoring' = restoring
      /\ UNCHANGED <<last, count, crashes, sorted>>
  BY DEF ShrinkLogFiles, AfterShrink, MovesTo, WeakInv, UnsortedInv
<1>2. /\ mLogFiles \in Seq(Numerals) /\ Len(mLogFiles) <= cMaxLogFiles /\ Len(mLogFiles) \in Nat
      /\ \A n \in Names : \E i \in 1..Len(mLogFiles) : mLogFiles[i] = n
      /\ mLogFiles = << >> => mCurrentLogFileNumeral = 0
  BY <1>1 DEF WeakInv, BackendTypeOK, UnsortedInv
<1>3. \/ /\ backend' = "renumber" /\ mCurrentLogFileNumeral' = 0
      \/ /\ backend' = "create" /\ mCurrentLogFileNumeral' = mCurrentLogFileNumeral
         /\ mLogFiles = << >>
  BY <1>1 DEF ShrinkLogFiles, AfterShrink, MovesTo
<1>4. CASE ~IsFull
  <2>1. UNCHANGED <<dir, mLogFiles>> /\ Names' = Names
    BY <1>4 DEF ShrinkLogFiles, Names
  <2>2. BackendTypeOK'
    BY <1>1, <1>3, <2>1, Limits DEF WeakInv, BackendTypeOK
  <2>3. LogIsBounded'
    BY <1>1, <2>1 DEF WeakInv, LogIsBounded
  <2> QED
    BY <1>1, <1>2, <1>3, <2>1, <2>2, <2>3 DEF UnsortedInv
<1>5. CASE IsFull
  <2>1. /\ Len(mLogFiles) = cMaxLogFiles /\ mLogFiles # << >> /\ mLogFiles' = Tail(mLogFiles)
        /\ dir' = [dir EXCEPT ![mLogFiles[1]] = 0] /\ mLogFiles[1] \in Numerals
    BY <1>2, <1>5, Limits DEF IsFull, ShrinkLogFiles
  <2>2. /\ mLogFiles' \in Seq(Numerals) /\ Len(mLogFiles') = Len(mLogFiles) - 1
        /\ \A i \in 1..Len(mLogFiles') : mLogFiles'[i] = mLogFiles[i + 1]
    BY <1>2, <2>1
  <2>3. dir' \in [Numerals -> Ids \union {0}]
    BY <2>1 DEF WeakInv, BackendTypeOK
  <2>4. Names' = Names \ {mLogFiles[1]} /\ \A n \in Names' : dir'[n] = dir[n]
    BY <2>1 DEF WeakInv, BackendTypeOK, Names
  <2>5. ASSUME NEW n \in Names'
        PROVE  \E i \in 1..Len(mLogFiles') : mLogFiles'[i] = n
    <3>1. n \in Names /\ n # mLogFiles[1]
      BY <2>4
    <3>2. PICK j \in 1..Len(mLogFiles) : mLogFiles[j] = n
      BY <1>2, <3>1
    <3>3. j # 1 /\ j - 1 \in 1..Len(mLogFiles') /\ (j - 1) + 1 = j
      BY <1>2, <2>2, <3>1, <3>2
    <3>4. mLogFiles'[j - 1] = mLogFiles[(j - 1) + 1]
      BY <2>2, <3>3
    <3> QED
      BY <3>2, <3>3, <3>4
  <2>6. Len(mLogFiles') \in Nat /\ Len(mLogFiles') <= cMaxLogFiles
    BY <1>2, <2>1, <2>2, Limits
  <2>7. backend' = "renumber" /\ mCurrentLogFileNumeral' = 0
    BY <1>3, <2>1
  <2>8. BackendTypeOK'
    BY <1>1, <2>2, <2>3, <2>7, Limits DEF WeakInv, BackendTypeOK
  <2>9. Cardinality(Names') <= Len(mLogFiles') /\ Cardinality(Names') <= cMaxLogFiles
    <3>1. Cardinality(Names') <= Len(mLogFiles')
      BY <2>5, <2>6, ListedAtLeastOnce
    <3>2. Cardinality(Names') \in Nat
      BY <2>5, <2>6, ListedAtLeastOnce, FS_CardinalityType
    <3> QED
      BY <2>6, <3>1, <3>2, Limits
  <2>10. LogIsBounded'
    BY <1>1, <2>4, <2>9 DEF WeakInv, LogIsBounded
  <2> QED
    BY <1>1, <2>5, <2>6, <2>7, <2>8, <2>10 DEF UnsortedInv
<1> QED
  BY <1>4, <1>5

LEMMA RenumberKeepsWeak ==
  ASSUME WeakInv, ~sorted, UpdateLogFileNumeral
  PROVE  BackendTypeOK' /\ LogIsBounded' /\ UnsortedInv'
<1> DEFINE len == Len(mLogFiles)
           i == mCurrentLogFileNumeral + 1
           from == mLogFiles[i]
           to == mCurrentLogFileNumeral
<1>1. /\ backend = "renumber" /\ restoring
      /\ UNCHANGED <<backend, restoring, last, count, crashes, sorted>>
      /\ mLogFiles \in Seq(Numerals) /\ len \in Nat /\ len <= cMaxLogFiles
      /\ \A n \in Names : \E j \in 1..len : mLogFiles[j] = n
      /\ to \in Nat /\ i \in 1..len
      /\ mLogFiles' = [mLogFiles EXCEPT ![i] = to] /\ mCurrentLogFileNumeral' = i
      /\ dir' = [n \in Numerals |-> IF n = to THEN dir[from] ELSE IF n = from THEN 0 ELSE dir[n]]
  BY Limits DEF WeakInv, BackendTypeOK, UnsortedInv, UpdateLogFileNumeral, Rename
<1>2. to \in Numerals /\ i \in Numerals /\ from \in Numerals
  BY <1>1, Limits DEF Numerals
<1>3. /\ mLogFiles' \in Seq(Numerals) /\ Len(mLogFiles') = len /\ mLogFiles'[i] = to
      /\ \A j \in 1..len : j # i => mLogFiles'[j] = mLogFiles[j]
  BY <1>1, <1>2
<1>4. dir' \in [Numerals -> Ids \union {0}]
  BY <1>1, <1>2 DEF WeakInv, BackendTypeOK
<1>5. BackendTypeOK'
  BY <1>1, <1>2, <1>3, <1>4 DEF WeakInv, BackendTypeOK
<1>6. \A n \in Names' : /\ n = to \/ (n \in Names /\ n # from)
                        /\ \E m \in Names : dir'[n] = dir[m]
  <2> SUFFICES ASSUME NEW n \in Names'
               PROVE  /\ n = to \/ (n \in Names /\ n # from)
                      /\ \E m \in Names : dir'[n] = dir[m]
    OBVIOUS
  <2>1. n \in Numerals /\ dir'[n] # 0
    BY DEF Names
  <2>2. CASE n = to
    BY <1>1, <1>2, <2>1, <2>2 DEF Names
  <2>3. CASE n # to
    BY <1>1, <2>1, <2>3 DEF Names
  <2> QED
    BY <2>2, <2>3
<1>7. ASSUME NEW n \in Names'
      PROVE  \E j \in 1..Len(mLogFiles') : mLogFiles'[j] = n
  <2>1. CASE n = to
    BY <1>1, <1>3, <2>1
  <2>2. CASE n # to
    <3>1. PICK j \in 1..len : mLogFiles[j] = n
      BY <1>1, <1>6, <2>2
    <3>2. j # i
      BY <1>6, <2>2, <3>1
    <3> QED
      BY <1>3, <3>1, <3>2
  <2> QED
    BY <2>1, <2>2
<1>8. Cardinality(Names') <= cMaxLogFiles
  <2>1. Len(mLogFiles') \in Nat
    BY <1>1, <1>3
  <2>2. IsFiniteSet(Names') /\ Cardinality(Names') <= Len(mLogFiles')
    BY <1>7, <2>1, ListedAtLeastOnce
  <2>3. Cardinality(Names') \in Nat
    BY <2>2, FS_CardinalityType
  <2> QED
    BY <1>1, <1>3, <2>2, <2>3, Limits
<1>9. LogIsBounded'
  BY <1>1, <1>6, <1>8 DEF WeakInv, LogIsBounded
<1> QED
  BY <1>1, <1>3, <1>5, <1>7, <1>9 DEF UnsortedInv

LEMMA CreateKeepsWeak ==
  ASSUME WeakInv, ~sorted, CreateLogFile
  PROVE  BackendTypeOK' /\ LogIsBounded' /\ UnsortedInv'
<1>1. /\ backend = "create" /\ restoring /\ restoring' = restoring /\ backend' = "ready"
      /\ UNCHANGED <<count, crashes, sorted>>
      /\ mLogFiles = << >> /\ mCurrentLogFileNumeral = 0 /\ Names = {}
  <2>1. mLogFiles = << >> /\ backend = "create" /\ restoring
    BY DEF CreateLogFile, WeakInv, UnsortedInv
  <2>2. Len(mLogFiles) = 0
    BY <2>1
  <2>3. mCurrentLogFileNumeral = 0 /\ \A n \in Names : \E i \in 1..Len(mLogFiles) : mLogFiles[i] = n
    BY <2>1 DEF WeakInv, UnsortedInv
  <2>4. Names = {}
    BY <2>2, <2>3
  <2> QED
    BY <2>1, <2>3, <2>4 DEF CreateLogFile, MovesTo
<1>2. mLogFiles' = <<0>> /\ mCurrentLogFileNumeral' = 1 /\ 0 \in Numerals /\ 1 \in Numerals
  BY <1>1, Limits DEF CreateLogFile, Numerals
<1>3. /\ mLogFiles' \in Seq(Numerals) /\ Len(mLogFiles') = 1 /\ mLogFiles'[1] = 0
  BY <1>2
<1>4. dir[0] = 0
  BY <1>1, <1>2 DEF Names
<1>5. /\ count \in Nat /\ count + 1 \in Ids /\ count \in 0..MaxWrites
  BY Limits DEF WeakInv, BackendTypeOK, Ids
<1>6. /\ dir' = [dir EXCEPT ![0] = count + 1]
      /\ last' = [last EXCEPT ![count + 1] = count]
  BY <1>1, <1>4 DEF CreateLogFile
<1>7. /\ dir' \in [Numerals -> Ids \union {0}] /\ last' \in [Ids -> 0..MaxWrites]
      /\ dir'[0] = count + 1 /\ last'[count + 1] = count
      /\ \A n \in Numerals : n # 0 => dir'[n] = dir[n]
  BY <1>2, <1>5, <1>6 DEF WeakInv, BackendTypeOK
<1>8. Names' = {0}
  BY <1>1, <1>2, <1>5, <1>7 DEF Names
<1>9. BackendTypeOK'
  BY <1>1, <1>2, <1>3, <1>7 DEF WeakInv, BackendTypeOK
<1>10. LogIsBounded'
  <2>1. Cardinality(Names') = 1
    BY <1>8, FS_Singleton
  <2> QED
    BY <1>5, <1>7, <1>8, <2>1, Limits DEF LogIsBounded
<1> QED
  BY <1>1, <1>3, <1>8, <1>9, <1>10, Limits DEF UnsortedInv

LEMMA QuietStepKeepsWeak ==
  ASSUME WeakInv, ~sorted, NumeralsUpdated \/ PowerCut \/ UNCHANGED backendVars
  PROVE  BackendTypeOK' /\ LogIsBounded' /\ UnsortedInv'
<1>1. UNCHANGED <<dir, last, count, sorted>> /\ Names' = Names
  BY DEF NumeralsUpdated, PowerCut, backendVars, diskVars, Names
<1>2. LogIsBounded'
  BY <1>1 DEF WeakInv, LogIsBounded
<1>3. CASE PowerCut
  <2>1. crashes' \in 0..MaxCrashes /\ mLogFiles' \in Seq(Numerals) /\ mCurrentLogFileNumeral' \in Numerals
        /\ backend' = "off" /\ restoring' = TRUE
    BY <1>3, Limits DEF WeakInv, BackendTypeOK, PowerCut
  <2> QED
    BY <1>1, <1>2, <2>1 DEF WeakInv, BackendTypeOK, UnsortedInv
<1>4. CASE NumeralsUpdated
  <2>1. /\ backend = "renumber" /\ backend' = "ready" /\ restoring' = restoring
        /\ UNCHANGED <<mLogFiles, mCurrentLogFileNumeral, crashes>>
    BY <1>4 DEF NumeralsUpdated, MovesTo, WeakInv, UnsortedInv
  <2> QED
    BY <1>1, <1>2, <2>1 DEF WeakInv, BackendTypeOK, UnsortedInv
<1>5. CASE UNCHANGED backendVars
  BY <1>1, <1>2, <1>5 DEF WeakInv, BackendTypeOK, UnsortedInv, backendVars, memVars
<1> QED
  BY <1>3, <1>4, <1>5

(* Every step of FSBackend keeps what holds in any order, and the rest as  *)
(* long as the names sort.                                                 *)
LEMMA BackendKeepsInv ==
  ASSUME BackendInv, [BackendNext]_backendVars
  PROVE  BackendInv'
<1>1. WeakInv /\ (sorted => IInv)
  BY DEF BackendInv
<1>2. CASE sorted'
  <2>1. sorted
    BY <1>2 DEF BackendNext, Restore, Rotation, RotationFails, WriteToFile, WriteToNewFile,
                PowerCut, ShrinkLogFiles, UpdateLogFileNumeral, NumeralsUpdated, CreateLogFile,
                backendVars
  <2>2. IInv'
    BY <1>1, <1>2, <2>1, StepKeepsInv
  <2>3. BackendTypeOK' /\ LogIsBounded'
    <3>1. (IInv => LogIsBounded)'
      BY InvImplies, PTL
    <3> QED
      BY <2>2, <3>1 DEF IInv
  <2>4. count' \in Nat
    BY <2>3, Limits DEF BackendTypeOK
  <2> QED
    BY <1>1, <1>2, <2>2, <2>3, <2>4, EndsOfFiles DEF BackendInv, WeakInv
<1>3. CASE ~sorted'
  <2>1. BackendTypeOK' /\ LogIsBounded' /\ UnsortedInv'
    <3>1. CASE Restore
      BY <1>1, <3>1, RestoreKeepsWeak
    <3>2. CASE ~Restore
      <4>1. ~sorted
        BY <1>3, <3>2 DEF BackendNext, Rotation, RotationFails, WriteToFile, WriteToNewFile,
                PowerCut, ShrinkLogFiles, UpdateLogFileNumeral, NumeralsUpdated, CreateLogFile,
                backendVars
      <4>2. ~RotationFails /\ ~WriteToFile /\ ~WriteToNewFile
        BY <1>1, <4>1 DEF WeakInv, UnsortedInv, RotationFails, WriteToFile, WriteToNewFile
      <4> QED
        BY <1>1, <3>2, <4>1, <4>2, ShrinkKeepsWeak, RenumberKeepsWeak, CreateKeepsWeak,
           QuietStepKeepsWeak DEF BackendNext, Rotation
    <3> QED
      BY <3>1, <3>2
  <2>2. count' \in Nat
    BY <2>1, Limits DEF BackendTypeOK
  <2> QED
    BY <1>1, <1>3, <2>1, <2>2, EndsOfFiles DEF BackendInv, WeakInv
<1> QED
  BY <1>2, <1>3

LEMMA BackendInvInit == BackendInit => BackendInv
<1> SUFFICES ASSUME BackendInit PROVE BackendInv
  OBVIOUS
<1>1. IInv /\ sorted = TRUE
  BY InvInit DEF BackendInit
<1>2. LogIsBounded
  BY <1>1, InvImplies
<1>3. \A id \in Ids : last[id] <= count
  BY DEF BackendInit
<1> QED
  BY <1>1, <1>2, <1>3 DEF BackendInv, WeakInv, IInv

(* A step of the composition is one of FSBackend or leaves it alone.       *)
LEMMA StepRunsBackend == [Next]_vars => [BackendNext]_backendVars
<1> SUFFICES ASSUME [Next]_vars PROVE [BackendNext]_backendVars
  OBVIOUS
<1>1. CASE BackendStep \/ NodeDown
  BY <1>1 DEF BackendStep, NodeDown, BackendNext
<1>2. CASE Start \/ Stop \/ Join \/ Subscribe \/ Unsubscribe \/ (\E r \in Requests : GetLog(r))
  BY <1>2 DEF Start, Stop, Join, Subscribe, Unsubscribe, GetLog
<1>3. CASE ProviderThread
  BY <1>3
  DEF ProviderThread, Exit, BeginRequest, OpenFile, SkipEntry, TakeEntry, SendFullChunk,
      SendFullChunkFails, SendLastChunk, SendLastChunkFails, SendFinalChunk,
      SendFinalChunkFails, SendErrorLog, SendFails, RequestDone, ThreadGoes
<1>4. CASE UNCHANGED vars
  BY <1>4 DEF vars
<1> QED
  BY <1>1, <1>2, <1>3, <1>4 DEF Next

(* The variables of FSBackend move as FSBackend alone moves them, whatever *)
(* LogProvider and its reader do at the same time.                         *)
THEOREM ProviderRunsBackend == Spec => BackendSpec
<1>1. Init => BackendInit
  BY DEF Init
<1>2. [Next]_vars => [BackendNext]_backendVars
  BY StepRunsBackend
<1> QED
  BY <1>1, <1>2, PTL DEF Spec, BackendSpec

(* The log on the disk is the end of what was logged, for every number of  *)
(* files and base of the numerals, in every state of a node whose starts   *)
(* have found names that sort as their numerals.                           *)
THEOREM LogIsAlwaysSuffix == Spec => []LogIsSuffix
<1>1. BackendInv => LogIsSuffix
  BY InvImplies DEF BackendInv, LogIsSuffix
<1>2. BackendInv /\ [BackendNext]_backendVars => BackendInv'
  BY BackendKeepsInv
<1> QED
  BY <1>1, <1>2, BackendInvInit, ProviderRunsBackend, PTL DEF BackendSpec

(* It never takes more room than its limits say, in whatever order a start *)
(* finds the names.                                                        *)
THEOREM LogIsAlwaysBounded == Spec => []LogIsBounded
<1>1. BackendInv => LogIsBounded
  BY DEF BackendInv, WeakInv
<1>2. BackendInv /\ [BackendNext]_backendVars => BackendInv'
  BY BackendKeepsInv
<1> QED
  BY <1>1, <1>2, BackendInvInit, ProviderRunsBackend, PTL DEF BackendSpec

-----------------------------------------------------------------------------
(* The reader.  What is still to be opened is newer than what was read:    *)
(* renaming only moves newer files to the names behind those opened, new   *)
(* files are the newest, and a file that was removed grows no more.        *)
OnDisk(id) == \E n \in Names : dir[n] = id

ReaderInv ==
  /\ toRead \in Seq(Numerals)
  /\ \A i, j \in 1..Len(toRead) : i < j => toRead[i] < toRead[j]
  /\ readFD \in Ids \union {0} /\ readPos \in Nat /\ entry \in Nat /\ entry <= count
  /\ \A id \in Ids : last[id] <= count
  /\ readFD # 0 => entry < readPos /\ (OnDisk(readFD) \/ readFD <= last[readFD])
  /\ \A i \in 1..Len(toRead) : \A n \in Names :
       toRead[i] <= n => /\ entry < dir[n]
                         /\ readFD # 0 => readFD < dir[n] /\ last[readFD] < dir[n]

(* Steps after which every file is where it was, or under a lower numeral, *)
(* or removed.                                                             *)
LEMMA MovedFilesKeepReader ==
  ASSUME BackendTypeOK, ReaderInv, UNCHANGED <<toRead, readFD, readPos, entry, last, count>>,
         Names' \subseteq Nat,
         \A n \in Names' : \E m \in Names : n <= m /\ dir'[n] = dir[m],
         \A m \in Names : (\E n \in Names' : dir'[n] = dir[m]) \/ NonEmpty(m)
  PROVE  ReaderInv'
<1>1. readFD # 0 => OnDisk(readFD)' \/ readFD <= last[readFD]
  BY DEF ReaderInv, OnDisk, NonEmpty
<1>2. ASSUME NEW i \in 1..Len(toRead), NEW n \in Names', toRead[i] <= n
      PROVE  entry < dir'[n] /\ (readFD # 0 => readFD < dir'[n] /\ last[readFD] < dir'[n])
  <2>1. PICK m \in Names : n <= m /\ dir'[n] = dir[m]
    OBVIOUS
  <2>2. toRead[i] \in Nat /\ n \in Nat /\ m \in Nat
    <3>1. toRead[i] \in Numerals
      BY DEF ReaderInv
    <3>2. m \in Nat
      BY NamesAreNumerals
    <3> QED
      BY <3>1, <3>2, Limits
  <2>3. toRead[i] <= m
    BY <1>2, <2>1, <2>2
  <2> QED
    BY <2>1, <2>3 DEF ReaderInv
<1> QED
  BY <1>1, <1>2 DEF ReaderInv

(* FSBackend does not disturb a reader: files are renamed to smaller       *)
(* numerals, in their order, and an open file survives its removal.        *)
LEMMA BackendKeepsReader ==
  ASSUME IInv, ReaderInv, BackendStep
  PROVE  ReaderInv'
<1>0. UNCHANGED <<toRead, readFD, readPos, entry>>
  BY DEF BackendStep, WatchRotation
<1>1. Names' \subseteq Nat
  <2>1. (Names \subseteq Nat)'
    BY NamesAreNumerals, PTL
  <2> QED
    BY <2>1
<1>2. BackendTypeOK /\ \A n \in Names : n \in Nat
  BY FileTypes DEF IInv
<1>3. CASE Restore \/ NumeralsUpdated \/ RotationFails
  <2>1. UNCHANGED <<dir, last, count>> /\ Names' = Names
    <3>1. ~(Cardinality(Names) > cMaxLogFiles)
      BY NamesAreNumerals, Limits DEF IInv
    <3> QED
      BY <1>3, <3>1 DEF Restore, NumeralsUpdated, RotationFails, MovesTo, diskVars, Names
  <2> QED
    BY <1>0, <1>1, <1>2, <2>1, MovedFilesKeepReader
<1>4. CASE ShrinkLogFiles
  <2>1. UNCHANGED <<last, count>>
    BY <1>4 DEF ShrinkLogFiles
  <2>2. \A n \in Names' : \E m \in Names : n <= m /\ dir'[n] = dir[m]
    BY <1>1, <1>4, ShrinkKeepsFiles
  <2>3. \A m \in Names : (\E n \in Names' : dir'[n] = dir[m]) \/ NonEmpty(m)
    <3>1. CASE IsFull
      <4>1. /\ Len(mLogFiles) = cMaxLogFiles /\ Names' = Names \ {mLogFiles[1]}
            /\ \A n \in Names' : dir'[n] = dir[n] /\ mLogFiles[1] < n
            /\ mLogFiles[1] \in Names
        BY <1>4, <3>1, ShrinkTakesOldest
      <4>2. mLogFiles[2] \in Names /\ mLogFiles[1] < mLogFiles[2]
        <5>1. 1 \in 1..Len(mLogFiles) /\ 2 \in 1..Len(mLogFiles) /\ backend # "off"
          BY <1>4, <4>1, Limits DEF ShrinkLogFiles
        <5> QED
          BY <5>1, TableFacts DEF IInv, TableInv
      <4>3. NonEmpty(mLogFiles[1])
        BY <4>1, <4>2 DEF IInv, FilesInv
      <4> QED
        BY <4>1, <4>3
    <3>2. CASE ~IsFull
      BY <1>4, <3>2 DEF ShrinkLogFiles, Names
    <3> QED
      BY <3>1, <3>2
  <2> QED
    BY <1>0, <1>1, <1>2, <2>1, <2>2, <2>3, MovedFilesKeepReader
<1>5. CASE UpdateLogFileNumeral
  <2>1. UNCHANGED <<last, count>>
    BY <1>5 DEF UpdateLogFileNumeral
  <2> QED
    BY <1>0, <1>1, <1>2, <1>5, <2>1, RenumberKeepsInv, MovedFilesKeepReader
<1>6. CASE CreateLogFile
  <2> DEFINE new == mCurrentLogFileNumeral
  <2>1. /\ Names' = Names \union {new} /\ dir'[new] = count + 1
        /\ \A n \in Names : dir'[n] = dir[n] /\ dir[n] < count + 1
        /\ count' = count /\ last' = [last EXCEPT ![count + 1] = count]
    BY <1>6, CreateKeepsInv
  <2>2. count \in Nat /\ count + 1 \in Ids /\ \A id \in Ids : id \in Nat /\ last[id] \in Nat
    BY Limits DEF IInv, BackendTypeOK, Ids
  <2>3. readFD # 0 => readFD \in Ids /\ readFD < count + 1
    BY <2>1, <2>2 DEF ReaderInv, OnDisk
  <2>4. \A id \in Ids : id # count + 1 => last'[id] = last[id]
    BY <2>1, <2>2 DEF IInv, BackendTypeOK
  <2>5. readFD # 0 => last'[readFD] = last[readFD]
    BY <2>2, <2>3, <2>4
  <2>6. \A id \in Ids : last'[id] <= count'
    BY <2>1, <2>2, <2>4 DEF ReaderInv, IInv, BackendTypeOK
  <2>7. readFD # 0 => OnDisk(readFD)' \/ readFD <= last'[readFD]
    <3>1. OnDisk(readFD) => OnDisk(readFD)'
      <4>1. ASSUME NEW n \in Names, dir[n] = readFD PROVE n \in Names' /\ dir'[n] = readFD'
        BY <1>0, <2>1, <4>1
      <4> QED
        BY <4>1 DEF OnDisk
    <3> QED
      BY <2>5, <3>1 DEF ReaderInv
  <2>8. ASSUME NEW i \in 1..Len(toRead), NEW n \in Names', toRead[i] <= n
        PROVE  entry < dir'[n] /\ (readFD # 0 => readFD < dir'[n] /\ last'[readFD] < dir'[n])
    <3>1. CASE n = new
      BY <2>1, <2>2, <2>3, <2>5, <3>1 DEF ReaderInv
    <3>2. CASE n \in Names
      BY <2>1, <2>5, <2>8, <3>2 DEF ReaderInv
    <3> QED
      BY <2>1, <3>1, <3>2
  <2> QED
    BY <1>0, <2>1, <2>6, <2>7, <2>8 DEF ReaderInv
<1>7. CASE WriteToFile \/ WriteToNewFile
  <2>1. /\ Names' = Names /\ dir' = dir
        /\ UNCHANGED <<last, count>> \/ (AppendToFile /\ \A n \in Names : dir[n] <= Current)
    BY <1>7, WriteKeepsInv
  <2>2. CASE UNCHANGED <<last, count>>
    BY <1>0, <1>1, <1>2, <2>1, <2>2, MovedFilesKeepReader
  <2>3. CASE AppendToFile /\ \A n \in Names : dir[n] <= Current
    <3>1. count' = count + 1 /\ last' = [last EXCEPT ![Current] = count + 1]
      BY <2>3 DEF AppendToFile
    <3>2. count \in Nat /\ \A id \in Ids : id \in Nat /\ last[id] \in Nat
      BY Limits DEF IInv, BackendTypeOK, Ids
    <3>3. \A id \in Ids : last'[id] = (IF id = Current THEN count + 1 ELSE last[id])
      BY <3>1 DEF IInv, BackendTypeOK
    <3>4. \A id \in Ids : last'[id] <= count' /\ last[id] <= last'[id]
      BY <3>1, <3>2, <3>3 DEF ReaderInv
    <3>5. readFD # 0 => readFD \in Ids /\ (OnDisk(readFD)' \/ readFD <= last'[readFD])
      <4>1. OnDisk(readFD) => OnDisk(readFD)'
        BY <1>0, <2>1 DEF OnDisk
      <4>2. readFD # 0 => readFD \in Ids
        BY DEF ReaderInv
      <4>3. readFD \in Ids => last'[readFD] \in Nat
        BY <3>1, <3>2, <3>3
      <4>4. readFD # 0 /\ readFD <= last[readFD] => readFD <= last'[readFD]
        BY <3>2, <3>4, <4>2, <4>3
      <4> QED
        BY <4>1, <4>2, <4>4 DEF ReaderInv
    <3>6. ASSUME NEW i \in 1..Len(toRead), NEW n \in Names', toRead[i] <= n
          PROVE  entry < dir'[n] /\ (readFD # 0 => readFD < dir'[n] /\ last'[readFD] < dir'[n])
      <4>1. entry < dir[n] /\ (readFD # 0 => readFD < dir[n] /\ last[readFD] < dir[n])
        BY <2>1, <3>6 DEF ReaderInv
      <4>2. readFD # 0 => readFD # Current
        <5>1. dir[n] <= Current /\ dir[n] \in Nat
          BY <2>1, <2>3, FileTypes DEF IInv
        <5> QED
          BY <3>2, <3>5, <4>1, <5>1
      <4> QED
        BY <2>1, <3>3, <3>5, <4>1, <4>2
    <3> QED
      BY <1>0, <2>1, <3>1, <3>2, <3>4, <3>5, <3>6 DEF ReaderInv
  <2> QED
    BY <2>1, <2>2, <2>3
<1> QED
  BY <1>3, <1>4, <1>5, <1>6, <1>7 DEF BackendStep, Rotation

(* A pass begins.                                                          *)
LEMMA ResetKeepsReader ==
  ASSUME IInv, \A id \in Ids : last[id] <= count, NamesSorted, Reset, UNCHANGED backendVars
  PROVE  ReaderInv'
<1>1. /\ toRead' \in Seq(Numerals) /\ Len(toRead') = Cardinality(Names)
      /\ \A i, j \in 1..Cardinality(Names) : i < j => toRead'[i] < toRead'[j]
  BY ListingIsComplete, ListingIsSorted DEF Reset
<1>2. Names' = Names /\ UNCHANGED <<dir, last, count>>
  BY DEF backendVars, diskVars, Names
<1>3. readFD' = 0 /\ readPos' = 0 /\ entry' = 0
  BY DEF Reset
<1>4. \A n \in Names : 0 < dir[n]
  BY FileTypes DEF IInv, Ids
<1>5. count \in Nat
  BY FileTypes DEF IInv
<1> QED
  BY <1>1, <1>2, <1>3, <1>4, <1>5 DEF ReaderInv

(* The next file is opened, and it is newer than the one that was closed,  *)
(* or passed over when it is gone.                                         *)
LEMMA OpenKeepsReader ==
  ASSUME IInv, ReaderInv, OpenNextFile, UNCHANGED backendVars
  PROVE  ReaderInv'
<1> DEFINE h == toRead[1]
<1>1. /\ readFD = 0 /\ toRead # << >> /\ h \in Numerals
      /\ readFD' = dir[h] /\ readPos' = dir[h] /\ toRead' = Tail(toRead) /\ entry' = entry
  BY DEF OpenNextFile, ReaderInv
<1>2. /\ toRead' \in Seq(Numerals) /\ Len(toRead') = Len(toRead) - 1 /\ Len(toRead) \in Nat
      /\ \A i \in 1..Len(toRead') : toRead'[i] = toRead[i + 1] /\ toRead[i + 1] \in Numerals
  BY <1>1 DEF ReaderInv
<1>3. Names' = Names /\ UNCHANGED <<dir, last, count>>
  BY DEF backendVars, diskVars, Names
<1>4. \A i \in 1..Len(toRead') : h < toRead'[i]
  BY <1>1, <1>2 DEF ReaderInv
<1>5. \A i, j \in 1..Len(toRead') : i < j => toRead'[i] < toRead'[j]
  BY <1>2 DEF ReaderInv
<1>6. dir[h] \in Ids \union {0} /\ dir[h] \in Nat
  <2>1. dir[h] \in Ids \union {0}
    BY <1>1 DEF IInv, BackendTypeOK
  <2> QED
    BY <2>1, Limits DEF Ids
<1>7. readFD' # 0 => entry < readPos' /\ OnDisk(readFD)'
  <2>1. readFD' # 0 => h \in Names
    BY <1>1 DEF Names
  <2>2. h \in Names => entry < dir[h]
    <3>1. 1 \in 1..Len(toRead) /\ h \in Nat /\ h <= h
      <4>1. Len(toRead) # 0
        BY <1>1 DEF ReaderInv
      <4>2. h \in Nat
        BY <1>1, Limits
      <4> QED
        BY <1>2, <4>1, <4>2
    <3> QED
      BY <3>1 DEF ReaderInv
  <2> QED
    BY <1>1, <1>3, <2>1, <2>2 DEF OnDisk
<1>8. ASSUME NEW i \in 1..Len(toRead'), NEW n \in Names, toRead'[i] <= n
      PROVE  entry < dir[n] /\ (readFD' # 0 => readFD' < dir[n] /\ last[readFD'] < dir[n])
  <2>1. toRead'[i] \in Nat /\ h \in Nat /\ n \in Nat /\ h < n
    <3>1. toRead'[i] \in Nat /\ h \in Nat /\ n \in Nat
      BY <1>1, <1>2, Limits, NamesAreNumerals
    <3> QED
      BY <1>4, <1>8, <3>1
  <2>2. entry < dir[n]
    BY <1>2, <1>8 DEF ReaderInv
  <2>3. h \in Names => last[dir[h]] < dir[n] /\ dir[h] <= last[dir[h]]
    BY <2>1 DEF IInv, FilesInv, NonEmpty
  <2>4. h \in Names => last[dir[h]] \in Nat /\ dir[h] \in Nat /\ dir[n] \in Nat
    BY FileTypes DEF IInv
  <2>5. readFD' # 0 => h \in Names
    BY <1>1 DEF Names
  <2> QED
    BY <1>1, <2>2, <2>3, <2>4, <2>5
<1> QED
  BY <1>1, <1>2, <1>3, <1>5, <1>6, <1>7, <1>8 DEF ReaderInv

(* An entry is read from the open file.                                    *)
LEMMA ReadKeepsReader ==
  ASSUME IInv, ReaderInv, NEW e \in 1..MaxWrites, ReadLine(e), UNCHANGED backendVars
  PROVE  ReaderInv'
<1>1. /\ readFD # 0 /\ e = readPos /\ readPos <= last[readFD]
      /\ entry' = e /\ readPos' = e + 1 /\ UNCHANGED <<toRead, readFD>>
  BY DEF ReadLine
<1>2. Names' = Names /\ UNCHANGED <<dir, last, count>>
  BY DEF backendVars, diskVars, Names
<1>3. readFD \in Ids /\ last[readFD] \in Nat /\ last[readFD] <= count /\ count \in Nat /\ e \in Nat
  BY <1>1, Limits DEF ReaderInv, IInv, BackendTypeOK
<1>4. entry' <= count /\ entry' < readPos'
  BY <1>1, <1>3
<1>5. ASSUME NEW i \in 1..Len(toRead), NEW n \in Names, toRead[i] <= n
      PROVE  entry' < dir[n]
  <2>1. last[readFD] < dir[n] /\ dir[n] \in Nat
    BY <1>1, <1>5, FileTypes DEF ReaderInv, IInv
  <2> QED
    BY <1>1, <1>3, <2>1
<1>6. OnDisk(readFD) => OnDisk(readFD)'
  BY <1>1, <1>2 DEF OnDisk
<1> QED
  BY <1>1, <1>2, <1>3, <1>4, <1>5, <1>6 DEF ReaderInv

(* Nor does closing the file at its end.                                   *)
LEMMA CloseKeepsReader ==
  ASSUME ReaderInv, ReadLineFails, UNCHANGED backendVars
  PROVE  ReaderInv'
<1>1. readFD' = 0 /\ readPos' = 0 /\ UNCHANGED <<toRead, entry>>
  BY DEF ReadLineFails
<1>2. Names' = Names /\ UNCHANGED <<dir, last, count>>
  BY DEF backendVars, diskVars, Names
<1> QED
  BY <1>1, <1>2 DEF ReaderInv

(* Nor does a step that changes neither files nor reader.                  *)
LEMMA QuietStepKeepsReader ==
  ASSUME ReaderInv, UNCHANGED <<backendVars, readerVars>>
  PROVE  ReaderInv'
<1>1. Names' = Names /\ UNCHANGED <<dir, last, count, toRead, readFD, readPos, entry>>
  BY DEF backendVars, diskVars, Names, readerVars
<1>2. OnDisk(readFD) => OnDisk(readFD)'
  BY <1>1 DEF OnDisk
<1> QED
  BY <1>1, <1>2 DEF ReaderInv

(* A power cut takes the reader with it.                                   *)
LEMMA NodeDownKeepsReader ==
  ASSUME IInv, \A id \in Ids : last[id] <= count, NodeDown
  PROVE  ReaderInv'
<1>1. toRead' = << >> /\ readFD' = 0 /\ readPos' = 0 /\ entry' = 0 /\ UNCHANGED <<last, count>>
  BY DEF NodeDown, PowerCut, diskVars
<1>2. count \in Nat /\ toRead' \in Seq(Numerals) /\ Len(toRead') = 0
  BY <1>1, FileTypes DEF IInv
<1> QED
  BY <1>1, <1>2 DEF ReaderInv

(* The reader's invariant holds at the start.                              *)
LEMMA ReaderInvInit == Init => ReaderInv
<1> SUFFICES ASSUME Init PROVE ReaderInv
  OBVIOUS
<1>1. toRead = << >> /\ readFD = 0 /\ readPos = 0 /\ entry = 0 /\ count = 0
      /\ last = [i \in Ids |-> 0]
  BY DEF Init, ReaderInit, BackendInit
<1>2. toRead \in Seq(Numerals) /\ Len(toRead) = 0
  BY <1>1
<1> QED
  BY <1>1, <1>2 DEF ReaderInv

(* Every step keeps the reader's invariant, as long as the names sort.     *)
PassInv == sorted /\ inOrder => ReaderInv

LEMMA StepKeepsReader ==
  ASSUME BackendInv, PassInv, [Next]_vars
  PROVE  PassInv'
<1> SUFFICES ASSUME sorted', inOrder' PROVE ReaderInv'
  BY DEF PassInv
<1>0. IInv /\ sorted /\ \A id \in Ids : last[id] <= count
  <2>1. sorted
    BY StepRunsBackend
    DEF BackendNext, Restore, Rotation, RotationFails, WriteToFile, WriteToNewFile,
        PowerCut, ShrinkLogFiles, UpdateLogFileNumeral, NumeralsUpdated, CreateLogFile,
        backendVars
  <2> QED
    BY <2>1 DEF BackendInv, WeakInv
<1>1. CASE BackendStep
  <2>1. inOrder
    BY <1>1 DEF BackendStep, WatchRotation, passVars
  <2> QED
    BY <1>0, <1>1, <2>1, BackendKeepsReader DEF PassInv
<1>2. CASE NodeDown
  BY <1>0, <1>2, NodeDownKeepsReader
<1>3. CASE ProviderThread
  <2>1. UNCHANGED backendVars
    BY <1>3
    DEF ProviderThread, Exit, BeginRequest, OpenFile, SkipEntry, TakeEntry, SendFullChunk,
        SendFullChunkFails, SendLastChunk, SendLastChunkFails, SendFinalChunk,
        SendFinalChunkFails, SendErrorLog, SendFails, RequestDone, ThreadGoes
  <2>2. Reset \/ OpenNextFile \/ ReadLineFails \/ (\E e \in 1..MaxWrites : ReadLine(e))
        \/ UNCHANGED readerVars
    BY <1>3
    DEF ProviderThread, Exit, BeginRequest, OpenFile, SkipEntry, TakeEntry, SendFullChunk,
        SendFullChunkFails, SendLastChunk, SendLastChunkFails, SendFinalChunk,
        SendFinalChunkFails, SendErrorLog, SendFails, RequestDone
  <2>3. CASE Reset
    <3>1. NamesSorted
      BY <2>3 DEF Reset
    <3> QED
      BY <1>0, <2>1, <2>3, <3>1, ResetKeepsReader
  <2>4. CASE OpenNextFile \/ ReadLineFails \/ (\E e \in 1..MaxWrites : ReadLine(e))
             \/ UNCHANGED readerVars
    <3>1. inOrder
      BY <2>4 DEF OpenNextFile, ReadLineFails, ReadLine, readerVars, passVars
    <3>2. ReaderInv
      BY <1>0, <3>1 DEF PassInv
    <3> QED
      BY <1>0, <2>1, <2>4, <3>2, OpenKeepsReader, CloseKeepsReader, ReadKeepsReader,
         QuietStepKeepsReader
  <2> QED
    BY <2>2, <2>3, <2>4
<1>4. CASE \/ Start \/ Stop \/ Join \/ Subscribe \/ Unsubscribe
           \/ (\E r \in Requests : GetLog(r)) \/ UNCHANGED vars
  <2>1. UNCHANGED <<backendVars, readerVars>>
    BY <1>4 DEF Start, Stop, Join, Subscribe, Unsubscribe, GetLog, vars
  <2>2. inOrder
    BY <2>1 DEF readerVars, passVars
  <2> QED
    BY <1>0, <2>1, <2>2, QuietStepKeepsReader DEF PassInv
<1> QED
  BY <1>1, <1>2, <1>3, <1>4 DEF Next

(* A pass over names that sort as their numerals returns the entries in    *)
(* their order, none of them twice, whatever FSBackend renames and removes *)
(* while it goes on.                                                       *)
THEOREM ReadsInOrder == Spec => ReadInOrder
<1>1. Init => BackendInv /\ PassInv
  BY BackendInvInit, ReaderInvInit DEF Init, PassInv
<1>2. BackendInv /\ PassInv /\ [Next]_vars => BackendInv' /\ PassInv'
  BY BackendKeepsInv, StepKeepsReader, StepRunsBackend
<1>3. BackendInv /\ PassInv /\ [Next]_vars
      => [sorted /\ inOrder => \A e \in 1..MaxWrites : ReadLine(e) => e > entry]_readerVars
  <2>1. ASSUME ReaderInv, NEW e \in 1..MaxWrites, ReadLine(e) PROVE e > entry
    BY <2>1 DEF ReaderInv, ReadLine
  <2> QED
    BY <2>1 DEF PassInv
<1> QED
  BY <1>1, <1>2, <1>3, PTL DEF Spec, ReadInOrder

-----------------------------------------------------------------------------
(* An answer is complete.                                                  *)

(* The entries of the files as they are that the pass has still before it. *)
ToRead(e) ==
  \/ readFD # 0 /\ readPos <= e /\ e <= last[readFD]
  \/ \E i \in 1..Len(toRead) : /\ toRead[i] \in Names
                               /\ dir[toRead[i]] <= e /\ e <= last[dir[toRead[i]]]

InContent(e) == \E i \in 1..Len(content) : content[i] = e

(* Nothing was taken that the request leaves out.  While no file has been  *)
(* moved, an entry of the pass that the request asks for is delivered, or  *)
(* in the chunk, or still to be read.                                      *)
AnswerInv ==
  /\ thread \in {"reading", "final", "error"} => mLogRequests # << >>
  /\ thread \in {"reading", "final"} =>
       /\ \A e \in delivered : ~LeftOut(e, Request)
       /\ \A i \in 1..Len(content) : ~LeftOut(content[i], Request)
       /\ ~rotated => /\ readFD # 0 => OnDisk(readFD)
                      /\ \A e \in onDisk :
                           LeftOut(e, Request) \/ e \in delivered \/ InContent(e) \/ ToRead(e)
  /\ thread = "final" => content = << >> /\ NothingToRead

ProviderInv == BackendInv /\ PassInv /\ TypeOK /\ AnswerInv

(* While no file moves, what is still to be read stays so.                 *)
LEMMA BackendKeepsToRead ==
  ASSUME WeakInv, ReaderTypeOK, BackendStep, count' \in Nat, ~rotated'
  PROVE  /\ ~rotated
         /\ OnDisk(readFD) => OnDisk(readFD)'
         /\ \A e \in Nat : ToRead(e) => ToRead(e)'
<1>1. /\ UNCHANGED <<toRead, readFD, readPos>>
      /\ ~rotated /\ \A n \in Names : dir'[n] = dir[n]
  BY DEF BackendStep, WatchRotation
<1>2. \A n \in Names : n \in Names' /\ dir'[n] = dir[n] /\ dir[n] \in Ids
  BY <1>1, FileTypes DEF Names, WeakInv
<1>3. OnDisk(readFD) => OnDisk(readFD)'
  BY <1>1, <1>2 DEF OnDisk
<1>4. \A id \in Ids : last[id] \in Nat /\ last'[id] \in Nat /\ last[id] <= last'[id]
  BY EndsOfFiles DEF BackendStep, BackendNext
<1>5. readFD # 0 => readFD \in Ids
  BY DEF ReaderTypeOK
<1>6. ASSUME NEW e \in Nat, ToRead(e)
      PROVE  ToRead(e)'
  <2>1. ASSUME readFD # 0, readPos <= e, e <= last[readFD]
        PROVE  e <= last'[readFD]
    BY <1>4, <1>5, <2>1
  <2>2. ASSUME NEW n \in Names, dir[n] <= e, e <= last[dir[n]]
        PROVE  n \in Names' /\ dir'[n] <= e /\ e <= last'[dir'[n]]
    BY <1>2, <1>4, <2>2
  <2> QED
    BY <1>1, <1>6, <2>1, <2>2 DEF ToRead
<1> QED
  BY <1>1, <1>3, <1>6

(* A pass begins with all the entries before it.                           *)
LEMMA ResetFindsAll ==
  ASSUME WeakInv, Reset, UNCHANGED backendVars
  PROVE  /\ toRead' \in Seq(Numerals) /\ Len(toRead') <= cMaxLogFiles
         /\ ~rotated' /\ readFD' = 0 /\ onDisk' \subseteq 1..MaxWrites
         /\ \A e \in onDisk' : ToRead(e)'
<1>1. /\ ~rotated' /\ readFD' = 0 /\ toRead' \in Listings(Names)
      /\ onDisk' = {e \in 1..count : \E n \in Names : dir[n] <= e /\ e <= last[dir[n]]}
  BY DEF Reset
<1>2. onDisk' \subseteq 1..MaxWrites
  <2>1. count \in Nat /\ count <= MaxWrites
    BY Limits DEF WeakInv, BackendTypeOK
  <2> QED
    BY <1>1, <2>1, Limits
<1>3. /\ toRead' \in Seq(Numerals) /\ Len(toRead') <= cMaxLogFiles
      /\ \A n \in Names : \E i \in 1..Len(toRead') : toRead'[i] = n
  BY <1>1, ListingIsComplete DEF WeakInv, LogIsBounded
<1>4. Names' = Names /\ UNCHANGED <<dir, last>>
  BY DEF backendVars, diskVars, Names
<1>5. ASSUME NEW e \in onDisk'
      PROVE  ToRead(e)'
  <2>1. PICK n \in Names : dir[n] <= e /\ e <= last[dir[n]]
    BY <1>1
  <2> QED
    BY <1>3, <1>4, <2>1 DEF ToRead
<1> QED
  BY <1>1, <1>2, <1>3, <1>5

(* What a step does to the reader: FSBackend goes on, or the reader does.  *)
ReaderStep ==
  /\ UNCHANGED backendVars
  /\ Reset \/ OpenNextFile \/ ReadLineFails \/ (\E e \in 1..MaxWrites : ReadLine(e))
     \/ UNCHANGED readerVars

(* So much every step does.                                                *)
LEMMA StepOfReader ==
  ASSUME [Next]_vars
  PROVE  NodeDown \/ BackendStep \/ ReaderStep
<1>1. CASE ProviderThread
  BY <1>1
  DEF ProviderThread, Exit, BeginRequest, OpenFile, SkipEntry, TakeEntry, SendFullChunk,
      SendFullChunkFails, SendLastChunk, SendLastChunkFails, SendFinalChunk,
      SendFinalChunkFails, SendErrorLog, SendFails, RequestDone, ThreadGoes, ReaderStep
<1>2. CASE \/ Start \/ Stop \/ Join \/ Subscribe \/ Unsubscribe
           \/ (\E r \in Requests : GetLog(r)) \/ UNCHANGED vars
  BY <1>2 DEF Start, Stop, Join, Subscribe, Unsubscribe, GetLog, vars, ReaderStep
<1> QED
  BY <1>1, <1>2 DEF Next

(* Every step keeps the types of the reader.                               *)
LEMMA ReaderTypes ==
  ASSUME WeakInv, ReaderTypeOK, [Next]_vars
  PROVE  ReaderTypeOK'
<1>1. MaxWrites \in Nat /\ cMaxLogFiles \in Nat
  BY Limits
<1>2. /\ toRead \in Seq(Numerals) /\ Len(toRead) <= cMaxLogFiles /\ Len(toRead) \in Nat
      /\ readFD \in Ids \union {0} /\ readPos \in 0..(MaxWrites + 1) /\ entry \in 0..MaxWrites
      /\ onDisk \subseteq 1..MaxWrites /\ inOrder \in BOOLEAN /\ rotated \in BOOLEAN
  BY DEF ReaderTypeOK
<1>3. CASE NodeDown
  <2>1. /\ toRead' = << >> /\ readFD' = 0 /\ readPos' = 0 /\ entry' = 0
        /\ onDisk' = {} /\ inOrder' = TRUE /\ rotated' = FALSE
    BY <1>3 DEF NodeDown
  <2>2. toRead' \in Seq(Numerals) /\ Len(toRead') <= cMaxLogFiles
    <3>1. << >> \in Seq(Numerals) /\ Len(<< >>) = 0
      OBVIOUS
    <3> QED
      BY <2>1, <3>1, Limits
  <2>3. 0 \in 0..MaxWrites /\ 0 \in 0..(MaxWrites + 1)
    BY <1>1
  <2> QED
    BY <2>1, <2>2, <2>3 DEF ReaderTypeOK
<1>4. CASE BackendStep
  <2>1. UNCHANGED <<toRead, readFD, readPos, entry, onDisk, inOrder>> /\ rotated' \in BOOLEAN
    BY <1>2, <1>4 DEF BackendStep, WatchRotation, passVars
  <2> QED
    BY <1>2, <2>1 DEF ReaderTypeOK
<1>5. CASE ReaderStep
  <2>1. CASE Reset
    <3>1. UNCHANGED backendVars
      BY <1>5 DEF ReaderStep
    <3>2. /\ toRead' \in Seq(Numerals) /\ Len(toRead') <= cMaxLogFiles
          /\ readFD' = 0 /\ onDisk' \subseteq 1..MaxWrites
      BY <2>1, <3>1, ResetFindsAll
    <3>3. readPos' = 0 /\ entry' = 0 /\ inOrder' \in BOOLEAN /\ rotated' \in BOOLEAN
      BY <2>1 DEF Reset, NamesSorted
    <3> QED
      BY <1>1, <3>2, <3>3 DEF ReaderTypeOK
  <2>2. CASE OpenNextFile
    <3>1. /\ UNCHANGED <<entry, onDisk, inOrder, rotated>>
          /\ toRead' = Tail(toRead) /\ toRead # << >>
          /\ readFD' = dir[Head(toRead)] /\ readPos' = dir[Head(toRead)]
      BY <2>2 DEF OpenNextFile, passVars
    <3>2. /\ toRead' \in Seq(Numerals) /\ Len(toRead') <= cMaxLogFiles
          /\ Head(toRead) \in Numerals
      <4>1. Len(toRead') = Len(toRead) - 1 /\ toRead' \in Seq(Numerals)
        BY <1>2, <3>1
      <4> QED
        BY <1>1, <1>2, <3>1, <4>1
    <3>3. dir[Head(toRead)] \in Ids \union {0}
      BY <3>2 DEF WeakInv, BackendTypeOK
    <3>4. readFD' \in Ids \union {0} /\ readPos' \in 0..(MaxWrites + 1)
      BY <1>1, <3>1, <3>3 DEF Ids
    <3> QED
      BY <1>2, <3>1, <3>2, <3>4 DEF ReaderTypeOK
  <2>3. CASE ReadLineFails
    <3>1. /\ UNCHANGED <<toRead, entry, onDisk, inOrder, rotated>>
          /\ readFD' = 0 /\ readPos' = 0
      BY <2>3 DEF ReadLineFails, passVars
    <3> QED
      BY <1>1, <1>2, <3>1 DEF ReaderTypeOK
  <2>4. ASSUME NEW e \in 1..MaxWrites, ReadLine(e)
        PROVE  ReaderTypeOK'
    <3>1. /\ UNCHANGED <<toRead, readFD, onDisk, inOrder, rotated>>
          /\ entry' = e /\ readPos' = e + 1
      BY <2>4 DEF ReadLine, passVars
    <3>2. entry' \in 0..MaxWrites /\ readPos' \in 0..(MaxWrites + 1)
      BY <1>1, <2>4, <3>1
    <3> QED
      BY <1>2, <3>1, <3>2 DEF ReaderTypeOK
  <2>5. CASE UNCHANGED readerVars
    BY <1>2, <2>5 DEF readerVars, passVars, ReaderTypeOK
  <2> QED
    BY <1>5, <2>1, <2>2, <2>3, <2>4, <2>5 DEF ReaderStep
<1> QED
  BY <1>3, <1>4, <1>5, StepOfReader

-----------------------------------------------------------------------------
(* The thread of the provider.                                             *)
ProviderTypeOK ==
  /\ mStopped \in BOOLEAN /\ mLogObserver \in BOOLEAN /\ stopping \in BOOLEAN
  /\ thread \in {"none", "waiting", "exited", "reading", "final", "error"}
  /\ mLogRequests \in Seq(Requests) /\ Len(mLogRequests) <= cMaxNumLogRequests
  /\ accepted \in 0..MaxAccepted
  /\ content \in Seq(1..MaxWrites) /\ Len(content) <= ContentLen
  /\ delivered \subseteq 1..MaxWrites

(* Every step keeps the types of the provider.                             *)
LEMMA ProviderTypes ==
  ASSUME ProviderTypeOK, AnswerInv, [Next]_vars
  PROVE  ProviderTypeOK'
<1>1. /\ cMaxNumLogRequests \in Nat /\ cMaxNumLogRequests > 0
      /\ ContentLen \in Nat /\ ContentLen > 0 /\ MaxAccepted \in Nat
  BY LogProviderAssumption
<1> USE DEF ProviderTypeOK
<1>2. CASE Start \/ Stop \/ Join \/ Subscribe \/ Unsubscribe
  BY <1>2 DEF Start, Stop, Join, Subscribe, Unsubscribe, queueVars, answerVars
<1>3. ASSUME NEW r \in Requests, GetLog(r) PROVE ProviderTypeOK'
  <2>1. /\ UNCHANGED <<mStopped, mLogObserver, thread, stopping, content, delivered>>
        /\ mLogRequests' = Append(mLogRequests, r) /\ accepted' = accepted + 1
        /\ accepted < MaxAccepted /\ Len(mLogRequests) < cMaxNumLogRequests
    BY <1>3 DEF GetLog, answerVars
  <2>2. mLogRequests' \in Seq(Requests) /\ Len(mLogRequests') = Len(mLogRequests) + 1
    BY <2>1
  <2>3. Len(mLogRequests) \in Nat
    OBVIOUS
  <2>4. Len(mLogRequests') <= cMaxNumLogRequests /\ accepted' \in 0..MaxAccepted
    BY <1>1, <2>1, <2>2, <2>3
  <2> QED
    BY <2>1, <2>2, <2>4
<1>4. CASE BackendStep \/ UNCHANGED vars
  BY <1>4 DEF BackendStep, vars, providerVars, queueVars, answerVars
<1>5. CASE NodeDown
  <2>1. mLogRequests' = << >> /\ content' = << >> /\ delivered' = {} /\ accepted' = accepted
        /\ mStopped' \in BOOLEAN /\ mLogObserver' \in BOOLEAN /\ stopping' \in BOOLEAN
        /\ thread' = "none"
    BY <1>5 DEF NodeDown
  <2>2. /\ mLogRequests' \in Seq(Requests) /\ Len(mLogRequests') = 0
        /\ content' \in Seq(1..MaxWrites) /\ Len(content') = 0
    BY <2>1
  <2> QED
    BY <1>1, <2>1, <2>2
<1>6. CASE ProviderThread
  <2>1. UNCHANGED <<mStopped, mLogObserver, stopping, accepted>>
        /\ thread' \in {"none", "waiting", "exited", "reading", "final", "error"}
    BY <1>6
    DEF ProviderThread, Exit, BeginRequest, OpenFile, SkipEntry, TakeEntry, SendFullChunk,
        SendFullChunkFails, SendLastChunk, SendLastChunkFails, SendFinalChunk,
        SendFinalChunkFails, SendErrorLog, SendFails, RequestDone, ThreadGoes, queueVars
  <2>2. \/ UNCHANGED mLogRequests
        \/ mLogRequests' = Tail(mLogRequests) /\ thread \in {"final", "error"}
    BY <1>6
    DEF ProviderThread, Exit, BeginRequest, OpenFile, SkipEntry, TakeEntry, SendFullChunk,
        SendFullChunkFails, SendLastChunk, SendLastChunkFails, SendFinalChunk,
        SendFinalChunkFails, SendErrorLog, SendFails, RequestDone, ThreadGoes, queueVars
  <2>3. mLogRequests' \in Seq(Requests) /\ Len(mLogRequests') <= cMaxNumLogRequests
    <3>1. CASE mLogRequests' = Tail(mLogRequests) /\ thread \in {"final", "error"}
      <4>1. mLogRequests # << >>
        BY <3>1 DEF AnswerInv
      <4>2. mLogRequests' \in Seq(Requests) /\ Len(mLogRequests') = Len(mLogRequests) - 1
            /\ Len(mLogRequests) \in Nat
        BY <3>1, <4>1
      <4> QED
        BY <1>1, <4>2
    <3> QED
      BY <2>2, <3>1
  <2>4. \/ UNCHANGED content \/ content' = << >>
        \/ \E e \in 1..MaxWrites : content' = <<e>>
        \/ \E e \in 1..MaxWrites : content' = Append(content, e) /\ Len(content) < ContentLen
    BY <1>6
    DEF ProviderThread, Exit, BeginRequest, OpenFile, SkipEntry, TakeEntry, SendFullChunk,
        SendFullChunkFails, SendLastChunk, SendLastChunkFails, SendFinalChunk,
        SendFinalChunkFails, SendErrorLog, SendFails, RequestDone, ThreadGoes, answerVars
  <2>5. content' \in Seq(1..MaxWrites) /\ Len(content') <= ContentLen
    <3>1. CASE content' = << >>
      BY <1>1, <3>1
    <3>2. ASSUME NEW e \in 1..MaxWrites, content' = <<e>>
          PROVE  content' \in Seq(1..MaxWrites) /\ Len(content') <= ContentLen
      BY <1>1, <3>2
    <3>3. ASSUME NEW e \in 1..MaxWrites, content' = Append(content, e), Len(content) < ContentLen
          PROVE  content' \in Seq(1..MaxWrites) /\ Len(content') <= ContentLen
      <4>1. /\ content' \in Seq(1..MaxWrites) /\ Len(content') = Len(content) + 1
            /\ Len(content) \in Nat
        BY <3>3
      <4> QED
        BY <1>1, <3>3, <4>1
    <3> QED
      BY <2>4, <3>1, <3>2, <3>3
  <2>6. delivered' = delivered \/ delivered' = {} \/ SendLogChunk
    BY <1>6
    DEF ProviderThread, Exit, BeginRequest, OpenFile, SkipEntry, TakeEntry, SendFullChunk,
        SendFullChunkFails, SendLastChunk, SendLastChunkFails, SendFinalChunk,
        SendFinalChunkFails, SendErrorLog, SendFails, RequestDone, ThreadGoes, answerVars
  <2>7. delivered' \subseteq 1..MaxWrites
    <3>1. \A i \in DOMAIN content : content[i] \in 1..MaxWrites
      <4>1. DOMAIN content = 1..Len(content)
        BY LenProperties
      <4> QED
        BY <4>1, ElementOfSeq
    <3>2. {content[i] : i \in DOMAIN content} \subseteq 1..MaxWrites
      BY <3>1
    <3> QED
      BY <2>6, <3>2, Zenon DEF SendLogChunk
  <2> QED
    BY <2>1, <2>3, <2>5, <2>7
<1> QED
  BY <1>2, <1>3, <1>4, <1>5, <1>6 DEF Next

(* What the thread has found out about the request at hand.                *)
Answering ==
  /\ \A e \in delivered : ~LeftOut(e, Request)
  /\ \A i \in 1..Len(content) : ~LeftOut(content[i], Request)
  /\ ~rotated => /\ readFD # 0 => OnDisk(readFD)
                 /\ \A e \in onDisk :
                      LeftOut(e, Request) \/ e \in delivered \/ InContent(e) \/ ToRead(e)

(* FSBackend writes, rotates or starts behind the reader's back.           *)
LEMMA BackendKeepsAnswer ==
  ASSUME ProviderInv, BackendStep
  PROVE  AnswerInv'
<1>1. /\ UNCHANGED <<mLogRequests, content, delivered, thread, toRead, readFD, readPos>>
      /\ UNCHANGED onDisk
  BY DEF BackendStep, WatchRotation, passVars, providerVars, queueVars, answerVars
<1>2. ASSUME thread \in {"reading", "final"}, ~rotated'
      PROVE  /\ readFD # 0 => OnDisk(readFD)'
             /\ \A e \in onDisk :
                  LeftOut(e, Request) \/ e \in delivered \/ InContent(e) \/ ToRead(e)'
  <2>1. /\ ~rotated
        /\ OnDisk(readFD) => OnDisk(readFD)'
        /\ \A e \in Nat : ToRead(e) => ToRead(e)'
    <3>1. WeakInv /\ ReaderTypeOK
      BY DEF ProviderInv, BackendInv, TypeOK
    <3>2. count' \in Nat
      <4>1. BackendInv'
        BY BackendKeepsInv DEF ProviderInv, BackendStep, BackendNext
      <4> QED
        BY <4>1, Limits DEF BackendInv, WeakInv, BackendTypeOK
    <3> QED
      BY <1>2, <3>1, <3>2, BackendKeepsToRead
  <2>3. \A e \in onDisk : e \in Nat
    BY Limits DEF ProviderInv, TypeOK, ReaderTypeOK
  <2>4. /\ readFD # 0 => OnDisk(readFD)
        /\ \A e \in onDisk :
             LeftOut(e, Request) \/ e \in delivered \/ InContent(e) \/ ToRead(e)
    BY <1>2, <2>1 DEF ProviderInv, AnswerInv
  <2> QED
    BY <2>1, <2>3, <2>4
<1> QED
  BY <1>1, <1>2 DEF ProviderInv, AnswerInv, Request, InContent, NothingToRead

(* The thread takes up a request.                                          *)
LEMMA BeginKeepsAnswer ==
  ASSUME ProviderInv, BeginRequest
  PROVE  AnswerInv'
<1>1. /\ Reset /\ UNCHANGED backendVars /\ UNCHANGED mLogRequests /\ mLogRequests # << >>
      /\ content' = << >> /\ delivered' = {} /\ thread' = "reading"
  BY DEF BeginRequest, ThreadGoes, queueVars
<1>2. readFD' = 0 /\ \A e \in onDisk' : ToRead(e)'
  BY <1>1, ResetFindsAll DEF ProviderInv, BackendInv
<1>3. Len(content') = 0
  BY <1>1
<1> QED
  BY <1>1, <1>2, <1>3 DEF AnswerInv

(* While the thread reads, the request and the disk stay.                  *)
LEMMA DiskStays ==
  ASSUME UNCHANGED backendVars
  PROVE  Names' = Names /\ UNCHANGED <<dir, last>> /\ \A id : OnDisk(id) => OnDisk(id)'
  BY DEF backendVars, diskVars, Names, OnDisk

(* Next opens a file: what was to be read of it still is.  It closes a     *)
(* file: nothing of it was left to read.                                   *)
LEMMA OpenKeepsAnswer ==
  ASSUME ProviderInv, OpenFile
  PROVE  AnswerInv'
<1>1. /\ UNCHANGED backendVars /\ thread = "reading" /\ thread' = "reading"
      /\ UNCHANGED <<mLogRequests, content, delivered>>
      /\ OpenNextFile \/ ReadLineFails
  BY DEF OpenFile, ThreadGoes, queueVars, answerVars
<1>2. /\ UNCHANGED <<onDisk, rotated>>
      /\ Names' = Names /\ UNCHANGED <<dir, last>>
  BY <1>1, DiskStays DEF OpenNextFile, ReadLineFails, passVars
<1>3. \A e \in onDisk : e \in Nat
  BY Limits DEF ProviderInv, TypeOK, ReaderTypeOK
<1>4. ASSUME ~rotated
      PROVE  /\ readFD' # 0 => OnDisk(readFD)'
             /\ \A e \in onDisk : ToRead(e) => ToRead(e)'
  <2>1. readFD # 0 => OnDisk(readFD)
    BY <1>1, <1>4 DEF ProviderInv, AnswerInv
  <2>2. CASE OpenNextFile
    <3> DEFINE h == toRead[1]
    <3>1. /\ readFD = 0 /\ toRead # << >> /\ toRead \in Seq(Numerals)
          /\ readFD' = dir[h] /\ readPos' = dir[h] /\ toRead' = Tail(toRead)
      BY <2>2 DEF OpenNextFile, ProviderInv, TypeOK, ReaderTypeOK
    <3>2. /\ Len(toRead) \in Nat /\ Len(toRead) > 0 /\ Len(toRead') = Len(toRead) - 1
          /\ \A i \in 1..Len(toRead') : toRead'[i] = toRead[i + 1]
          /\ h \in Numerals
      BY <3>1
    <3>3. ASSUME readFD' # 0 PROVE OnDisk(readFD)'
      <4>1. h \in Names
        BY <3>1, <3>2, <3>3 DEF Names
      <4> QED
        BY <1>2, <3>1, <4>1 DEF OnDisk
    <3>4. ASSUME NEW e \in onDisk, ToRead(e)
          PROVE  ToRead(e)'
      <4>1. PICK i \in 1..Len(toRead) : /\ toRead[i] \in Names
                                        /\ dir[toRead[i]] <= e /\ e <= last[dir[toRead[i]]]
        BY <3>1, <3>4 DEF ToRead
      <4>2. CASE i = 1
        <5>1. dir[h] # 0
          BY <4>1, <4>2 DEF Names
        <5> QED
          BY <1>2, <3>1, <4>1, <4>2, <5>1 DEF ToRead
      <4>3. CASE i # 1
        <5>1. i - 1 \in 1..Len(toRead') /\ toRead'[i - 1] = toRead[i]
          BY <3>2, <4>3
        <5> QED
          BY <1>2, <4>1, <5>1 DEF ToRead
      <4> QED
        BY <4>2, <4>3
    <3> QED
      BY <3>3, <3>4
  <2>3. CASE ReadLineFails
    <3>1. readFD # 0 /\ readFD' = 0 /\ readPos' = 0 /\ UNCHANGED toRead
      BY <2>3 DEF ReadLineFails
    <3>2. readPos > last[readFD]
      BY <2>1, <2>3, <3>1 DEF ReadLineFails, OnDisk
    <3>3. /\ readPos \in Nat /\ last[readFD] \in Nat
      BY <3>1, Limits DEF ProviderInv, TypeOK, ReaderTypeOK, BackendTypeOK
    <3>4. ASSUME NEW e \in onDisk, ToRead(e)
          PROVE  ToRead(e)'
      <4>1. ~(readPos <= e /\ e <= last[readFD])
        BY <1>3, <3>2, <3>3
      <4> QED
        BY <1>2, <3>1, <3>4, <4>1 DEF ToRead
    <3> QED
      BY <3>1, <3>4
  <2> QED
    BY <1>1, <2>2, <2>3
<1> QED
  BY <1>1, <1>2, <1>4 DEF ProviderInv, AnswerInv, Request, InContent

(* An entry is read: it is all that is no longer before the pass.          *)
LEMMA ReadTakesOne ==
  ASSUME ProviderInv, NEW x \in 1..MaxWrites, ReadLine(x), UNCHANGED backendVars
  PROVE  /\ UNCHANGED <<onDisk, rotated, readFD>>
         /\ OnDisk(readFD) => OnDisk(readFD)'
         /\ \A e \in onDisk : ToRead(e) => e = x \/ ToRead(e)'
<1>1. /\ UNCHANGED <<onDisk, rotated, readFD, toRead>>
      /\ x = readPos /\ readPos' = x + 1
  BY DEF ReadLine, passVars
<1>2. Names' = Names /\ UNCHANGED <<dir, last>>
  BY DiskStays
<1>3. x \in Nat /\ \A e \in onDisk : e \in Nat
  BY Limits DEF ProviderInv, TypeOK, ReaderTypeOK
<1>4. ASSUME NEW e \in onDisk, ToRead(e), e # x
      PROVE  ToRead(e)'
  <2>1. readPos <= e => readPos' <= e
    BY <1>1, <1>3, <1>4
  <2> QED
    BY <1>1, <1>2, <1>4, <2>1 DEF ToRead
<1> QED
  BY <1>1, <1>2, <1>4 DEF OnDisk

(* An entry is left out, or goes into the chunk, and the chunk, when it is *)
(* full, to the observer first.                                            *)
LEMMA EntryKeepsAnswer ==
  ASSUME ProviderInv, SkipEntry \/ TakeEntry \/ SendFullChunk
  PROVE  AnswerInv'
<1>1. /\ UNCHANGED backendVars /\ thread = "reading" /\ thread' = "reading"
      /\ UNCHANGED mLogRequests
  BY DEF SkipEntry, TakeEntry, SendFullChunk, ThreadGoes, queueVars
<1>2. PICK x \in 1..MaxWrites :
        /\ ReadLine(x)
        /\ \/ LeftOut(x, Request) /\ UNCHANGED <<content, delivered>>
           \/ ~LeftOut(x, Request) /\ content' = Append(content, x) /\ UNCHANGED delivered
           \/ ~LeftOut(x, Request) /\ content' = <<x>> /\ SendLogChunk
  BY DEF SkipEntry, TakeEntry, SendFullChunk, answerVars
<1>3. /\ UNCHANGED <<onDisk, rotated, readFD>>
      /\ OnDisk(readFD) => OnDisk(readFD)'
      /\ \A e \in onDisk : ToRead(e) => e = x \/ ToRead(e)'
  BY <1>1, <1>2, ReadTakesOne DEF ProviderInv
<1>4. content \in Seq(1..MaxWrites) /\ DOMAIN content = 1..Len(content) /\ Len(content) \in Nat
  BY DEF ProviderInv, TypeOK
<1>5. Answering
  BY <1>1 DEF ProviderInv, AnswerInv, Answering
<1>6. /\ \A e \in delivered' : ~LeftOut(e, Request)
      /\ \A i \in 1..Len(content') : ~LeftOut(content'[i], Request)
      /\ \A e : e \in delivered \/ InContent(e) => e \in delivered' \/ InContent(e)'
      /\ LeftOut(x, Request) \/ InContent(x)'
  <2>1. CASE LeftOut(x, Request) /\ UNCHANGED <<content, delivered>>
    BY <1>5, <2>1 DEF Answering, InContent
  <2>2. CASE ~LeftOut(x, Request) /\ content' = Append(content, x) /\ UNCHANGED delivered
    <3>1. /\ Len(content') = Len(content) + 1 /\ content'[Len(content) + 1] = x
          /\ \A i \in 1..Len(content) : content'[i] = content[i]
      BY <1>4, <2>2
    <3>2. \A i \in 1..Len(content') : i \in 1..Len(content) \/ i = Len(content) + 1
      BY <1>4, <3>1
    <3>3. \A i \in 1..Len(content) : i \in 1..Len(content')
      BY <1>4, <3>1
    <3>4. Len(content) + 1 \in 1..Len(content')
      BY <1>4, <3>1
    <3> QED
      BY <1>5, <2>2, <3>1, <3>2, <3>3, <3>4 DEF Answering, InContent
  <2>3. CASE ~LeftOut(x, Request) /\ content' = <<x>> /\ SendLogChunk
    <3>1. Len(content') = 1 /\ content'[1] = x
      BY <2>3
    <3>2. delivered' = delivered \union {content[i] : i \in 1..Len(content)}
      BY <1>4, <2>3 DEF SendLogChunk
    <3> QED
      BY <1>5, <2>3, <3>1, <3>2 DEF Answering, InContent
  <2> QED
    BY <1>2, <2>1, <2>2, <2>3
<1>7. Answering'
  <2>1. Request' = Request
    BY <1>1 DEF Request
  <2>2. ASSUME ~rotated, NEW e \in onDisk
        PROVE  LeftOut(e, Request) \/ e \in delivered' \/ InContent(e)' \/ ToRead(e)'
    <3>1. LeftOut(e, Request) \/ e \in delivered \/ InContent(e) \/ ToRead(e)
      BY <1>5, <2>2 DEF Answering
    <3> QED
      BY <1>3, <1>6, <3>1
  <2>3. ~rotated => (readFD # 0 => OnDisk(readFD))
    BY <1>5 DEF Answering
  <2> QED
    BY <1>3, <1>6, <2>1, <2>2, <2>3 DEF Answering
<1>8. mLogRequests' # << >>
  BY <1>1 DEF ProviderInv, AnswerInv
<1> QED
  BY <1>1, <1>7, <1>8 DEF AnswerInv, Answering

(* The pass is over, the last chunk is delivered.                          *)
LEMMA LastChunkKeepsAnswer ==
  ASSUME ProviderInv, SendLastChunk
  PROVE  AnswerInv'
<1>1. /\ UNCHANGED <<mLogRequests, onDisk, rotated, readFD, toRead>>
      /\ UNCHANGED backendVars /\ thread = "reading" /\ thread' = "final"
      /\ content' = << >> /\ readFD = 0 /\ toRead = << >>
      /\ SendLogChunk \/ (content = << >> /\ UNCHANGED delivered)
  BY DEF SendLastChunk, ThreadGoes, NothingToRead, queueVars, readerVars, passVars
<1>2. content \in Seq(1..MaxWrites) /\ DOMAIN content = 1..Len(content)
  BY DEF ProviderInv, TypeOK
<1>3. \A e : e \in delivered' <=> e \in delivered \/ InContent(e)
  <2>1. CASE SendLogChunk
    BY <1>2, <2>1 DEF SendLogChunk, InContent
  <2>2. CASE content = << >> /\ UNCHANGED delivered
    <3>1. Len(content) = 0
      BY <2>2
    <3> QED
      BY <2>2, <3>1 DEF InContent
  <2> QED
    BY <1>1, <2>1, <2>2
<1>4. \A e : ~ToRead(e)
  <2>1. Len(toRead) = 0
    BY <1>1
  <2> QED
    BY <1>1, <2>1 DEF ToRead
<1>5. Len(content') = 0 /\ Request' = Request
  BY <1>1 DEF Request
<1>6. Answering
  BY <1>1 DEF ProviderInv, AnswerInv, Answering
<1>7. \A e \in delivered' : ~LeftOut(e, Request)
  BY <1>3, <1>6 DEF Answering, InContent
<1>8. ~rotated => \A e \in onDisk : LeftOut(e, Request) \/ e \in delivered'
  BY <1>3, <1>4, <1>6 DEF Answering
<1>9. mLogRequests' # << >>
  BY <1>1 DEF ProviderInv, AnswerInv
<1> QED
  BY <1>1, <1>5, <1>7, <1>8, <1>9 DEF AnswerInv, NothingToRead

(* Every step keeps what is known of the answer.                           *)
LEMMA StepKeepsAnswer ==
  ASSUME ProviderInv, [Next]_vars
  PROVE  AnswerInv'
<1>1. CASE NodeDown
  BY <1>1 DEF NodeDown, AnswerInv
<1>2. CASE \/ Start \/ Stop \/ Join \/ Subscribe \/ Unsubscribe
           \/ (\E r \in Requests : GetLog(r))
  <2>1. thread' \in {"none", "waiting", "exited"}
    BY <1>2 DEF Start, Stop, Join, Subscribe, Unsubscribe, GetLog, LockFree
  <2> QED
    BY <2>1 DEF AnswerInv
<1>3. CASE Exit \/ SendFinalChunk \/ SendErrorLog
  <2>1. thread' \in {"waiting", "exited"}
    BY <1>3 DEF Exit, SendFinalChunk, SendErrorLog, RequestDone, ThreadGoes
  <2> QED
    BY <2>1 DEF AnswerInv
<1>4. CASE SendFullChunkFails \/ SendLastChunkFails \/ SendFinalChunkFails
  <2>1. thread' = "error" /\ thread \in {"reading", "final"} /\ mLogRequests' = mLogRequests
    BY <1>4 DEF SendFullChunkFails, SendLastChunkFails, SendFinalChunkFails, SendFails,
               ThreadGoes, queueVars
  <2> QED
    BY <2>1 DEF ProviderInv, AnswerInv
<1>5. CASE UNCHANGED vars
  <2>1. UNCHANGED <<thread, mLogRequests, content, delivered>>
    BY <1>5 DEF vars, providerVars, queueVars, answerVars
  <2>2. UNCHANGED <<onDisk, rotated, readFD, readPos, toRead, dir, last>>
    BY <1>5 DEF vars, readerVars, passVars, backendVars, diskVars
  <2> QED
    BY <2>1, <2>2
    DEF ProviderInv, AnswerInv, NothingToRead, Request, InContent, ToRead, OnDisk, Names
<1> QED
  BY <1>1, <1>2, <1>3, <1>4, <1>5, BackendKeepsAnswer, BeginKeepsAnswer, OpenKeepsAnswer,
     EntryKeepsAnswer, LastChunkKeepsAnswer
  DEF Next, ProviderThread

(* The properties.                                                         *)
LEMMA ProviderInit1 == Init => ProviderInv
<1> SUFFICES ASSUME Init PROVE ProviderInv
  OBVIOUS
<1>1. BackendInv /\ PassInv
  BY BackendInvInit, ReaderInvInit DEF Init, PassInv
<1>2. toRead = << >> /\ readFD = 0 /\ readPos = 0 /\ entry = 0
      /\ onDisk = {} /\ inOrder \in BOOLEAN /\ rotated \in BOOLEAN
  BY DEF Init, ReaderInit
<1>3. toRead \in Seq(Numerals) /\ Len(toRead) = 0
  BY <1>2
<1>4. ReaderTypeOK
  BY <1>2, <1>3, Limits DEF ReaderTypeOK
<1>5. /\ thread = "none" /\ mLogRequests = << >> /\ accepted = 0
      /\ content = << >> /\ delivered = {}
      /\ mStopped \in BOOLEAN /\ mLogObserver \in BOOLEAN /\ stopping \in BOOLEAN
  BY DEF Init, ProviderInit
<1>6. mLogRequests \in Seq(Requests) /\ Len(mLogRequests) = 0
      /\ content \in Seq(1..MaxWrites) /\ Len(content) = 0
  BY <1>5
<1>7. ProviderTypeOK
  BY <1>5, <1>6, LogProviderAssumption DEF ProviderTypeOK
<1>8. AnswerInv
  BY <1>5 DEF AnswerInv
<1> QED
  BY <1>1, <1>4, <1>7, <1>8 DEF ProviderInv, TypeOK, ProviderTypeOK, BackendInv, WeakInv

(* Every step keeps the invariant of backend, reader and provider.         *)
LEMMA ProviderNext ==
  ASSUME ProviderInv, [Next]_vars
  PROVE  ProviderInv'
<1>1. BackendInv' /\ PassInv'
  BY BackendKeepsInv, StepKeepsReader, StepRunsBackend DEF ProviderInv
<1>2. ReaderTypeOK'
  BY ReaderTypes DEF ProviderInv, BackendInv, TypeOK
<1>3. ProviderTypeOK'
  BY ProviderTypes DEF ProviderInv, TypeOK, ProviderTypeOK
<1>4. AnswerInv'
  BY StepKeepsAnswer
<1> QED
  BY <1>1, <1>2, <1>3, <1>4 DEF ProviderInv, TypeOK, ProviderTypeOK, BackendInv, WeakInv

(* The filters leave out an entry exactly when it is not asked for, if the *)
(* request matches one instance or all of them.                            *)
LEMMA FiltersAreExact ==
  ASSUME NEW r \in Requests, ~r.filtered \/ Cardinality(r.idents) = 1, NEW e \in 1..MaxWrites
  PROVE  LeftOut(e, r) <=> ~Asked(e, r)
<1>1. /\ r.from \in Nat /\ r.till \in Nat /\ r.idents \subseteq Instances /\ e \in Nat
      /\ IsFiniteSet(r.idents)
  BY LogProviderAssumption, FS_Subset, Limits
<1>2. FilterByDate(e, r) <=> ~((r.from # 0 => r.from <= e) /\ (r.till # 0 => e < r.till))
  BY <1>1 DEF FilterByDate
<1>3. CASE ~r.filtered
  <2>1. ~FilterByInstanceID(e, GetInstanceFilter(r))
    BY <1>3 DEF FilterByInstanceID, GetInstanceFilter
  <2> QED
    BY <1>2, <1>3, <2>1 DEF LeftOut, Asked
<1>4. CASE r.filtered /\ Cardinality(r.idents) = 1
  <2>1. PICK i : r.idents = {i}
    BY <1>1, <1>4, FS_Singleton
  <2>2. GetInstanceFilter(r) = r.idents
    BY <1>4, <2>1 DEF GetInstanceFilter
  <2>3. FilterByInstanceID(e, GetInstanceFilter(r)) <=> Writer[e] \notin r.idents
    BY <2>1, <2>2 DEF FilterByInstanceID
  <2> QED
    BY <1>2, <1>4, <2>3 DEF LeftOut, Asked
<1> QED
  BY <1>3, <1>4

(* The variables of the provider, of its reader and of the backend keep    *)
(* their types; the queue, the chunk and the list of files their sizes.    *)
THEOREM LogTypes == Spec => []TypeOK
<1>1. Init => ProviderInv
  BY ProviderInit1
<1>2. ProviderInv /\ [Next]_vars => ProviderInv'
  BY ProviderNext
<1>3. ProviderInv => TypeOK
  BY DEF ProviderInv
<1> QED
  BY <1>1, <1>2, <1>3, PTL DEF Spec

(* When SendFinalChunk has told SMClient that the answer is over, all that *)
(* was asked for has been delivered and nothing else, unless a rotation    *)
(* took files away meanwhile: for every filter, size of chunk, layout of   *)
(* the files and moment at which entries are written (logprovider.cpp:     *)
(* 93-172, 276-346, fslogreader.cpp:55-125).                               *)
THEOREM AnswersAreComplete == Spec => AnswerIsComplete
<1> DEFINE Complete ==
      thread = "final" /\ thread' = "waiting"
      /\ (~Request.filtered \/ Cardinality(Request.idents) = 1) =>
        /\ \A e \in delivered : Asked(e, Request)
        /\ ~rotated => \A e \in onDisk : Asked(e, Request) => e \in delivered
<1>1. Init => ProviderInv
  BY ProviderInit1
<1>2. ProviderInv /\ [Next]_vars => ProviderInv'
  BY ProviderNext
<1>3. ASSUME ProviderInv, thread = "final",
             ~Request.filtered \/ Cardinality(Request.idents) = 1
      PROVE  /\ \A e \in delivered : Asked(e, Request)
             /\ ~rotated => \A e \in onDisk : Asked(e, Request) => e \in delivered
  <2>1. Answering /\ mLogRequests # << >> /\ content = << >> /\ readFD = 0 /\ toRead = << >>
    BY <1>3 DEF ProviderInv, AnswerInv, Answering, NothingToRead
  <2>2. Request \in Requests
    <3>1. mLogRequests \in Seq(Requests)
      BY <1>3 DEF ProviderInv, TypeOK
    <3> QED
      BY <2>1, <3>1 DEF Request
  <2>3. Len(content) = 0 /\ Len(toRead) = 0
    BY <2>1
  <2>4. \A e : ~InContent(e) /\ ~ToRead(e)
    BY <2>1, <2>3 DEF InContent, ToRead
  <2>5. \A e \in 1..MaxWrites : LeftOut(e, Request) <=> ~Asked(e, Request)
    BY <1>3, <2>2, FiltersAreExact
  <2>6. delivered \subseteq 1..MaxWrites
    BY <1>3 DEF ProviderInv, TypeOK
  <2>7. onDisk \subseteq 1..MaxWrites
    BY <1>3 DEF ProviderInv, TypeOK, ReaderTypeOK
  <2> QED
    BY <2>1, <2>4, <2>5, <2>6, <2>7 DEF Answering
<1>4. ProviderInv /\ [Next]_vars => [Complete]_vars
  BY <1>3
<1> QED
  BY <1>1, <1>2, <1>4, PTL DEF Spec, AnswerIsComplete
==============================================================================
