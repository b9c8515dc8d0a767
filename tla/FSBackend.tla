----------------------------- MODULE FSBackend -----------------------------
(***************************************************************************)
(* FSBackend: the log of the node in a bounded number of numbered files.   *)
(*                                                                         *)
(* What the log is made of are the writes of mLogBuffer, numbered from 1   *)
(* on; all have one size.  A file holds consecutive writes, so it is known *)
(* by its first write (its id) and its last one.  Each call on the file    *)
(* system is a step, and the power may go between any two of them: what    *)
(* has been renamed, or written and closed, stays (WriteToFile closes and  *)
(* opens the file after each write).  The thread of the log calls          *)
(* HandleLog; Init runs before the backend is activated.                   *)
(*                                                                         *)
(* Init and FSLogReader take the files in the order of their names, which  *)
(* is that of their numerals only as long as no numeral of two digits is   *)
(* among them (or only such).  What a start makes of names in any other    *)
(* order is modelled to the end of that Init, with whatever it removes and *)
(* overwrites; what is written behind it is not: a file would then hold    *)
(* writes that do not follow each other.                                   *)
(***************************************************************************)
EXTENDS Integers, Sequences, FiniteSets

CONSTANTS
  cMaxLogFiles,    \* limit on the number of files
  cFileSizeLimit,  \* how many writes fit in a file
  Base,            \* the base in which file names show numerals: ten
  FilesFail,       \* TRUE: a remove, rename or open of a rotation may fail
  MaxWrites,       \* bound on the writes
  MaxCrashes       \* bound on the power cuts

ASSUME FSBackendAssumption ==
  /\ cMaxLogFiles \in Nat \ {0, 1}
  /\ cFileSizeLimit \in Nat \ {0}
  /\ Base \in Nat \ {0, 1} /\ 2 * cMaxLogFiles <= Base * Base  \* two digits at most
  /\ FilesFail \in BOOLEAN
  /\ MaxWrites \in Nat /\ MaxCrashes \in Nat

VARIABLES
  backend,    \* where the call of HandleLog or Init is
  restoring,  \* TRUE: that call is Init
  mLogFiles,  \* the numerals of the files, oldest first
  mCurrentLogFileNumeral,
  dir,        \* the directory: the id of the file of each numeral, 0: none
  last,       \* the last write of each file, by id
  count,      \* the writes so far
  crashes,    \* the power cuts so far
  sorted      \* TRUE: every start has found names that sort as their numerals

diskVars    == <<dir, last, count>>
memVars     == <<backend, restoring, mLogFiles, mCurrentLogFileNumeral>>
backendVars == <<memVars, diskVars, crashes, sorted>>

cMaxLogFileNumeral == 2 * cMaxLogFiles
Numerals == 0..cMaxLogFileNumeral
Ids      == 1..(MaxWrites + 1)
Names    == {n \in Numerals : dir[n] # 0}
IsFull   == Len(mLogFiles) = cMaxLogFiles
Current  == dir[mLogFiles[Len(mLogFiles)]]
mFileSize == last[Current] - Current + 1

(* mLogFiles.Sort compares names, digit by digit.                          *)
Digit(n)  == IF n < Base THEN n ELSE n \div Base
Before(a, b) ==
  \/ Digit(a) < Digit(b)
  \/ Digit(a) = Digit(b) /\ a < b

NamesSorted == \A a, b \in Names : a < b => Before(a, b)

BackendInit ==
  /\ backend = "off" /\ restoring = TRUE
  /\ mLogFiles = << >> /\ mCurrentLogFileNumeral = 0
  /\ dir = [n \in Numerals |-> 0] /\ last = [i \in Ids |-> 0] /\ count = 0
  /\ crashes = 0 /\ sorted = TRUE

-----------------------------------------------------------------------------
(* Init.                                                                   *)

(* RestoreLogFiles lists the directory.  More files than the limit: the    *)
(* directory is cleared.                                                   *)
Listings(names) ==
  {files \in [1..Cardinality(names) -> names] :
     \A i, j \in 1..Cardinality(names) : i < j => Before(files[i], files[j])}

Restore ==
  /\ backend = "off" /\ backend' = "shrink" /\ restoring' = TRUE
  /\ IF Cardinality(Names) > cMaxLogFiles
       THEN /\ dir' = [n \in Numerals |-> 0]
            /\ mLogFiles' = << >> /\ mCurrentLogFileNumeral' = 0
       ELSE /\ mLogFiles' \in Listings(Names)
            /\ mCurrentLogFileNumeral' \in {n \in Numerals :
                 IF Names = {} THEN n = 0 ELSE n \in Names /\ \A m \in Names : m <= n}
            /\ UNCHANGED dir
  /\ sorted' = (sorted /\ NamesSorted)
  /\ UNCHANGED <<last, count, crashes>>

-----------------------------------------------------------------------------
(* The steps of a rotation.                                                *)

MovesTo(step) ==
  /\ backend' = step
  /\ UNCHANGED restoring

(* Init renumbers whatever it finds, a rotation only at the last numeral.  *)
(* An Init without files is a rotation.                                    *)
AfterShrink ==
  IF (restoring /\ mLogFiles # << >>) \/ mCurrentLogFileNumeral = cMaxLogFileNumeral
    THEN MovesTo("renumber") /\ mCurrentLogFileNumeral' = 0
    ELSE MovesTo("create") /\ UNCHANGED mCurrentLogFileNumeral

(* The definitions named Bug_... are not part of the specification: each   *)
(* is a plausible slip in the definition that follows it, which a property *)
(* must catch.                                                             *)
Bug_ShrinkRemovesNewest ==
  /\ backend = "shrink"
  /\ IF IsFull
       THEN /\ dir' = [dir EXCEPT ![mLogFiles[Len(mLogFiles)]] = 0]
            /\ mLogFiles' = SubSeq(mLogFiles, 1, Len(mLogFiles) - 1)
       ELSE UNCHANGED <<dir, mLogFiles>>
  /\ AfterShrink
  /\ UNCHANGED <<last, count, crashes, sorted>>

Bug_ShrinkWhenMoreThanFull ==
  /\ backend = "shrink"
  /\ IF Len(mLogFiles) > cMaxLogFiles
       THEN /\ dir' = [dir EXCEPT ![Head(mLogFiles)] = 0]
            /\ mLogFiles' = Tail(mLogFiles)
       ELSE UNCHANGED <<dir, mLogFiles>>
  /\ AfterShrink
  /\ UNCHANGED <<last, count, crashes, sorted>>

ShrinkLogFiles ==
  /\ backend = "shrink"
  /\ IF IsFull
       THEN /\ dir' = [dir EXCEPT ![Head(mLogFiles)] = 0]
            /\ mLogFiles' = Tail(mLogFiles)
       ELSE UNCHANGED <<dir, mLogFiles>>
  /\ AfterShrink
  /\ UNCHANGED <<last, count, crashes, sorted>>

Rename(from, to) ==
  dir' = [n \in Numerals |->
            IF n = to THEN dir[from] ELSE IF n = from THEN 0 ELSE dir[n]]

(* One turn of the loop of UpdateLogFileNumerals.                          *)
UpdateLogFileNumeral ==
  /\ backend = "renumber" /\ mCurrentLogFileNumeral < Len(mLogFiles)
  /\ LET i == mCurrentLogFileNumeral + 1
     IN  /\ Rename(mLogFiles[i], mCurrentLogFileNumeral)
         /\ mLogFiles' = [mLogFiles EXCEPT ![i] = mCurrentLogFileNumeral]
         /\ mCurrentLogFileNumeral' = i
  /\ UNCHANGED <<backend, restoring, last, count, crashes, sorted>>

(* Init goes on with ReopenLogFile, and the backend is ready.              *)
NumeralsUpdated ==
  /\ backend = "renumber" /\ mCurrentLogFileNumeral >= Len(mLogFiles)
  /\ MovesTo(IF restoring THEN "ready" ELSE "create")
  /\ UNCHANGED <<mLogFiles, mCurrentLogFileNumeral, diskVars, crashes, sorted>>

(* The end of AllocateNewLogFile: open creates the file when there is none *)
(* of that name.                                                           *)
CreateLogFile ==
  /\ backend = "create"
  /\ MovesTo(IF restoring THEN "ready" ELSE "write")
  /\ mLogFiles' = Append(mLogFiles, mCurrentLogFileNumeral)
  /\ mCurrentLogFileNumeral' = mCurrentLogFileNumeral + 1
  /\ IF dir[mCurrentLogFileNumeral] = 0
       THEN /\ dir' = [dir EXCEPT ![mCurrentLogFileNumeral] = count + 1]
            /\ last' = [last EXCEPT ![count + 1] = count]
       ELSE UNCHANGED <<dir, last>>
  /\ UNCHANGED <<count, crashes, sorted>>

(* A remove, rename or open fails: mFD is -1 and stays so, every write is  *)
(* refused until the node starts again.                                    *)
RotationFails ==
  /\ FilesFail /\ ~restoring
  /\ \/ backend = "shrink" /\ IsFull
     \/ backend = "renumber" /\ mCurrentLogFileNumeral < Len(mLogFiles)
     \/ backend = "create"
  /\ MovesTo("broken")
  /\ UNCHANGED <<mLogFiles, mCurrentLogFileNumeral, diskVars, crashes, sorted>>

-----------------------------------------------------------------------------
(* HandleLog has filled mLogBuffer: WriteToFile.  The bounds of the model  *)
(* are MaxWrites, and sorted: what is written behind a start on files in   *)
(* another order is left out.                                              *)

AppendToFile ==
  /\ count' = count + 1
  /\ last' = [last EXCEPT ![Current] = count + 1]

WriteToFile ==
  /\ backend = "ready" /\ sorted /\ count < MaxWrites
  /\ IF mFileSize + 1 > cFileSizeLimit
       THEN backend' = "shrink" /\ UNCHANGED <<count, last>>
       ELSE AppendToFile /\ UNCHANGED backend
  /\ restoring' = FALSE
  /\ UNCHANGED <<mLogFiles, mCurrentLogFileNumeral, dir, crashes, sorted>>

WriteToNewFile ==
  /\ backend = "write"
  /\ MovesTo("ready")
  /\ AppendToFile
  /\ UNCHANGED <<mLogFiles, mCurrentLogFileNumeral, dir, crashes, sorted>>

PowerCut ==
  /\ crashes < MaxCrashes /\ backend # "off"
  /\ crashes' = crashes + 1
  /\ backend' = "off" /\ restoring' = TRUE
  /\ mLogFiles' = << >> /\ mCurrentLogFileNumeral' = 0
  /\ UNCHANGED <<diskVars, sorted>>

Rotation == ShrinkLogFiles \/ UpdateLogFileNumeral \/ NumeralsUpdated \/ CreateLogFile

BackendNext ==
  \/ Restore \/ Rotation \/ RotationFails \/ WriteToFile \/ WriteToNewFile \/ PowerCut

BackendSpec == BackendInit /\ [][BackendNext]_backendVars

-----------------------------------------------------------------------------
BackendTypeOK ==
  /\ backend \in {"off", "shrink", "renumber", "create", "write", "ready", "broken"}
  /\ restoring \in BOOLEAN
  /\ mLogFiles \in Seq(Numerals) /\ mCurrentLogFileNumeral \in Numerals
  /\ dir \in [Numerals -> Ids \union {0}]
  /\ last \in [Ids -> 0..MaxWrites]
  /\ count \in 0..MaxWrites /\ crashes \in 0..MaxCrashes /\ sorted \in BOOLEAN

(* Whatever is on the disk is the end of what was logged: the files, in    *)
(* the order of their numerals, follow each other without a gap, and the   *)
(* last ends with the last write.  Every state counts, in the middle of a  *)
(* rotation and after a power cut, for any number of files, until a start  *)
(* finds names that sort in another order (fsbackend.cpp:298-357, 230).    *)
Follows(a, b) == last[dir[a]] + 1 = dir[b]
Newest(a) == \A b \in Names : b <= a
Adjacent(a, b) == a < b /\ \A c \in Names : ~(a < c /\ c < b)

LogIsSuffix == sorted =>
  /\ \A a, b \in Names : Adjacent(a, b) => Follows(a, b)
  /\ \A a \in Names : Newest(a) => last[dir[a]] = count
  /\ count > 0 => Names # {}

(* "Logger backend shrinks old log files if the new log file is created    *)
(* and the number of log files exceeds the limit."                         *)
(* (tests/logger/src/main.cpp:147): the writes that are removed are the    *)
(* oldest.  They are not, when a start has sorted the names log_10 and     *)
(* log_9 (fsbackend.cpp:230, 334).                                         *)
OldestIsRemoved ==
  [][\A n \in Names :
       ShrinkLogFiles /\ dir'[n] = 0 /\ dir[n] <= last[dir[n]] =>
         \A m \in Names : dir[n] <= dir[m]]_dir

(* The log takes no more room than its limits say, in every state and      *)
(* whatever the order of the names: no more files than cMaxLogFiles, no    *)
(* more in each than cFileSizeLimit (fsbackend.cpp:208, 327).              *)
LogIsBounded ==
  /\ Cardinality(Names) <= cMaxLogFiles
  /\ \A n \in Names : last[dir[n]] - dir[n] + 1 <= cFileSizeLimit
=============================================================================
