---------------------------- MODULE FSLogReader ----------------------------
(***************************************************************************)
(* FSLogReader: one pass over the files of FSBackend, entry by entry, for  *)
(* a request of LogProvider.  It lists the directory once, in the order of *)
(* the names, and opens each file when its turn comes; nothing keeps       *)
(* FSBackend from removing and renaming files meanwhile.                   *)
(*                                                                         *)
(* An entry is what FSBackend has written with one write.  A descriptor    *)
(* stays with the file it was opened for when the file is renamed or       *)
(* removed.                                                                *)
(***************************************************************************)
EXTENDS FSBackend

VARIABLES
  toRead,     \* mLogFiles of the reader: the names still to be opened
  readFD,     \* mFD of the reader: the id of the open file, 0: none
  readPos,    \* mCurrentPos: the next entry of that file
  entry,      \* mCurrentEntry: the last entry of this pass, 0: none
  onDisk,     \* the entries on the disk when the pass began
  inOrder,    \* TRUE: the names then sorted as their numerals
  rotated     \* TRUE: a file was removed or renamed since

passVars   == <<onDisk, inOrder>>
readerVars == <<toRead, readFD, readPos, entry, passVars, rotated>>

ReaderInit ==
  /\ toRead = << >> /\ readFD = 0 /\ readPos = 0 /\ entry = 0
  /\ onDisk = {} /\ inOrder = TRUE /\ rotated = FALSE

(* What a step of FSBackend does to a pass under way.                      *)
WatchRotation ==
  /\ rotated' = (rotated \/ \E n \in Names : dir'[n] # dir[n])
  /\ UNCHANGED <<toRead, readFD, readPos, entry, passVars>>

Reset ==
  /\ readFD' = 0 /\ readPos' = 0 /\ entry' = 0
  /\ toRead' \in Listings(Names)
  /\ onDisk' = {e \in 1..count : \E n \in Names : dir[n] <= e /\ e <= last[dir[n]]}
  /\ inOrder' = NamesSorted /\ rotated' = FALSE

Bug_OpenKeepsName ==
  /\ readFD = 0 /\ toRead # << >>
  /\ readFD' = dir[Head(toRead)] /\ readPos' = dir[Head(toRead)]
  /\ toRead' = IF dir[Head(toRead)] = 0 THEN Tail(toRead)
               ELSE SubSeq(toRead, 1, Len(toRead) - 1)
  /\ UNCHANGED <<entry, passVars, rotated>>

(* Next opens the next file; a name that is gone is passed over.           *)
OpenNextFile ==
  /\ readFD = 0 /\ toRead # << >>
  /\ readFD' = dir[Head(toRead)] /\ readPos' = dir[Head(toRead)]
  /\ toRead' = Tail(toRead)
  /\ UNCHANGED <<entry, passVars, rotated>>

(* Next returns true, with entry e.                                        *)
ReadLine(e) ==
  /\ readFD # 0 /\ readPos <= last[readFD]
  /\ e = readPos
  /\ entry' = e /\ readPos' = e + 1
  /\ UNCHANGED <<toRead, readFD, passVars, rotated>>

(* The end of the file, or an error: the file is closed.                   *)
ReadLineFails ==
  /\ readFD # 0
  /\ readPos > last[readFD] \/ readFD \notin {dir[n] : n \in Names}
  /\ readFD' = 0 /\ readPos' = 0
  /\ UNCHANGED <<toRead, entry, passVars, rotated>>

(* Next returns false.                                                     *)
NothingToRead == readFD = 0 /\ toRead = << >>

-----------------------------------------------------------------------------
ReaderTypeOK ==
  /\ toRead \in Seq(Numerals) /\ Len(toRead) <= cMaxLogFiles
  /\ readFD \in Ids \union {0} /\ readPos \in 0..(MaxWrites + 1)
  /\ entry \in 0..MaxWrites
  /\ onDisk \subseteq 1..MaxWrites /\ inOrder \in BOOLEAN /\ rotated \in BOOLEAN

(* A pass returns the entries in the order they were logged, none of them  *)
(* twice, though files are removed and renamed while it goes on, if the    *)
(* names it has listed sort as their numerals, and those of every start    *)
(* did (fslogreader.cpp:66, 134, fsbackend.cpp:331, 347).                  *)
ReadInOrder ==
  [][sorted /\ inOrder => \A e \in 1..MaxWrites : ReadLine(e) => e > entry]_readerVars
=============================================================================
