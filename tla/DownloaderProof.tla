-------------------------- MODULE DownloaderProof --------------------------
(***************************************************************************)
(* Proofs about module Downloader: its types, that a Download which        *)
(* returns no error has written every announced file whole, and that it    *)
(* writes no other chunks than its own, for any files, numbers of chunks   *)
(* and calls.                                                              *)
(***************************************************************************)
EXTENDS Downloader, TLAPS

(* The request of the Download under way has been sent.                    *)
Active == caller \in {"testing", "sleeping", "asleep", "woken", "finished"}

(* The peer has not been asked for a request that is still to come, and    *)
(* sends nothing before it has announced its files.                        *)
FutureInv ==
  \A r \in Requests :
    /\ r > mRequestID => ~peer[r].asked /\ peer[r].files = {}
    /\ peer[r].files = {} => \A f \in Files : peer[r].sent[f] = 0

(* What is written of an announced file is what the peer has sent of it.   *)
Written(f) ==
  /\ peer[mRequestID].sent[f] <= Parts[mRequestID][f]
  /\ results[f].mIsDone =>
       results[f].mFile = "none" /\ peer[mRequestID].sent[f] = Parts[mRequestID][f]
  /\ ~results[f].mIsDone /\ results[f].mFile = "none" => peer[mRequestID].sent[f] = 0
  /\ results[f].mFile = "open" => pos[f] = peer[mRequestID].sent[f]
  /\ \A p \in 1..peer[mRequestID].sent[f] : p \in DOMAIN disk[f] /\ disk[f][p] = <<mRequestID, p>>
  /\ \A o \in DOMAIN disk[f] : o > peer[mRequestID].sent[f] => disk[f][o][1] < mRequestID

(* Between its request and its return, Download knows the files the peer   *)
(* has announced and has closed none of them.                              *)
ActiveInv ==
  /\ caller = "sending" => DOMAIN results = {}
  /\ caller = "sending" /\ ~expired => ~mFinishDownload
  /\ caller = "finished" => mFinishDownload
  /\ Active => /\ mRequestID \in Requests
               /\ DOMAIN results = peer[mRequestID].files
               /\ \A f \in DOMAIN results : results[f].mFile # "closed"
               /\ ~late => mErrProcessImageRequest # "notFound"

(* What is on the disk came with a request whose files were announced.     *)
DiskInv == \A f \in Files : \A o \in DOMAIN disk[f] : peer[disk[f][o][1]].files # {}

(* As long as nothing has failed, the files are written so far, and        *)
(* mFinishDownload says that they are all done.                            *)
ProgressInv ==
  Active /\ ~late /\ ~expired /\ short = 0 /\ mErrProcessImageRequest = "none" =>
    /\ \A f \in DOMAIN results : Written(f)
    /\ mFinishDownload => DOMAIN results # {} /\ \A f \in DOMAIN results : results[f].mIsDone

ReturnInv ==
  /\ ret = "ok" => caller = "idle" /\ (~late /\ ~expired => mRequestID \in Requests)
  /\ ~late => ret # "notFound"

IInv == FutureInv /\ DiskInv /\ ActiveInv /\ ProgressInv /\ ReturnInv /\ OkIsComplete

-----------------------------------------------------------------------------
(* A file has at least one part, whatever the request.                     *)
LEMMA PartsFit ==
  ASSUME NEW r \in Requests, NEW f \in Files
  PROVE  Parts[r][f] \in Nat /\ Parts[r][f] >= 1
<1>1. Parts[r] \in [Files -> Nat \ {0}]
  BY DownloaderAssumption
<1>2. Parts[r][f] \in Nat \ {0}
  BY <1>1
<1> QED
  BY <1>2

(* The types, variable by variable.                                        *)
ScalarsOK ==
  /\ caller \in {"idle", "sending", "testing", "sleeping", "asleep", "woken", "finished"}
  /\ mFinishDownload \in BOOLEAN /\ mErrProcessImageRequest \in Errors
  /\ mRequestID \in 0..MaxRequests /\ (caller = "sending" => mRequestID < MaxRequests)
  /\ timer \in BOOLEAN /\ callback \subseteq {"finish", "error", "notify"}
  /\ ret \in {"ok"} \union Errors
  /\ late \in BOOLEAN /\ expired \in BOOLEAN /\ short \in 0..MaxShort /\ stray \in BOOLEAN
ResultsOK == DOMAIN results \subseteq Files /\ results \in [DOMAIN results -> Results]
PosOK  == pos \in [Files -> Nat]
DiskOK ==
  /\ DOMAIN disk = Files
  /\ \A f \in Files : /\ DOMAIN disk[f] \subseteq Nat \ {0}
                       /\ disk[f] \in [DOMAIN disk[f] -> Requests \X Nat]
                       /\ \A o \in DOMAIN disk[f] : disk[f][o][2] <= Parts[disk[f][o][1]][f]
PeerOK == peer \in [Requests -> [asked : BOOLEAN, files : SUBSET Files, sent : [Files -> Nat]]]

LEMMA TypeSplit == TypeOK <=> ScalarsOK /\ ResultsOK /\ PosOK /\ DiskOK /\ PeerOK
  BY DEF TypeOK, ScalarsOK, ResultsOK, PosOK, DiskOK, PeerOK

(* What the peer has sent keeps its type when one field of one request     *)
(* changes.                                                                *)
LEMMA PeerKeepsType ==
  ASSUME PeerOK, NEW r \in Requests
  PROVE  /\ \A b \in BOOLEAN : peer' = [peer EXCEPT ![r].asked = b] => PeerOK'
         /\ \A F \in SUBSET Files : peer' = [peer EXCEPT ![r].files = F] => PeerOK'
         /\ \A f \in Files : peer' = [peer EXCEPT ![r].sent[f] = @ + 1] => PeerOK'
<1>1. ASSUME NEW b \in BOOLEAN, peer' = [peer EXCEPT ![r].asked = b]
      PROVE  PeerOK'
  BY <1>1 DEF PeerOK
<1>2. ASSUME NEW F \in SUBSET Files, peer' = [peer EXCEPT ![r].files = F]
      PROVE  PeerOK'
  BY <1>2 DEF PeerOK
<1>3. ASSUME NEW f \in Files, peer' = [peer EXCEPT ![r].sent[f] = @ + 1]
      PROVE  PeerOK'
  <2>1. [peer[r].sent EXCEPT ![f] = @ + 1] \in [Files -> Nat]
    BY DEF PeerOK
  <2>2. peer' = [peer EXCEPT ![r] = [peer[r] EXCEPT !.sent = [peer[r].sent EXCEPT ![f] = @ + 1]]]
    BY <1>3
  <2>3. [peer[r] EXCEPT !.sent = [peer[r].sent EXCEPT ![f] = @ + 1]]
          \in [asked : BOOLEAN, files : SUBSET Files, sent : [Files -> Nat]]
    BY <2>1 DEF PeerOK
  <2> QED
    BY <2>2, <2>3 DEF PeerOK
<1> QED
  BY <1>1, <1>2, <1>3

(* So do the results of a Download that has just begun and of one that     *)
(* closes its files.                                                       *)
LEMMA ResultsKeepType ==
  ASSUME ResultsOK
  PROVE  /\ results' = [f \in {} |-> New] => ResultsOK'
         /\ results' = [f \in DOMAIN results |->
              IF results[f].mFile = "none" THEN results[f] ELSE [results[f] EXCEPT !.mFile = "closed"]]
                => ResultsOK'
         /\ \A F \in SUBSET Files :
              results' = [f \in DOMAIN results \union F |->
                IF f \in DOMAIN results THEN results[f] ELSE New] => ResultsOK'
         /\ \A f \in DOMAIN results :
              /\ results' = [results EXCEPT ![f].mFile = "open"] => ResultsOK'
              /\ results' = [results EXCEPT ![f] = [mFile |-> "none", mIsDone |-> TRUE]] => ResultsOK'
<1> USE DEF ResultsOK, Results, New
<1>1. results' = [f \in {} |-> New] => ResultsOK'
  <2> SUFFICES ASSUME results' = [f \in {} |-> New] PROVE ResultsOK'
    OBVIOUS
  <2>1. DOMAIN results' = {}
    OBVIOUS
  <2>2. results' = [f \in DOMAIN results' |-> New]
    BY <2>1
  <2> QED
    BY <2>1, <2>2
<1>2. ASSUME results' = [f \in DOMAIN results |->
        IF results[f].mFile = "none" THEN results[f] ELSE [results[f] EXCEPT !.mFile = "closed"]]
      PROVE  ResultsOK'
  <2>1. DOMAIN results' = DOMAIN results
    BY <1>2
  <2>2. \A f \in DOMAIN results : results'[f] \in Results
    BY <1>2
  <2> QED
    BY <1>2, <2>1, <2>2
<1>3. ASSUME NEW F \in SUBSET Files,
             results' = [f \in DOMAIN results \union F |->
               IF f \in DOMAIN results THEN results[f] ELSE New]
      PROVE  ResultsOK'
  BY <1>3
<1>4. ASSUME NEW f \in DOMAIN results, results' = [results EXCEPT ![f].mFile = "open"]
      PROVE  ResultsOK'
  BY <1>4
<1>5. ASSUME NEW f \in DOMAIN results,
             results' = [results EXCEPT ![f] = [mFile |-> "none", mIsDone |-> TRUE]]
      PROVE  ResultsOK'
  BY <1>5
<1> QED
  BY <1>1, <1>2, <1>3, <1>4, <1>5

(* Every step of the thread in Download keeps the types.                   *)
LEMMA DownloadKeepsTypes ==
  ASSUME TypeOK, DownloadThread
  PROVE  TypeOK'
<1> USE DEF taskVars, sigVars, fileVars
<1>0. ScalarsOK /\ ResultsOK /\ PosOK /\ DiskOK /\ PeerOK
  BY TypeSplit
<1>1. PosOK' /\ DiskOK'
  BY <1>0 DEF PosOK, DiskOK, DownloadThread, SendImageContentRequest, SendFails, TestFinished,
              Sleep, Return, ReturnFails
<1>2. ResultsOK'
  <2>1. UNCHANGED results => ResultsOK'
    BY <1>0 DEF ResultsOK
  <2> QED
    BY <1>0, <2>1, ResultsKeepType
    DEF DownloadThread, SendImageContentRequest, SendFails, TestFinished, Sleep, Return, ReturnFails
<1>3. PeerOK'
  <2>1. CASE UNCHANGED peer
    BY <1>0, <2>1 DEF PeerOK
  <2>2. CASE SendImageContentRequest
    <3>1. mRequestID + 1 \in Requests
      BY <1>0, <2>2, DownloaderAssumption DEF ScalarsOK, SendImageContentRequest, Requests
    <3>2. peer' = [peer EXCEPT ![mRequestID + 1].asked = TRUE]
      BY <2>2 DEF SendImageContentRequest
    <3> QED
      BY <1>0, <3>1, <3>2, PeerKeepsType
  <2> QED
    BY <2>1, <2>2 DEF DownloadThread, SendFails, TestFinished, Sleep, Return, ReturnFails
<1>4. ScalarsOK'
  <2> USE <1>0 DEF ScalarsOK, Errors
  <2>1. CASE SendImageContentRequest \/ SendFails
    BY <2>1, DownloaderAssumption DEF SendImageContentRequest, SendFails
  <2>2. CASE TestFinished \/ Sleep
    BY <2>2 DEF TestFinished, Sleep
  <2>3. CASE Return
    BY <2>3 DEF Return
  <2>4. CASE ReturnFails
    BY <2>4 DEF ReturnFails
  <2> QED
    BY <2>1, <2>2, <2>3, <2>4 DEF DownloadThread
<1> QED
  BY <1>1, <1>2, <1>3, <1>4, TypeSplit, PTL

(* A chunk that is written, whole or in part, lands in its file.           *)
LEMMA DiskKeepsType ==
  ASSUME TypeOK, NEW r \in Requests, NEW f \in Files, ChunkArrives(r, f), WriteChunk(r, f)
  PROVE  PosOK' /\ DiskOK' /\ timer' \in BOOLEAN /\ short' \in 0..MaxShort
<1>0. ScalarsOK /\ PosOK /\ DiskOK /\ PeerOK
  BY TypeSplit
<1>1. Offset(f) \in Nat
  BY <1>0 DEF Offset, PosOK
<1>2. PICK part \in {NextPart(r, f), Torn} :
        disk' = [disk EXCEPT ![f] = Put(disk[f], Offset(f) + 1, <<r, part>>)]
  BY DEF WriteChunk
<1>3. part \in Nat /\ part <= Parts[r][f]
  <2>1. peer[r].sent[f] \in Nat /\ peer[r].sent[f] < Parts[r][f]
    BY <1>0 DEF ChunkArrives, PeerOK
  <2> QED
    BY <2>1, PartsFit DEF NextPart, Torn
<1>4. PosOK'
  BY <1>0, <1>1 DEF PosOK, WriteChunk
<1>5. DiskOK'
  <2>1. /\ DOMAIN Put(disk[f], Offset(f) + 1, <<r, part>>) = DOMAIN disk[f] \union {Offset(f) + 1}
        /\ Put(disk[f], Offset(f) + 1, <<r, part>>)
             \in [DOMAIN disk[f] \union {Offset(f) + 1} -> Requests \X Nat]
    BY <1>0, <1>3 DEF Put, DiskOK
  <2>2. disk'[f] = Put(disk[f], Offset(f) + 1, <<r, part>>)
    BY <1>0, <1>2 DEF DiskOK
  <2>3. DOMAIN disk' = Files /\ \A g \in Files : g # f => disk'[g] = disk[g]
    BY <1>0, <1>2 DEF DiskOK
  <2>4. DOMAIN disk[f] \union {Offset(f) + 1} \subseteq Nat \ {0}
    BY <1>0, <1>1 DEF DiskOK
  <2>5. /\ DOMAIN disk'[f] \subseteq Nat \ {0}
        /\ disk'[f] \in [DOMAIN disk'[f] -> Requests \X Nat]
    BY <2>1, <2>2, <2>4
  <2>6. ASSUME NEW o \in DOMAIN disk'[f]
        PROVE  disk'[f][o][2] <= Parts[disk'[f][o][1]][f]
    <3>1. disk'[f][o] = <<r, part>> \/ (o \in DOMAIN disk[f] /\ disk'[f][o] = disk[f][o])
      BY <2>2, <2>6 DEF Put
    <3> QED
      BY <1>0, <1>3, <3>1 DEF DiskOK
  <2>7. ASSUME NEW g \in Files, g # f
        PROVE  /\ DOMAIN disk'[g] \subseteq Nat \ {0}
               /\ disk'[g] \in [DOMAIN disk'[g] -> Requests \X Nat]
               /\ \A o \in DOMAIN disk'[g] : disk'[g][o][2] <= Parts[disk'[g][o][1]][g]
    <3>1. disk'[g] = disk[g]
      BY <2>3, <2>7
    <3> QED
      BY <1>0, <3>1 DEF DiskOK
  <2> QED
    BY <2>3, <2>5, <2>6, <2>7 DEF DiskOK
<1>6. timer' \in BOOLEAN /\ short' \in 0..MaxShort
  BY <1>0, DownloaderAssumption DEF WriteChunk, ScalarsOK
<1> QED
  BY <1>4, <1>5, <1>6

(* Its file is the one the results name.                                   *)
LEMMA OpenedKeepsType ==
  ASSUME ResultsOK, NEW f \in DOMAIN results, results' = [results EXCEPT ![f].mFile = Opened(f)]
  PROVE  ResultsOK'
<1>1. Opened(f) \in {"none", "open", "closed"}
  BY DEF Opened, ResultsOK, Results
<1>2. [results[f] EXCEPT !.mFile = Opened(f)] \in Results
  BY <1>1 DEF ResultsOK, Results
<1>3. results' = [results EXCEPT ![f] = [results[f] EXCEPT !.mFile = Opened(f)]]
  OBVIOUS
<1> QED
  BY <1>2, <1>3 DEF ResultsOK

(* Every step of the handler keeps the types.                              *)
LEMMA HandlerKeepsTypes ==
  ASSUME TypeOK, HandlerThread
  PROVE  TypeOK'
<1> USE DEF taskVars, sigVars, fileVars
<1>0. ScalarsOK /\ ResultsOK /\ PosOK /\ DiskOK /\ PeerOK
  BY TypeSplit
<1> PICK r \in Requests :
       \/ \E F \in SUBSET Files \ {{}} : ReceiveImageContentInfo(r, F)
       \/ ReceiveImageContentError(r)
       \/ \E f \in Files : ChunkNotFound(r, f) \/ ChunkFails(r, f) \/ ReceiveFileChunk(r, f)
  BY DEF HandlerThread
<1>1. ASSUME NEW F \in SUBSET Files, ReceiveImageContentInfo(r, F)
      PROVE  TypeOK'
  <2>1. PeerOK'
    BY <1>0, <1>1, PeerKeepsType DEF ReceiveImageContentInfo
  <2>2. UNCHANGED results => ResultsOK'
    BY <1>0 DEF ResultsOK
  <2>3. ResultsOK'
    BY <1>0, <1>1, <2>2, ResultsKeepType DEF ReceiveImageContentInfo
  <2>4. PosOK' /\ DiskOK' /\ ScalarsOK'
    BY <1>0, <1>1 DEF PosOK, DiskOK, ScalarsOK, Errors, ReceiveImageContentInfo
  <2> QED
    BY <2>1, <2>3, <2>4, TypeSplit, PTL
<1>2. CASE ReceiveImageContentError(r)
  <2>1. PeerOK'
    BY <1>0, <1>2, PeerKeepsType DEF ReceiveImageContentError
  <2>2. ResultsOK' /\ PosOK' /\ DiskOK'
    BY <1>0, <1>2 DEF PosOK, DiskOK, ResultsOK, ReceiveImageContentError
  <2>3. ScalarsOK'
    BY <1>0, <1>2 DEF ScalarsOK, Errors, ReceiveImageContentError, SetErrorAndNotify, Wake
  <2> QED
    BY <2>1, <2>2, <2>3, TypeSplit, PTL
<1>3. ASSUME NEW f \in Files, ChunkArrives(r, f)
      PROVE  PeerOK' /\ late' \in BOOLEAN
  <2>1. PeerOK'
    BY <1>0, <1>3, PeerKeepsType DEF ChunkArrives
  <2> QED
    BY <1>0, <1>3, <2>1 DEF ChunkArrives, ScalarsOK, InCall
<1>4. ASSUME NEW f \in Files, ChunkNotFound(r, f)
      PROVE  TypeOK'
  <2>1. ResultsOK' /\ PosOK' /\ DiskOK'
    BY <1>0, <1>4 DEF PosOK, DiskOK, ResultsOK, ChunkNotFound
  <2>2. PeerOK' /\ late' \in BOOLEAN
    BY <1>3, <1>4 DEF ChunkNotFound
  <2>3. ScalarsOK'
    BY <1>0, <1>4, <2>2 DEF ScalarsOK, Errors, ChunkNotFound, SetErrorAndNotify, Wake
  <2> QED
    BY <2>1, <2>2, <2>3, TypeSplit, PTL
<1>5. ASSUME NEW f \in Files, ChunkFails(r, f)
      PROVE  TypeOK'
  <2>1. f \in DOMAIN results
    BY <1>5 DEF ChunkFails
  <2>2. UNCHANGED results => ResultsOK'
    BY <1>0 DEF ResultsOK
  <2>3. ResultsOK'
    BY <1>0, <1>5, <2>1, <2>2, ResultsKeepType, OpenedKeepsType DEF ChunkFails
  <2>4. PosOK' /\ DiskOK' /\ timer' \in BOOLEAN /\ short' \in 0..MaxShort
    <3>1. CASE WriteChunk(r, f)
      BY <1>5, <3>1, DiskKeepsType DEF ChunkFails
    <3>2. CASE UNCHANGED <<disk, timer, short>> /\ (UNCHANGED pos \/ pos' = [pos EXCEPT ![f] = 0])
      BY <1>0, <1>5, <3>2 DEF ChunkFails, PosOK, DiskOK, ScalarsOK
    <3> QED
      BY <1>5, <3>1, <3>2 DEF ChunkFails
  <2>5. PeerOK' /\ late' \in BOOLEAN
    BY <1>3, <1>5 DEF ChunkFails
  <2>6. ScalarsOK'
    <3>1. /\ mFinishDownload' = TRUE /\ mErrProcessImageRequest' = "failed"
          /\ caller' \in {caller, "woken"} /\ stray' \in BOOLEAN
          /\ UNCHANGED <<mRequestID, ret, callback, expired>>
      BY <1>0, <1>5 DEF ScalarsOK, ChunkFails, SetErrorAndNotify, Wake
    <3> QED
      BY <1>0, <2>4, <2>5, <3>1 DEF ScalarsOK, Errors
  <2> QED
    BY <2>3, <2>4, <2>5, <2>6, TypeSplit, PTL
<1>6. ASSUME NEW f \in Files, ReceiveFileChunk(r, f)
      PROVE  TypeOK'
  <2>1. f \in DOMAIN results
    BY <1>6 DEF ReceiveFileChunk
  <2>2. ResultsOK'
    BY <1>0, <1>6, <2>1, ResultsKeepType, OpenedKeepsType DEF ReceiveFileChunk
  <2>3. PosOK' /\ DiskOK' /\ timer' \in BOOLEAN /\ short' \in 0..MaxShort
    BY <1>6, DiskKeepsType DEF ReceiveFileChunk
  <2>4. PeerOK' /\ late' \in BOOLEAN
    BY <1>3, <1>6 DEF ReceiveFileChunk
  <2>5. /\ mFinishDownload' \in BOOLEAN
        /\ caller' \in {caller, "woken"}
        /\ stray' \in BOOLEAN
    BY <1>0, <1>6 DEF ScalarsOK, ReceiveFileChunk, Wake
  <2>6. ScalarsOK'
    BY <1>0, <1>6, <2>3, <2>4, <2>5 DEF ScalarsOK, ReceiveFileChunk
  <2> QED
    BY <2>2, <2>3, <2>4, <2>6, TypeSplit, PTL
<1> QED
  BY <1>1, <1>2, <1>4, <1>5, <1>6

(* TypeOK is an invariant, for any files, any number of parts and any      *)
(* number of requests.                                                     *)
THEOREM TypeCorrect == Spec => []TypeOK
<1>1. Init => TypeOK
  <2> SUFFICES ASSUME Init PROVE TypeOK
    OBVIOUS
  <2>1. ScalarsOK /\ PosOK
    <3>1. 0 \in 0..MaxRequests /\ 0 \in 0..MaxShort
      BY DownloaderAssumption
    <3>2. ScalarsOK
      BY <3>1 DEF Init, ScalarsOK, Errors
    <3> QED
      BY <3>2 DEF Init, PosOK
  <2>4. ResultsOK
    <3>1. DOMAIN results = {} /\ results = [f \in DOMAIN results |-> New]
      BY DEF Init
    <3> QED
      BY <3>1 DEF ResultsOK, Results, New
  <2>2. PeerOK
    BY DEF Init, PeerOK
  <2>3. DiskOK
    <3>1. DOMAIN disk = Files /\ \A f \in Files : disk[f] = [o \in {} |-> <<1, Torn>>]
      BY DEF Init
    <3>2. ASSUME NEW f \in Files
          PROVE  /\ DOMAIN disk[f] \subseteq Nat \ {0}
                 /\ disk[f] \in [DOMAIN disk[f] -> Requests \X Nat]
                 /\ \A o \in DOMAIN disk[f] : disk[f][o][2] <= Parts[disk[f][o][1]][f]
      <4>1. DOMAIN disk[f] = {}
        BY <3>1
      <4>2. disk[f] = [o \in DOMAIN disk[f] |-> <<1, Torn>>]
        BY <3>1, <4>1
      <4> QED
        BY <4>1, <4>2
    <3> QED
      BY <3>1, <3>2 DEF DiskOK
  <2> QED
    BY <2>1, <2>2, <2>3, <2>4, TypeSplit
<1>2. TypeOK /\ [Next]_vars => TypeOK'
  <2> SUFFICES ASSUME TypeOK, [Next]_vars PROVE TypeOK'
    OBVIOUS
  <2> USE DEF taskVars, sigVars, fileVars
  <2>0. ScalarsOK /\ ResultsOK /\ PosOK /\ DiskOK /\ PeerOK
    BY TypeSplit
  <2>1. CASE Begin \/ TimerFails
    <3>1. results' = [f \in {} |-> New] /\ UNCHANGED <<pos, disk, peer>>
      BY <2>1 DEF Begin, TimerFails
    <3>2. ResultsOK' /\ PosOK' /\ DiskOK' /\ PeerOK'
      BY <2>0, <3>1, ResultsKeepType DEF PosOK, DiskOK, PeerOK
    <3>3. ScalarsOK'
      <4>1. short' = 0 /\ 0 \in 0..MaxShort
        BY <2>1, DownloaderAssumption DEF Begin, TimerFails
      <4>2. CASE Begin
        BY <2>0, <4>1, <4>2 DEF ScalarsOK, Errors, Begin
      <4>3. CASE TimerFails
        BY <2>0, <4>1, <4>3 DEF ScalarsOK, Errors, TimerFails
      <4> QED
        BY <2>1, <4>2, <4>3
    <3> QED
      BY <3>2, <3>3, TypeSplit, PTL
  <2>2. CASE DownloadThread
    BY <2>2, DownloadKeepsTypes
  <2>3. CASE Expires \/ Callback \/ UNCHANGED vars
    <3>1. UNCHANGED <<results, pos, disk, peer>>
      BY <2>3 DEF Expires, Callback, vars
    <3>2. ResultsOK' /\ PosOK' /\ DiskOK' /\ PeerOK'
      BY <2>0, <3>1 DEF ResultsOK, PosOK, DiskOK, PeerOK
    <3>3. ScalarsOK'
      <4>1. CASE Expires
        BY <2>0, <4>1 DEF ScalarsOK, Errors, Expires
      <4>2. CASE Callback
        BY <2>0, <4>2 DEF ScalarsOK, Errors, Callback, Wake
      <4>3. CASE UNCHANGED vars
        BY <2>0, <4>3 DEF ScalarsOK, Errors, vars
      <4> QED
        BY <2>3, <4>1, <4>2, <4>3
    <3> QED
      BY <3>2, <3>3, TypeSplit, PTL
  <2>4. CASE HandlerThread
    BY <2>4, HandlerKeepsTypes
  <2> QED
    BY <2>1, <2>2, <2>3, <2>4 DEF Next, Done
<1> QED
  BY <1>1, <1>2, PTL DEF Spec

-----------------------------------------------------------------------------
(* What the conjuncts of the invariant depend on.                          *)
LEMMA SameState ==
  ASSUME IInv, UNCHANGED <<mRequestID, peer>>, UNCHANGED <<results, pos, disk>>,
         UNCHANGED <<mFinishDownload, mErrProcessImageRequest, ret>>,
         caller' = caller \/ (Active /\ Active' /\ (caller' = "finished" => mFinishDownload)),
         UNCHANGED <<late, expired, short>>
  PROVE  IInv'
<1> USE DEF IInv, Active
<1>1. FutureInv' /\ DiskInv'
  BY DEF FutureInv, DiskInv
<1>2. ActiveInv'
  BY DEF ActiveInv
<1>3. ProgressInv'
  BY DEF ProgressInv, Written
<1>4. ReturnInv'
  BY DEF ReturnInv
<1>5. OkIsComplete'
  BY DEF OkIsComplete, Complete
<1> QED
  BY <1>1, <1>2, <1>3, <1>4, <1>5

(* What is on the disk needs an announcement that nothing takes back.      *)
LEMMA DiskKeepsInv ==
  ASSUME TypeOK, DiskInv, UNCHANGED disk,
         \A q \in Requests : peer[q].files # {} => peer'[q].files # {}
  PROVE  DiskInv'
<1>1. \A f \in Files : \A o \in DOMAIN disk[f] : disk[f][o][1] \in Requests
  BY DEF TypeOK
<1> QED
  BY <1>1 DEF DiskInv

(* A chunk that belongs to the Download under way is for one of its files. *)
LEMMA OwnChunk ==
  ASSUME ActiveInv, NEW r \in Requests, NEW f \in Files, ChunkArrives(r, f), ~late'
  PROVE  r = mRequestID /\ Active /\ ~late /\ f \in DOMAIN results /\ results[f].mFile # "closed"
  BY DEF ActiveInv, ChunkArrives, InCall, LockFree, Active

(* The announced files of every request but r, and of r as well.           *)
LEMMA ChunkKeepsFuture ==
  ASSUME TypeOK, FutureInv, NEW r \in Requests, NEW f \in Files, ChunkArrives(r, f),
         mRequestID' = mRequestID
  PROVE  /\ FutureInv'
         /\ \A q \in Requests : peer'[q].files = peer[q].files
<1>1. peer \in [Requests -> [asked : BOOLEAN, files : SUBSET Files, sent : [Files -> Nat]]]
  BY DEF TypeOK
<1>2. \A q \in Requests : peer'[q].files = peer[q].files /\ peer'[q].asked = peer[q].asked
  BY <1>1 DEF ChunkArrives
<1>3. \A q \in Requests : q # r => peer'[q] = peer[q]
  BY <1>1 DEF ChunkArrives
<1>4. peer[r].files # {}
  BY DEF ChunkArrives
<1> QED
  BY <1>2, <1>3, <1>4 DEF FutureInv

(* A chunk of the Download under way is written where it belongs.          *)
LEMMA ChunkIsWritten ==
  ASSUME TypeOK, IInv, NEW r \in Requests, NEW f \in Files, ReceiveFileChunk(r, f)
  PROVE  ProgressInv'
<1> SUFFICES ASSUME Active', ~late', ~expired', short' = 0, mErrProcessImageRequest' = "none"
             PROVE  /\ \A g \in DOMAIN results' : Written(g)'
                    /\ mFinishDownload' => /\ DOMAIN results' # {}
                                           /\ \A g \in DOMAIN results' : results'[g].mIsDone
  BY DEF ProgressInv
<1>1. r = mRequestID /\ Active /\ ~late /\ f \in DOMAIN results /\ results[f].mFile # "closed"
  BY OwnChunk DEF IInv, ReceiveFileChunk
<1>2. ~expired /\ mErrProcessImageRequest = "none"
  BY DEF ReceiveFileChunk
<1>13. /\ short = 0
       /\ disk' = [disk EXCEPT ![f] = Put(disk[f], Offset(f) + 1, <<r, NextPart(r, f)>>)]
       /\ pos' = [pos EXCEPT ![f] = Offset(f) + 1]
  <2>1. short \in Nat
    BY DownloaderAssumption DEF TypeOK
  <2>2. WriteChunk(r, f)
    BY DEF ReceiveFileChunk
  <2>3. PICK part \in {NextPart(r, f), Torn} :
          /\ disk' = [disk EXCEPT ![f] = Put(disk[f], Offset(f) + 1, <<r, part>>)]
          /\ IF part = Torn THEN short < MaxShort /\ short' = short + 1
                            ELSE UNCHANGED short
    BY <2>2 DEF WriteChunk
  <2>4. part # Torn
    BY <2>1, <2>3
  <2>5. pos' = [pos EXCEPT ![f] = Offset(f) + 1]
    BY <2>2 DEF WriteChunk
  <2> QED
    BY <2>3, <2>4, <2>5
<1>3. /\ \A g \in DOMAIN results : Written(g)
      /\ mFinishDownload => \A g \in DOMAIN results : results[g].mIsDone
  BY <1>1, <1>2, <1>13 DEF IInv, ProgressInv
<1>4. /\ mRequestID' = mRequestID /\ peer' = [peer EXCEPT ![r].sent[f] = @ + 1]
      /\ peer[r].sent[f] < Parts[r][f] /\ peer[r].sent[f] \in Nat
      /\ peer'[r].sent[f] = peer[r].sent[f] + 1
      /\ \A g \in Files : g # f => peer'[r].sent[g] = peer[r].sent[g]
  BY DEF ReceiveFileChunk, ChunkArrives, TypeOK, taskVars
<1>5. ~results[f].mIsDone /\ results[f].mFile \in {"none", "open"}
  <2>1. results[f] \in Results
    BY <1>1 DEF TypeOK
  <2> QED
    BY <1>1, <1>3, <1>4, <2>1 DEF Written, Results
<1>6. Offset(f) = peer[r].sent[f]
  BY <1>1, <1>3, <1>5 DEF Offset, Written
<1>7. /\ disk'[f] = Put(disk[f], peer[r].sent[f] + 1, <<r, peer[r].sent[f] + 1>>)
      /\ \A g \in Files : g # f => disk'[g] = disk[g]
      /\ pos'[f] = peer[r].sent[f] + 1
      /\ \A g \in Files : g # f => pos'[g] = pos[g]
  BY <1>6, <1>13 DEF NextPart, TypeOK
<1>8. /\ DOMAIN results' = DOMAIN results
      /\ \A g \in DOMAIN results : g # f => results'[g] = results[g]
      /\ IF peer[r].sent[f] + 1 = Parts[r][f]
           THEN results'[f] = [mFile |-> "none", mIsDone |-> TRUE]
           ELSE results'[f].mFile = "open" /\ results'[f].mIsDone = results[f].mIsDone
  <2>1. results \in [DOMAIN results -> Results]
    BY DEF TypeOK
  <2>2. CASE NextPart(r, f) = Parts[r][f]
    BY <1>1, <2>1, <2>2 DEF ReceiveFileChunk, NextPart
  <2>3. CASE NextPart(r, f) # Parts[r][f]
    <3>1. Opened(f) = "open"
      BY <1>5 DEF Opened
    <3> QED
      BY <1>1, <2>1, <2>3, <3>1 DEF ReceiveFileChunk, NextPart, Results
  <2> QED
    BY <2>2, <2>3
<1>9. \A g \in DOMAIN results : g # f => Written(g)'
  <2> SUFFICES ASSUME NEW g \in DOMAIN results, g # f PROVE Written(g)'
    OBVIOUS
  <2>1. g \in Files
    BY DEF TypeOK
  <2>2. results'[g] = results[g] /\ pos'[g] = pos[g] /\ disk'[g] = disk[g]
        /\ peer'[mRequestID'].sent[g] = peer[mRequestID].sent[g]
    BY <1>1, <1>4, <1>7, <1>8, <2>1
  <2> QED
    BY <1>3, <1>4, <2>2 DEF Written
<1>10. Written(f)'
  <2> DEFINE n == peer[r].sent[f]
  <2>0. n \in Nat /\ Parts[r][f] \in Nat
    BY <1>4, PartsFit
  <2>1. /\ DOMAIN disk'[f] = DOMAIN disk[f] \union {n + 1}
        /\ disk'[f][n + 1] = <<r, n + 1>>
        /\ \A o \in DOMAIN disk[f] : o # n + 1 => disk'[f][o] = disk[f][o]
    BY <1>7 DEF Put
  <2>2. /\ \A p \in 1..n : p \in DOMAIN disk[f] /\ disk[f][p] = <<r, p>>
        /\ \A o \in DOMAIN disk[f] : o > n => disk[f][o][1] < r
        /\ DOMAIN disk[f] \subseteq Nat
    BY <1>1, <1>3 DEF Written, TypeOK
  <2>3. \A p \in 1..(n + 1) : p \in DOMAIN disk'[f] /\ disk'[f][p] = <<r, p>>
    <3> SUFFICES ASSUME NEW p \in 1..(n + 1)
                 PROVE  p \in DOMAIN disk'[f] /\ disk'[f][p] = <<r, p>>
      OBVIOUS
    <3>1. CASE p = n + 1
      BY <2>1, <3>1
    <3>2. CASE p # n + 1
      <4>1. p \in 1..n
        BY <2>0, <3>2
      <4> QED
        BY <2>1, <2>2, <3>2, <4>1
    <3> QED
      BY <3>1, <3>2
  <2>4. \A o \in DOMAIN disk'[f] : o > n + 1 => disk'[f][o][1] < r
    <3> SUFFICES ASSUME NEW o \in DOMAIN disk'[f], o > n + 1
                 PROVE  disk'[f][o][1] < r
      OBVIOUS
    <3>1. o \in DOMAIN disk[f] /\ o # n + 1 /\ o > n
      BY <2>0, <2>1, <2>2
    <3> QED
      BY <2>1, <2>2, <3>1
  <2>5. peer'[mRequestID'].sent[f] = n + 1 /\ mRequestID' = r
    BY <1>1, <1>4
  <2>6. pos'[f] = n + 1 /\ n < Parts[r][f]
    BY <1>4, <1>7
  <2>7. ~results[f].mIsDone
    BY <1>5
  <2> HIDE DEF n
  <2>8. IF n + 1 = Parts[r][f]
          THEN results'[f] = [mFile |-> "none", mIsDone |-> TRUE]
          ELSE results'[f].mFile = "open" /\ results'[f].mIsDone = results[f].mIsDone
    BY <1>8 DEF n
  <2> QED
    BY <2>0, <2>3, <2>4, <2>5, <2>6, <2>7, <2>8 DEF Written
<1>11. ASSUME mFinishDownload'
       PROVE  \A g \in DOMAIN results' : results'[g].mIsDone
  <2>1. ~mFinishDownload
    BY <1>1, <1>3, <1>5
  <2> QED
    BY <1>11, <2>1 DEF ReceiveFileChunk, IsAllDownloadDone
<1> QED
  BY <1>1, <1>8, <1>9, <1>10, <1>11

(* Every step of the thread in Download keeps the invariant.               *)
LEMMA DownloadKeepsInv ==
  ASSUME TypeOK, IInv, DownloadThread
  PROVE  IInv'
<1> USE DEF taskVars, sigVars, fileVars
<1>1. CASE SendImageContentRequest
  <2>1. mRequestID \in Nat /\ mRequestID + 1 \in Requests
    BY <1>1, DownloaderAssumption DEF TypeOK, SendImageContentRequest, Requests
  <2>2. \A r \in Requests : r \in Int
    BY DEF Requests
  <2>3. /\ mRequestID' = mRequestID + 1
        /\ \A r \in Requests : peer'[r].files = peer[r].files /\ peer'[r].sent = peer[r].sent
        /\ \A r \in Requests : r # mRequestID + 1 => peer'[r] = peer[r]
    BY <1>1, <2>1 DEF SendImageContentRequest, TypeOK
  <2>4. FutureInv' /\ DiskInv'
    <3>1. FutureInv'
      BY <2>1, <2>2, <2>3 DEF IInv, FutureInv
    <3>2. UNCHANGED disk
      BY <1>1 DEF SendImageContentRequest
    <3> QED
      BY <2>3, <3>1, <3>2, DiskKeepsInv DEF IInv
  <2>5. peer'[mRequestID'].files = {} /\ DOMAIN results' = {}
    BY <1>1, <2>1, <2>3 DEF IInv, FutureInv, ActiveInv, SendImageContentRequest
  <2>6. ActiveInv'
    BY <1>1, <2>1, <2>3, <2>5 DEF ActiveInv, Active, SendImageContentRequest
  <2>7. ProgressInv'
    BY <1>1, <2>5 DEF IInv, ActiveInv, ProgressInv, SendImageContentRequest
  <2>8. ret' = ret /\ ret # "ok" /\ late' = late
    BY <1>1 DEF IInv, ReturnInv, SendImageContentRequest
  <2> QED
    BY <2>4, <2>6, <2>7, <2>8 DEF IInv, ReturnInv, OkIsComplete
<1>2. CASE SendFails
  <2>1. mRequestID \in Nat /\ mRequestID' = mRequestID + 1
    BY <1>2, DownloaderAssumption DEF TypeOK, SendFails
  <2>2. \A r \in Requests : r \in Int
    BY DEF Requests
  <2>3. FutureInv'
    BY <1>2, <2>1, <2>2 DEF IInv, FutureInv, SendFails
  <2> QED
    BY <1>2, <2>3 DEF IInv, DiskInv, ActiveInv, Active, ProgressInv, ReturnInv, OkIsComplete, SendFails
<1>3. CASE TestFinished
  BY <1>3, SameState DEF TestFinished, Active
<1>4. CASE Sleep
  BY <1>4, SameState DEF Sleep, Active
<1>5. CASE Return
  <2>1. FutureInv' /\ DiskInv'
    BY <1>5 DEF IInv, FutureInv, DiskInv, Return
  <2>2. ActiveInv' /\ ProgressInv'
    BY <1>5 DEF ActiveInv, ProgressInv, Active, Return
  <2>3. Active /\ mFinishDownload
    BY <1>5 DEF IInv, ActiveInv, Active, Return
  <2>4. ReturnInv'
    BY <1>5, <2>3 DEF IInv, ActiveInv, ReturnInv, Return
  <2>5. ASSUME ret' = "ok", ~late', ~expired', short' = 0
        PROVE  /\ peer[mRequestID].files # {}
               /\ \A f \in peer[mRequestID].files : Complete(f, mRequestID)
    <3>1. ~late /\ ~expired /\ short = 0 /\ mErrProcessImageRequest = "none"
      BY <1>5, <2>5 DEF Return, TypeOK, Errors
    <3>2. /\ DOMAIN results # {} /\ DOMAIN results = peer[mRequestID].files
          /\ \A f \in DOMAIN results : Written(f) /\ results[f].mIsDone
      BY <2>3, <3>1 DEF IInv, ActiveInv, ProgressInv
    <3> QED
      BY <3>2 DEF Written, Complete
  <2>6. OkIsComplete'
    BY <1>5, <2>5 DEF OkIsComplete, Complete, Return
  <2> QED
    BY <2>1, <2>2, <2>4, <2>6 DEF IInv
<1>6. CASE ReturnFails
  <2>1. FutureInv' /\ DiskInv'
    BY <1>6 DEF IInv, FutureInv, DiskInv, ReturnFails
  <2> QED
    BY <1>6, <2>1 DEF IInv, ActiveInv, Active, ProgressInv, ReturnInv, OkIsComplete, ReturnFails
<1> QED
  BY <1>1, <1>2, <1>3, <1>4, <1>5, <1>6 DEF DownloadThread

(* Every step of the handler keeps the invariant.                          *)
LEMMA HandlerKeepsInv ==
  ASSUME TypeOK, IInv, HandlerThread
  PROVE  IInv'
<1> USE DEF taskVars, sigVars, fileVars
<1> PICK r \in Requests :
       \/ \E F \in SUBSET Files \ {{}} : ReceiveImageContentInfo(r, F)
       \/ ReceiveImageContentError(r)
       \/ \E f \in Files : ChunkNotFound(r, f) \/ ChunkFails(r, f) \/ ReceiveFileChunk(r, f)
  BY DEF HandlerThread
<1>0. peer \in [Requests -> [asked : BOOLEAN, files : SUBSET Files, sent : [Files -> Nat]]]
  BY DEF TypeOK
<1>1. ASSUME NEW F \in SUBSET Files \ {{}}, ReceiveImageContentInfo(r, F)
      PROVE  IInv'
  <2>1. /\ \A q \in Requests : peer'[q].asked = peer[q].asked /\ peer'[q].sent = peer[q].sent
        /\ \A q \in Requests : q # r => peer'[q].files = peer[q].files
        /\ peer'[r].files = F /\ peer[r].files = {} /\ peer[r].asked
        /\ \A f \in Files : peer[r].sent[f] = 0
    BY <1>0, <1>1 DEF ReceiveImageContentInfo, IInv, FutureInv
  <2>2. FutureInv' /\ DiskInv'
    <3>1. FutureInv'
      BY <1>1, <2>1 DEF IInv, FutureInv, ReceiveImageContentInfo
    <3>2. UNCHANGED disk /\ \A q \in Requests : peer[q].files # {} => peer'[q].files # {}
      BY <1>1, <2>1 DEF ReceiveImageContentInfo
    <3> QED
      BY <3>1, <3>2, DiskKeepsInv DEF IInv
  <2>3. ret = "ok" /\ ~late /\ ~expired /\ short = 0 => r # mRequestID
    BY <2>1 DEF IInv, OkIsComplete
  <2>4. ReturnInv' /\ OkIsComplete'
    BY <1>1, <2>1, <2>3 DEF IInv, ReturnInv, OkIsComplete, Complete, ReceiveImageContentInfo
  <2>5. CASE r # mRequestID
    BY <1>1, <2>1, <2>2, <2>4, <2>5
    DEF IInv, ActiveInv, ProgressInv, Written, Active, ReceiveImageContentInfo
  <2>6. CASE r = mRequestID
    <3>1. Active => DOMAIN results = {}
      BY <2>1, <2>6 DEF IInv, ActiveInv
    <3>2. caller # "sending"
      BY <1>1 DEF ReceiveImageContentInfo, LockFree
    <3>3. Active => results' = [f \in F |-> New]
      BY <1>1, <2>6, <3>1 DEF ReceiveImageContentInfo
    <3>4. ActiveInv'
      BY <1>1, <2>1, <2>6, <3>2, <3>3 DEF IInv, ActiveInv, Active, New, ReceiveImageContentInfo
    <3>5. ProgressInv'
      <4> SUFFICES ASSUME Active', ~late', ~expired', short' = 0, mErrProcessImageRequest' = "none"
                   PROVE  /\ \A f \in DOMAIN results' : Written(f)'
                          /\ ~mFinishDownload'
        BY DEF ProgressInv
      <4>1. Active /\ ~late /\ ~expired /\ short = 0 /\ mErrProcessImageRequest = "none"
        BY <1>1 DEF ReceiveImageContentInfo, Active
      <4>2. ~mFinishDownload'
        BY <1>1, <3>1, <4>1 DEF IInv, ProgressInv, ReceiveImageContentInfo
      <4>3. \A f \in F : Parts[r][f] \in Nat /\ Parts[r][f] >= 1
        BY PartsFit
      <4>4. \A f \in Files : \A o \in DOMAIN disk[f] : disk[f][o][1] < r
        <5> SUFFICES ASSUME NEW f \in Files, NEW o \in DOMAIN disk[f]
                     PROVE  disk[f][o][1] < r
          OBVIOUS
        <5>1. disk[f][o][1] \in Requests /\ r \in Requests
          BY DEF TypeOK
        <5>2. peer[disk[f][o][1]].files # {}
          BY DEF IInv, DiskInv
        <5>3. disk[f][o][1] # r /\ ~(disk[f][o][1] > r)
          BY <2>1, <2>6, <5>1, <5>2 DEF IInv, FutureInv
        <5> QED
          BY <5>1, <5>3, DownloaderAssumption DEF Requests
      <4>5. ASSUME NEW f \in F
            PROVE  Written(f)'
        <5>1. results'[f] = [mFile |-> "none", mIsDone |-> FALSE]
          BY <3>3, <4>1 DEF New
        <5>2. mRequestID' = r /\ peer'[r].sent[f] = 0
          BY <1>1, <2>1, <2>6 DEF ReceiveImageContentInfo
        <5>3. UNCHANGED disk
          BY <1>1 DEF ReceiveImageContentInfo
        <5>4. \A o \in DOMAIN disk'[f] : disk'[f][o][1] < r
          BY <4>4, <5>3
        <5> QED
          BY <4>3, <5>1, <5>2, <5>4 DEF Written
      <4> QED
        BY <3>3, <4>1, <4>2, <4>5
    <3> QED
      BY <2>2, <2>4, <3>4, <3>5 DEF IInv
  <2> QED
    BY <2>5, <2>6
<1>2. CASE ReceiveImageContentError(r)
  <2>1. /\ \A q \in Requests : peer'[q].files = peer[q].files /\ peer'[q].sent = peer[q].sent
        /\ \A q \in Requests : peer'[q].asked => peer[q].asked
    BY <1>0, <1>2 DEF ReceiveImageContentError
  <2>2. FutureInv' /\ DiskInv'
    <3>1. FutureInv' /\ UNCHANGED disk
      BY <1>2, <2>1 DEF IInv, FutureInv, ReceiveImageContentError
    <3> QED
      BY <2>1, <3>1, DiskKeepsInv DEF IInv
  <2>3. caller \in {"idle", "asleep", "woken"} /\ (caller' = caller \/ (caller' = "woken" /\ caller = "asleep"))
    <3>1. caller \in {"idle", "asleep", "woken"}
      BY <1>2 DEF ReceiveImageContentError, LockFree
    <3>2. caller' = caller \/ Wake
      BY <1>2 DEF ReceiveImageContentError, SetErrorAndNotify
    <3> QED
      BY <3>1, <3>2 DEF Wake
  <2>4. ret = "ok" => caller = "idle" /\ (~late /\ ~expired => mRequestID \in Requests)
    BY DEF IInv, ReturnInv
  <2>5. ReturnInv' /\ OkIsComplete'
    BY <1>2, <2>1, <2>3, <2>4 DEF IInv, ReturnInv, OkIsComplete, Complete, ReceiveImageContentError
  <2>6. mErrProcessImageRequest' \in {mErrProcessImageRequest, "failed"}
    BY <1>2 DEF ReceiveImageContentError, SetErrorAndNotify
  <2>7. ActiveInv'
    BY <1>2, <2>1, <2>3, <2>6 DEF IInv, ActiveInv, Active, ReceiveImageContentError
  <2>8. mErrProcessImageRequest' = "none" =>
          mErrProcessImageRequest = "none" /\ mFinishDownload' = mFinishDownload
    BY <1>2 DEF ReceiveImageContentError, SetErrorAndNotify
  <2>9. ProgressInv'
    BY <1>2, <2>1, <2>3, <2>8 DEF IInv, ActiveInv, ProgressInv, Written, Active, ReceiveImageContentError
  <2> QED
    BY <2>2, <2>5, <2>7, <2>9 DEF IInv
<1>3. ASSUME NEW f \in Files, ChunkNotFound(r, f) \/ ChunkFails(r, f) \/ ReceiveFileChunk(r, f)
      PROVE  IInv'
  <2>1. ChunkArrives(r, f) /\ UNCHANGED <<mRequestID, ret, expired>>
    BY <1>3 DEF ChunkNotFound, ChunkFails, ReceiveFileChunk
  <2>2. FutureInv' /\ (\A q \in Requests : peer'[q].files = peer[q].files)
    BY <2>1, ChunkKeepsFuture DEF IInv
  <2>10. DiskInv'
    <3>1. CASE UNCHANGED disk
      BY <2>2, <3>1, DiskKeepsInv DEF IInv
    <3>2. CASE WriteChunk(r, f)
      <4>1. PICK part : disk' = [disk EXCEPT ![f] = Put(disk[f], Offset(f) + 1, <<r, part>>)]
        BY <3>2 DEF WriteChunk
      <4>2. DOMAIN disk = Files
        BY DEF TypeOK
      <4>3. \A o \in DOMAIN disk'[f] : disk'[f][o] = <<r, part>> \/ (o \in DOMAIN disk[f] /\ disk'[f][o] = disk[f][o])
        BY <4>1, <4>2 DEF Put
      <4>4. \A g \in Files : g # f => disk'[g] = disk[g]
        BY <4>1, <4>2
      <4>5. peer'[r].files # {}
        BY <2>1, <2>2 DEF ChunkArrives
      <4>6. \A g \in Files : \A o \in DOMAIN disk[g] : disk[g][o][1] \in Requests
        BY DEF TypeOK
      <4>7. \A g \in Files : \A o \in DOMAIN disk[g] : peer'[disk[g][o][1]].files # {}
        BY <2>2, <4>6 DEF IInv, DiskInv
      <4>8. ASSUME NEW g \in Files, NEW o \in DOMAIN disk'[g]
            PROVE  peer'[disk'[g][o][1]].files # {}
        <5>1. CASE g # f
          BY <4>4, <4>7, <4>8, <5>1
        <5>2. CASE g = f /\ disk'[f][o] = <<r, part>>
          BY <4>5, <5>2
        <5>3. CASE g = f /\ o \in DOMAIN disk[f] /\ disk'[f][o] = disk[f][o]
          BY <4>7, <5>3
        <5> QED
          BY <4>3, <4>8, <5>1, <5>2, <5>3
      <4> QED
        BY <4>8 DEF DiskInv
    <3> QED
      BY <1>3, <3>1, <3>2 DEF ChunkNotFound, ChunkFails, ReceiveFileChunk
  <2>3. caller \in {"idle", "asleep", "woken"} /\ (caller' = caller \/ (caller' = "woken" /\ caller = "asleep"))
    <3>1. caller \in {"idle", "asleep", "woken"}
      BY <2>1 DEF ChunkArrives, LockFree
    <3>2. caller' = caller \/ Wake
      BY <1>3 DEF ChunkNotFound, ChunkFails, ReceiveFileChunk, SetErrorAndNotify
    <3> QED
      BY <3>1, <3>2 DEF Wake
  <2>4. late' = (late \/ r # mRequestID \/ caller = "idle")
    BY <2>1 DEF ChunkArrives, InCall
  <2>5. ReturnInv' /\ OkIsComplete'
    BY <2>1, <2>3, <2>4 DEF IInv, ReturnInv, OkIsComplete
  <2>6. /\ DOMAIN results' = DOMAIN results
        /\ \A g \in DOMAIN results : results'[g].mFile \in {results[g].mFile, "open", "none"}
    <3>1. results \in [DOMAIN results -> Results]
      BY DEF TypeOK
    <3>2. CASE UNCHANGED results
      BY <3>1, <3>2
    <3>3. CASE results' = [results EXCEPT ![f].mFile = "open"]
      BY <3>1, <3>3 DEF Results
    <3>4. CASE results' = [results EXCEPT ![f] = [mFile |-> "none", mIsDone |-> TRUE]]
      BY <3>1, <3>4 DEF Results
    <3>5. CASE results' = [results EXCEPT ![f].mFile = Opened(f)]
      <4>1. Opened(f) \in {results[f].mFile, "open"}
        BY DEF Opened
      <4> QED
        BY <3>1, <3>5, <4>1 DEF Results
    <3> QED
      BY <1>3, <3>2, <3>3, <3>4, <3>5 DEF ChunkNotFound, ChunkFails, ReceiveFileChunk
  <2>7. ~late' /\ Active => mErrProcessImageRequest' # "notFound"
    <3>1. ~late' => f \in DOMAIN results /\ ~late
      BY <2>1, OwnChunk DEF IInv
    <3> QED
      BY <1>3, <3>1 DEF IInv, ActiveInv, ChunkNotFound, ChunkFails, ReceiveFileChunk, SetErrorAndNotify
  <2>8. ActiveInv'
    BY <2>1, <2>2, <2>3, <2>6, <2>7 DEF IInv, ActiveInv, Active
  <2>9. ProgressInv'
    <3>1. CASE ReceiveFileChunk(r, f)
      BY <3>1, ChunkIsWritten
    <3>2. CASE ChunkNotFound(r, f) \/ ChunkFails(r, f)
      BY <3>2 DEF ProgressInv, ChunkNotFound, ChunkFails, SetErrorAndNotify
    <3> QED
      BY <1>3, <3>1, <3>2
  <2> QED
    BY <2>2, <2>5, <2>8, <2>9, <2>10 DEF IInv
<1> QED
  BY <1>1, <1>2, <1>3

(* Every step keeps the invariant.                                         *)
LEMMA StepKeepsInv ==
  ASSUME TypeOK, IInv, [Next]_vars
  PROVE  IInv'
<1> USE DEF taskVars, sigVars, fileVars
<1>1. CASE Begin \/ TimerFails
  <2>1. FutureInv' /\ DiskInv'
    BY <1>1 DEF IInv, FutureInv, DiskInv, Begin, TimerFails
  <2>2. ret' # "ok" /\ ret' # "notFound" /\ ~mFinishDownload' /\ results' = [f \in {} |-> New]
        /\ caller' \in {"idle", "sending"}
    BY <1>1 DEF Begin, TimerFails
  <2> QED
    BY <2>1, <2>2 DEF IInv, ActiveInv, ProgressInv, ReturnInv, OkIsComplete, Active
<1>2. CASE DownloadThread
  BY <1>2, DownloadKeepsInv
<1>3. CASE Expires \/ Callback
  <2>1. expired' /\ UNCHANGED <<mRequestID, ret, results, pos, disk, peer, late>>
    BY <1>3 DEF Expires, Callback
  <2>2. FutureInv' /\ DiskInv'
    BY <2>1 DEF IInv, FutureInv, DiskInv
  <2>3. /\ caller' = caller \/ (caller' = "woken" /\ caller = "asleep")
        /\ mFinishDownload => mFinishDownload'
        /\ mErrProcessImageRequest' \in {mErrProcessImageRequest, "timeout"}
    BY <1>3 DEF Expires, Callback, Wake
  <2>4. ActiveInv'
    BY <2>1, <2>3 DEF IInv, ActiveInv, Active
  <2>5. ProgressInv' /\ ReturnInv' /\ OkIsComplete'
    BY <2>1, <2>3 DEF IInv, ProgressInv, ReturnInv, OkIsComplete
  <2> QED
    BY <2>2, <2>4, <2>5 DEF IInv
<1>4. CASE HandlerThread
  BY <1>4, HandlerKeepsInv
<1>5. CASE UNCHANGED vars
  BY <1>5, SameState DEF vars
<1> QED
  BY <1>1, <1>2, <1>3, <1>4, <1>5 DEF Next, Done

LEMMA InvInit == Init => IInv
  BY DownloaderAssumption
  DEF Init, IInv, FutureInv, DiskInv, ActiveInv, ProgressInv, ReturnInv, OkIsComplete, Active

LEMMA InvCorrect == Spec => [](TypeOK /\ IInv)
<1>1. (TypeOK /\ IInv) /\ [Next]_vars => IInv'
  BY StepKeepsInv
<1> QED
  BY <1>1, InvInit, TypeCorrect, PTL DEF Spec

(* A Download that returns without an error has every part of every        *)
(* announced file in its place, for any files of any number of chunks and  *)
(* any number of requests, whatever calls, writes and closes have reported *)
(* an error on the way, if no chunk of an earlier request has come, the    *)
(* callback of the timer has not run and no write was a short one.  The    *)
(* tail of an older file that was longer may be behind it.                 *)
THEOREM DownloadIsComplete == Spec => []OkIsComplete
<1>1. IInv => OkIsComplete
  BY DEF IInv
<1> QED
  BY <1>1, InvCorrect, PTL

(* A chunk of the Download under way never meets a file that is unknown or *)
(* closed.                                                                 *)
THEOREM ChunksAreOwn == Spec => OwnChunksOnly
<1>1. TypeOK /\ IInv /\ IInv' /\ [Next]_vars => [~late' => ret' # "notFound" /\ stray' = stray]_vars
  <2> SUFFICES ASSUME TypeOK, IInv, IInv', Next, ~late'
               PROVE  ret' # "notFound" /\ stray' = stray
    OBVIOUS
  <2>1. ret' # "notFound"
    BY DEF IInv, ReturnInv
  <2>2. ASSUME NEW r \in Requests, NEW f \in Files, ChunkFails(r, f) \/ ReceiveFileChunk(r, f)
        PROVE  stray' = stray
    <3>1. ChunkArrives(r, f) /\ stray' = (stray \/ results[f].mFile = "closed")
      BY <2>2 DEF ChunkFails, ReceiveFileChunk
    <3>2. results[f].mFile # "closed"
      BY <3>1, OwnChunk DEF IInv
    <3> QED
      BY <3>1, <3>2 DEF TypeOK
  <2>3. (Begin \/ TimerFails \/ DownloadThread \/ Expires \/ Callback \/ Done) => stray' = stray
    BY DEF Begin, TimerFails, DownloadThread, Expires, Callback, Done, vars, SendImageContentRequest,
           SendFails, TestFinished, Sleep, Return, ReturnFails
  <2>4. ASSUME NEW r \in Requests, NEW f \in Files, ChunkNotFound(r, f)
        PROVE  stray' = stray
    BY <2>4 DEF ChunkNotFound
  <2>5. ASSUME NEW r \in Requests, NEW F \in SUBSET Files,
               ReceiveImageContentInfo(r, F) \/ ReceiveImageContentError(r)
        PROVE  stray' = stray
    BY <2>5 DEF ReceiveImageContentInfo, ReceiveImageContentError
  <2> QED
    BY <2>1, <2>2, <2>3, <2>4, <2>5 DEF Next, HandlerThread
<1> QED
  BY <1>1, InvCorrect, PTL DEF Spec, OwnChunksOnly
=============================================================================
