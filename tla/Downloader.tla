---------------------------- MODULE Downloader ----------------------------
(***************************************************************************)
(* Downloader: a thread of the service manager sleeps in Download while    *)
(* the thread of the handler of SMClient brings the list of files and      *)
(* their chunks, and a timer limits the silence between them.  One thread  *)
(* calls Download (aoscoreconfig.hpp:78), with one path.                   *)
(*                                                                         *)
(* ReceiveImageContentInfo and ReceiveFileChunk run with mMutex held, each *)
(* is a step.  Download holds it but for its sleep.  The callback of the   *)
(* timer takes no lock: its two assignments and its notification are steps *)
(* of their own, the assignments in any order.  A notification wakes the   *)
(* thread that sleeps when it comes, and nobody else.                      *)
(*                                                                         *)
(* The peer sends the chunks of a file in order.  Nothing makes it stop    *)
(* when the request it answers has been given up.  The file a request asks *)
(* for may have been downloaded before, with more parts or with fewer; it  *)
(* is opened without O_TRUNC.                                              *)
(*                                                                         *)
(* A file is what its places hold: the i-th write after an open goes to    *)
(* place i, and leaves a part there or, when it is a short one, a torn     *)
(* piece.                                                                  *)
(***************************************************************************)
EXTENDS Integers

CONSTANTS
  Files,        \* relative paths
  MaxRequests,  \* bound on the calls of Download
  MaxShort,     \* bound on the short writes during one of them
  Parts         \* mPartsCount: the number of chunks of each file, by request

Requests == 1..MaxRequests

ASSUME DownloaderAssumption ==
  /\ MaxRequests \in Nat \ {0} /\ MaxShort \in Nat
  /\ Parts \in [Requests -> [Files -> Nat \ {0}]]

VARIABLES
  caller,    \* the thread in Download
  mFinishDownload,
  mErrProcessImageRequest,
  mRequestID,
  results,   \* mDownloadResults: mFile and mIsDone of every announced file
  timer,     \* TRUE: mTimer is running
  callback,  \* what SetErrorAndNotify, called by the timer, has still to do
  ret,       \* what the last Download returned
  pos,       \* the offset of the descriptor of a file
  disk,      \* what the places of each file hold
  peer,      \* how far the peer is with the answer to each request
  late,      \* TRUE: a chunk that is not for the Download under way has come
  expired,   \* TRUE: the callback of the timer has run since Download began
  short,     \* how many writes were short since Download began
  stray      \* TRUE: a chunk was written with a descriptor that is closed

taskVars == <<caller, mRequestID, ret>>
sigVars  == <<mFinishDownload, mErrProcessImageRequest>>
fileVars == <<results, pos, disk>>
vars     == <<taskVars, sigVars, fileVars, timer, callback, peer, late, expired, short, stray>>

Torn     == 0   \* in the place of the number of a part
Results  == [mFile : {"none", "open", "closed"}, mIsDone : BOOLEAN]
New      == [mFile |-> "none", mIsDone |-> FALSE]
Errors   == {"none", "timeout", "failed", "notFound"}

(* mMutex is held by Download unless it sleeps.                            *)
LockFree == caller \in {"idle", "asleep", "woken"}
InCall   == caller # "idle"

Wake == caller' = IF caller = "asleep" THEN "woken" ELSE caller

SetErrorAndNotify(e) ==
  /\ mFinishDownload' = TRUE
  /\ mErrProcessImageRequest' = e
  /\ Wake

Init ==
  /\ caller = "idle" /\ ret = "none" /\ mRequestID = 0
  /\ mFinishDownload = FALSE /\ mErrProcessImageRequest = "none"
  /\ results = [f \in {} |-> New]
  /\ pos = [f \in Files |-> 0] /\ disk = [f \in Files |-> [o \in {} |-> <<1, Torn>>]]
  /\ timer = FALSE /\ callback = {}
  /\ peer = [r \in Requests |-> [asked |-> FALSE, files |-> {}, sent |-> [f \in Files |-> 0]]]
  /\ late = FALSE /\ expired = FALSE /\ short = 0 /\ stray = FALSE

-----------------------------------------------------------------------------
(* The thread in Download.                                                 *)

(* The definitions named Bug_... are not part of the specification: each   *)
(* is a plausible slip in the definition that follows it, which a property *)
(* must catch.                                                             *)
Bug_BeginKeepsResults ==
  /\ caller = "idle" /\ mRequestID < MaxRequests
  /\ caller' = "sending"
  /\ mFinishDownload' = FALSE /\ timer' = TRUE
  /\ late' = FALSE /\ expired' = FALSE /\ short' = 0 /\ ret' = "none"
  /\ UNCHANGED <<mErrProcessImageRequest, mRequestID, results, pos, disk, callback, peer, stray>>

Begin ==
  /\ caller = "idle" /\ mRequestID < MaxRequests
  /\ caller' = "sending"
  /\ mFinishDownload' = FALSE /\ timer' = TRUE
  /\ results' = [f \in {} |-> New]
  /\ late' = FALSE /\ expired' = FALSE /\ short' = 0 /\ ret' = "none"
  /\ UNCHANGED <<mErrProcessImageRequest, mRequestID, pos, disk, callback, peer, stray>>

TimerFails ==
  /\ caller = "idle" /\ mRequestID < MaxRequests
  /\ mFinishDownload' = FALSE
  /\ results' = [f \in {} |-> New]
  /\ late' = FALSE /\ expired' = FALSE /\ short' = 0 /\ ret' = "failed"
  /\ UNCHANGED <<caller, mErrProcessImageRequest, mRequestID, pos, disk, timer, callback, peer, stray>>

SendImageContentRequest ==
  /\ caller = "sending"
  /\ caller' = "testing"
  /\ mRequestID' = mRequestID + 1
  /\ mErrProcessImageRequest' = "none"
  /\ peer' = [peer EXCEPT ![mRequestID'].asked = TRUE]
  /\ UNCHANGED <<ret, mFinishDownload, fileVars, timer, callback, late, expired, short, stray>>

(* Download returns at once: the timer goes on.                            *)
SendFails ==
  /\ caller = "sending"
  /\ caller' = "idle"
  /\ mRequestID' = mRequestID + 1
  /\ mErrProcessImageRequest' = "failed" /\ ret' = "failed"
  /\ UNCHANGED <<mFinishDownload, fileVars, timer, callback, peer, late, expired, short, stray>>

(* Wait: the test of its predicate, and the sleep.                         *)
TestFinished ==
  /\ caller \in {"testing", "woken"}
  /\ caller' = IF mFinishDownload THEN "finished" ELSE "sleeping"
  /\ UNCHANGED <<ret, mRequestID, sigVars, fileVars, timer, callback, peer, late, expired, short, stray>>

Sleep ==
  /\ caller = "sleeping"
  /\ caller' = "asleep"
  /\ UNCHANGED <<ret, mRequestID, sigVars, fileVars, timer, callback, peer, late, expired, short, stray>>

(* The timer is stopped, files that are still open are closed.             *)
Return ==
  /\ caller = "finished"
  /\ caller' = "idle"
  /\ timer' = FALSE
  /\ results' = [f \in DOMAIN results |->
       IF results[f].mFile = "none" THEN results[f] ELSE [results[f] EXCEPT !.mFile = "closed"]]
  /\ ret' = IF mErrProcessImageRequest = "none" THEN "ok" ELSE mErrProcessImageRequest
  /\ UNCHANGED <<mRequestID, sigVars, pos, disk, callback, peer, late, expired, short, stray>>

(* mTimer.Stop, or the close of a file, returns an error.                  *)
ReturnFails ==
  /\ caller = "finished"
  /\ caller' = "idle"
  /\ ret' = "failed"
  /\ \/ UNCHANGED <<timer, results, sigVars>>
     \/ /\ timer' = FALSE
        /\ \E f \in DOMAIN results : results[f].mFile # "none"
        /\ results' = [f \in DOMAIN results |->
             IF results[f].mFile = "none" THEN results[f] ELSE [results[f] EXCEPT !.mFile = "closed"]]
        /\ mErrProcessImageRequest = "none" /\ mErrProcessImageRequest' = "failed"
        /\ UNCHANGED mFinishDownload
  /\ UNCHANGED <<mRequestID, pos, disk, callback, peer, late, expired, short, stray>>

DownloadThread ==
  SendImageContentRequest \/ SendFails \/ TestFinished \/ Sleep \/ Return \/ ReturnFails

-----------------------------------------------------------------------------
(* The timer.                                                              *)

Expires ==
  /\ timer /\ callback = {}
  /\ timer' = FALSE
  /\ callback' = {"finish", "error", "notify"}
  /\ expired' = TRUE
  /\ UNCHANGED <<taskVars, sigVars, fileVars, peer, late, short, stray>>

Bug_CallbackForgetsNotify ==
  /\ callback # {}
  /\ callback' = {}
  /\ mFinishDownload' = TRUE /\ mErrProcessImageRequest' = "timeout"
  /\ expired' = TRUE
  /\ UNCHANGED <<taskVars, fileVars, timer, peer, late, short, stray>>

Callback ==
  /\ expired' = TRUE
  /\ \/ /\ "finish" \in callback /\ callback' = callback \ {"finish"}
        /\ mFinishDownload' = TRUE
        /\ UNCHANGED <<mErrProcessImageRequest, caller>>
     \/ /\ "error" \in callback /\ callback' = callback \ {"error"}
        /\ mErrProcessImageRequest' = "timeout"
        /\ UNCHANGED <<mFinishDownload, caller>>
     \/ /\ callback = {"notify"} /\ callback' = {}
        /\ Wake
        /\ UNCHANGED sigVars
  /\ UNCHANGED <<mRequestID, ret, fileVars, timer, peer, late, short, stray>>

-----------------------------------------------------------------------------
(* The thread of the handler: the messages of the peer.                    *)

(* The answer to request r announces the files F.                          *)
ReceiveImageContentInfo(r, F) ==
  /\ LockFree
  /\ peer[r].asked /\ peer[r].files = {}
  /\ peer' = [peer EXCEPT ![r].files = F]
  /\ IF r = mRequestID
       THEN /\ results' = [f \in DOMAIN results \union F |->
                             IF f \in DOMAIN results THEN results[f] ELSE New]
            /\ timer' = TRUE
       ELSE UNCHANGED <<results, timer>>
  /\ UNCHANGED <<taskVars, sigVars, pos, disk, callback, late, expired, short, stray>>

(* The answer is an error, the only answer to r.                           *)
ReceiveImageContentError(r) ==
  /\ LockFree
  /\ peer[r].asked /\ peer[r].files = {}
  /\ peer' = [peer EXCEPT ![r].asked = FALSE]
  /\ IF r = mRequestID THEN SetErrorAndNotify("failed") ELSE UNCHANGED <<caller, sigVars>>
  /\ UNCHANGED <<mRequestID, ret, fileVars, timer, callback, late, expired, short, stray>>

Bug_NextPart(r, f) == peer[r].sent[f] + 2

NextPart(r, f) == peer[r].sent[f] + 1

(* The next chunk of file f, sent for request r.  The handler does not     *)
(* look at the request the chunk was sent for.                             *)
ChunkArrives(r, f) ==
  /\ LockFree
  /\ f \in peer[r].files /\ peer[r].sent[f] < Parts[r][f]
  /\ peer' = [peer EXCEPT ![r].sent[f] = @ + 1]
  /\ late' = (late \/ r # mRequestID \/ ~InCall)

ChunkNotFound(r, f) ==
  /\ f \notin DOMAIN results
  /\ ChunkArrives(r, f)
  /\ SetErrorAndNotify("notFound")
  /\ UNCHANGED <<mRequestID, ret, fileVars, timer, callback, expired, short, stray>>

Offset(f) == IF results[f].mFile = "none" THEN 0 ELSE pos[f]
Opened(f) == IF results[f].mFile = "none" THEN "open" ELSE results[f].mFile

Put(places, o, piece) ==
  [i \in DOMAIN places \union {o} |-> IF i = o THEN piece ELSE places[i]]

(* The chunk is written: as a whole, or in part, which counts as success.  *)
WriteChunk(r, f) ==
  /\ \E part \in {NextPart(r, f), Torn} :
       /\ disk' = [disk EXCEPT ![f] = Put(disk[f], Offset(f) + 1, <<r, part>>)]
       /\ IF part = Torn THEN short < MaxShort /\ short' = short + 1
                         ELSE UNCHANGED short
  /\ pos' = [pos EXCEPT ![f] = Offset(f) + 1]
  /\ timer' = TRUE

(* It cannot be written because the directory or the file cannot be made,  *)
(* or the write fails once the file is open; or the file cannot be closed  *)
(* behind the last chunk.                                                  *)
ChunkFails(r, f) ==
  /\ f \in DOMAIN results
  /\ ChunkArrives(r, f)
  /\ SetErrorAndNotify("failed")
  /\ \/ UNCHANGED <<fileVars, timer, short>>
     \/ /\ results[f].mFile = "none"
        /\ results' = [results EXCEPT ![f].mFile = "open"]
        /\ pos' = [pos EXCEPT ![f] = 0]
        /\ UNCHANGED <<disk, timer, short>>
     \/ /\ NextPart(r, f) = Parts[r][f]
        /\ WriteChunk(r, f)
        /\ results' = [results EXCEPT ![f].mFile = Opened(f)]
  /\ stray' = (stray \/ results[f].mFile = "closed")
  /\ UNCHANGED <<mRequestID, ret, callback, expired>>

Bug_AllDone(done) == \E f \in DOMAIN done : done[f].mIsDone

IsAllDownloadDone(done) == \A f \in DOMAIN done : done[f].mIsDone

ReceiveFileChunk(r, f) ==
  /\ f \in DOMAIN results
  /\ ChunkArrives(r, f)
  /\ WriteChunk(r, f)
  /\ stray' = (stray \/ results[f].mFile = "closed")
  /\ IF NextPart(r, f) = Parts[r][f]
       THEN /\ results' = [results EXCEPT ![f] = [mFile |-> "none", mIsDone |-> TRUE]]
            /\ IF IsAllDownloadDone(results')
                 THEN mFinishDownload' = TRUE /\ Wake
                 ELSE UNCHANGED <<mFinishDownload, caller>>
       ELSE /\ results' = [results EXCEPT ![f].mFile = Opened(f)]
            /\ UNCHANGED <<mFinishDownload, caller>>
  /\ UNCHANGED <<mRequestID, ret, mErrProcessImageRequest, callback, expired>>

HandlerThread ==
  \E r \in Requests :
    \/ \E F \in SUBSET Files \ {{}} : ReceiveImageContentInfo(r, F)
    \/ ReceiveImageContentError(r)
    \/ \E f \in Files : ChunkNotFound(r, f) \/ ChunkFails(r, f) \/ ReceiveFileChunk(r, f)

Done == mRequestID = MaxRequests /\ caller = "idle" /\ UNCHANGED vars

Next == Begin \/ TimerFails \/ DownloadThread \/ Expires \/ Callback \/ HandlerThread \/ Done

(* The thread in Download runs when it can, and a timer that is not        *)
(* stopped fires.  Nothing obliges the peer to answer.                     *)
Fairness == WF_vars(DownloadThread) /\ WF_vars(Expires) /\ WF_vars(Callback)

Spec == Init /\ [][Next]_vars /\ Fairness

-----------------------------------------------------------------------------
TypeOK ==
  /\ caller \in {"idle", "sending", "testing", "sleeping", "asleep", "woken", "finished"}
  /\ mFinishDownload \in BOOLEAN /\ mErrProcessImageRequest \in Errors
  /\ mRequestID \in 0..MaxRequests /\ (caller = "sending" => mRequestID < MaxRequests)
  /\ DOMAIN results \subseteq Files /\ results \in [DOMAIN results -> Results]
  /\ timer \in BOOLEAN /\ callback \subseteq {"finish", "error", "notify"}
  /\ ret \in {"ok"} \union Errors
  /\ pos \in [Files -> Nat]
  /\ DOMAIN disk = Files
  /\ \A f \in Files : /\ DOMAIN disk[f] \subseteq Nat \ {0}
                       /\ disk[f] \in [DOMAIN disk[f] -> Requests \X Nat]
                       /\ \A o \in DOMAIN disk[f] : disk[f][o][2] <= Parts[disk[f][o][1]][f]
  /\ peer \in [Requests -> [asked : BOOLEAN, files : SUBSET Files, sent : [Files -> Nat]]]
  /\ late \in BOOLEAN /\ expired \in BOOLEAN /\ short \in 0..MaxShort /\ stray \in BOOLEAN

(* All parts of f are there, each in its place; what is behind them is     *)
(* left from an older file that was longer.                                *)
Complete(f, r) ==
  /\ \A p \in 1..Parts[r][f] : p \in DOMAIN disk[f] /\ disk[f][p] = <<r, p>>
  /\ \A o \in DOMAIN disk[f] : o > Parts[r][f] => disk[f][o][1] < r

(* When Download returns without an error, every file the peer has         *)
(* announced is there from its beginning to its end, each part where it    *)
(* belongs and none of them from an earlier request.  Three things break   *)
(* it, and nothing else does, no write, close or call that fails: a chunk  *)
(* that belongs to an earlier request (ReceiveFileChunk never looks at     *)
(* mRequestID, downloader.cpp:99), the callback of the timer, which sets   *)
(* mFinishDownload before the error and without the lock                   *)
(* (downloader.cpp:212-213), and a short write, which the code takes for a *)
(* whole one (downloader.cpp:133-140).  It does not say that the file ends *)
(* there: the tail of a longer one that was there before stays, since the  *)
(* file is opened without O_TRUNC (downloader.cpp:123).                    *)
OkIsComplete ==
  ret = "ok" /\ ~late /\ ~expired /\ short = 0
    => peer[mRequestID].files # {} /\ \A f \in peer[mRequestID].files : Complete(f, mRequestID)

(* As long as all chunks belong to the Download under way, none is refused *)
(* as unknown, and none is written with a descriptor an earlier Download   *)
(* has closed but still keeps in mDownloadResults (downloader.cpp:77,      *)
(* 133), where another component may have opened a file of its own.        *)
OwnChunksOnly == [][~late' => ret' # "notFound" /\ stray' = stray]_vars

(* Download never sleeps for ever behind a running timer: it returns,      *)
(* whether the peer answers, answers in part, or not at all                *)
(* (downloader.cpp:65).  A callback that runs already does not count: its  *)
(* notification may come between the test of the predicate and the sleep.  *)
DownloadReturns == (caller = "asleep" /\ timer /\ callback = {}) ~> caller = "idle"
=============================================================================
