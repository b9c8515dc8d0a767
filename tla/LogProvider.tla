---------------------------- MODULE LogProvider ----------------------------
(***************************************************************************)
(* LogProvider: a thread that answers the log requests of SMClient, one by *)
(* one, with the entries FSLogReader finds in the files of FSBackend.      *)
(*                                                                         *)
(* mMutex is held while a request is handled (LockFree); the steps in      *)
(* between are those at which another thread of the node may rotate the    *)
(* files.  OnLogReceived may fail at any time: the connection is gone.     *)
(***************************************************************************)
EXTENDS FSLogReader

CONSTANTS
  Instances,          \* instances whose output is in the log
  NoInstance,         \* what the node itself logs
  Writer,             \* who wrote each entry
  Requests,           \* [from, till: entries, 0: not set; filtered: FALSE: the whole log;
                      \*  idents: the instances the filter matches]
  cMaxNumLogRequests, \* capacity of mLogRequests
  ContentLen,         \* how many entries fit in a chunk
  MaxAccepted         \* bound on the requests accepted

ASSUME LogProviderAssumption ==
  /\ NoInstance \notin Instances /\ IsFiniteSet(Instances)
  /\ Writer \in [1..MaxWrites -> Instances \union {NoInstance}]
  /\ Requests \subseteq [from : Nat, till : Nat, filtered : BOOLEAN, idents : SUBSET Instances]
  /\ cMaxNumLogRequests \in Nat \ {0} /\ ContentLen \in Nat \ {0} /\ MaxAccepted \in Nat

VARIABLES
  mStopped,
  mLogRequests,
  mLogObserver,  \* TRUE: SMClient has subscribed
  thread,        \* ProcessLogRequests
  stopping,      \* TRUE: Stop waits for the thread
  content,       \* log->mContent: the entries of the next chunk
  delivered,     \* the entries delivered for the request at hand
  accepted       \* the requests accepted so far

queueVars    == <<mLogRequests, accepted>>
answerVars   == <<content, delivered>>
providerVars == <<mStopped, mLogObserver, thread, stopping, queueVars, answerVars>>
vars         == <<backendVars, readerVars, providerVars>>

Request  == Head(mLogRequests)
LockFree == thread \in {"none", "waiting", "exited"}

ProviderInit ==
  /\ mStopped = TRUE /\ mLogObserver = FALSE /\ thread = "none" /\ stopping = FALSE
  /\ mLogRequests = << >> /\ accepted = 0
  /\ content = << >> /\ delivered = {}

Init == BackendInit /\ ReaderInit /\ ProviderInit

-----------------------------------------------------------------------------
(* The calls of App and SMClient.                                          *)

Start ==
  /\ LockFree /\ ~stopping
  /\ mStopped /\ mStopped' = FALSE /\ thread' = "waiting"
  /\ UNCHANGED <<backendVars, readerVars, mLogObserver, stopping, queueVars, answerVars>>

Stop ==
  /\ LockFree /\ ~stopping
  /\ ~mStopped /\ mStopped' = TRUE /\ stopping' = TRUE
  /\ UNCHANGED <<backendVars, readerVars, mLogObserver, thread, queueVars, answerVars>>

Join ==
  /\ stopping /\ thread = "exited"
  /\ stopping' = FALSE /\ thread' = "none"
  /\ UNCHANGED <<backendVars, readerVars, mStopped, mLogObserver, queueVars, answerVars>>

Subscribe ==
  /\ LockFree /\ ~mLogObserver
  /\ mLogObserver' = TRUE
  /\ UNCHANGED <<backendVars, readerVars, mStopped, thread, stopping, queueVars, answerVars>>

Unsubscribe ==
  /\ LockFree /\ mLogObserver
  /\ mLogObserver' = FALSE
  /\ UNCHANGED <<backendVars, readerVars, mStopped, thread, stopping, queueVars, answerVars>>

Bug_GetLogUnchecked(r) ==
  /\ LockFree /\ accepted < MaxAccepted
  /\ mLogRequests' = Append(mLogRequests, r) /\ accepted' = accepted + 1
  /\ UNCHANGED <<backendVars, readerVars, mStopped, mLogObserver, thread, stopping, answerVars>>

(* GetSystemLog and GetInstanceLog; a full queue refuses the request.      *)
GetLog(r) ==
  /\ LockFree /\ accepted < MaxAccepted
  /\ Len(mLogRequests) < cMaxNumLogRequests
  /\ mLogRequests' = Append(mLogRequests, r) /\ accepted' = accepted + 1
  /\ UNCHANGED <<backendVars, readerVars, mStopped, mLogObserver, thread, stopping, answerVars>>

-----------------------------------------------------------------------------
(* The filters.                                                            *)

Bug_FilterByDate(e, r) ==
  \/ r.from # 0 /\ e < r.from
  \/ r.till # 0 /\ e > r.till

(* TRUE: the entry is left out.                                            *)
FilterByDate(e, r) ==
  \/ r.from # 0 /\ e < r.from
  \/ r.till # 0 /\ e >= r.till

(* The first instance that matches, or none: then every entry passes.      *)
GetInstanceFilter(r) ==
  IF ~r.filtered \/ r.idents = {} THEN {} ELSE {CHOOSE i \in r.idents : TRUE}

FilterByInstanceID(e, filter) == filter # {} /\ Writer[e] \notin filter

LeftOut(e, r) == FilterByDate(e, r) \/ FilterByInstanceID(e, GetInstanceFilter(r))

-----------------------------------------------------------------------------
(* ProcessLogRequests.                                                     *)

ThreadGoes(from, to) ==
  /\ thread = from /\ thread' = to
  /\ UNCHANGED <<backendVars, mStopped, mLogObserver, stopping>>

Bug_ExitWhenEmpty ==
  /\ mStopped /\ mLogRequests = << >>
  /\ ThreadGoes("waiting", "exited")
  /\ UNCHANGED <<readerVars, queueVars, answerVars>>

(* What is still in the queue stays there for the next Start.              *)
Exit ==
  /\ mStopped
  /\ ThreadGoes("waiting", "exited")
  /\ UNCHANGED <<readerVars, queueVars, answerVars>>

BeginRequest ==
  /\ ~mStopped /\ mLogRequests # << >>
  /\ ThreadGoes("waiting", "reading")
  /\ Reset
  /\ content' = << >> /\ delivered' = {}
  /\ UNCHANGED queueVars

OpenFile ==
  /\ ThreadGoes("reading", "reading")
  /\ OpenNextFile \/ ReadLineFails
  /\ UNCHANGED <<queueVars, answerVars>>

(* SendLogChunk, and the chunk is empty again; or it fails, for want of an *)
(* observer or of a connection, and HandleLogRequest with it.              *)
SendLogChunk ==
  /\ mLogObserver
  /\ delivered' = delivered \union {content[i] : i \in DOMAIN content}

SendFails(from) ==
  /\ ThreadGoes(from, "error")
  /\ UNCHANGED <<queueVars, answerVars>>

SkipEntry ==
  /\ ThreadGoes("reading", "reading")
  /\ \E e \in 1..MaxWrites : ReadLine(e) /\ LeftOut(e, Request)
  /\ UNCHANGED <<queueVars, answerVars>>

TakeEntry ==
  /\ ThreadGoes("reading", "reading")
  /\ Len(content) < ContentLen
  /\ \E e \in 1..MaxWrites :
       /\ ReadLine(e) /\ ~LeftOut(e, Request)
       /\ content' = Append(content, e)
  /\ UNCHANGED <<queueVars, delivered>>

Bug_ChunkDropsEntry ==
  /\ ThreadGoes("reading", "reading")
  /\ Len(content) = ContentLen
  /\ \E e \in 1..MaxWrites :
       /\ ReadLine(e) /\ ~LeftOut(e, Request)
       /\ content' = << >>
  /\ SendLogChunk
  /\ UNCHANGED queueVars

(* The entry does not fit any more: the chunk goes first.                  *)
SendFullChunk ==
  /\ ThreadGoes("reading", "reading")
  /\ Len(content) = ContentLen
  /\ \E e \in 1..MaxWrites :
       /\ ReadLine(e) /\ ~LeftOut(e, Request)
       /\ content' = <<e>>
  /\ SendLogChunk
  /\ UNCHANGED queueVars

SendFullChunkFails ==
  /\ Len(content) = ContentLen
  /\ \E e \in 1..MaxWrites : ReadLine(e) /\ ~LeftOut(e, Request)
  /\ SendFails("reading")

SendLastChunk ==
  /\ ThreadGoes("reading", "final")
  /\ NothingToRead
  /\ SendLogChunk \/ (content = << >> /\ UNCHANGED delivered)
  /\ content' = << >>
  /\ UNCHANGED <<readerVars, queueVars>>

SendLastChunkFails ==
  /\ NothingToRead /\ content # << >>
  /\ SendFails("reading")
  /\ UNCHANGED readerVars

Bug_RequestStays(from) ==
  /\ ThreadGoes(from, "waiting")
  /\ UNCHANGED <<readerVars, mLogRequests, accepted, content>>

(* The request leaves the queue, answered or not.                          *)
RequestDone(from) ==
  /\ ThreadGoes(from, "waiting")
  /\ mLogRequests' = Tail(mLogRequests)
  /\ UNCHANGED <<readerVars, accepted, content>>

SendFinalChunk ==
  /\ mLogObserver
  /\ RequestDone("final")
  /\ UNCHANGED delivered

SendFinalChunkFails ==
  /\ SendFails("final")
  /\ UNCHANGED readerVars

(* The error may reach the observer or not; either way nothing follows it. *)
SendErrorLog ==
  /\ RequestDone("error")
  /\ UNCHANGED delivered

ProviderThread ==
  \/ Exit \/ BeginRequest \/ OpenFile \/ SkipEntry \/ TakeEntry
  \/ SendFullChunk \/ SendFullChunkFails \/ SendLastChunk \/ SendLastChunkFails
  \/ SendFinalChunk \/ SendFinalChunkFails \/ SendErrorLog

-----------------------------------------------------------------------------
(* FSBackend goes on meanwhile; a power cut ends everything.               *)

BackendStep ==
  /\ Restore \/ Rotation \/ RotationFails \/ WriteToFile \/ WriteToNewFile
  /\ WatchRotation
  /\ UNCHANGED providerVars

NodeDown ==
  /\ PowerCut
  /\ toRead' = << >> /\ readFD' = 0 /\ readPos' = 0 /\ entry' = 0
  /\ onDisk' = {} /\ inOrder' = TRUE /\ rotated' = FALSE
  /\ mStopped' = TRUE /\ mLogObserver' = FALSE /\ thread' = "none" /\ stopping' = FALSE
  /\ mLogRequests' = << >> /\ content' = << >> /\ delivered' = {}
  /\ UNCHANGED accepted

Next ==
  \/ Start \/ Stop \/ Join \/ Subscribe \/ Unsubscribe \/ (\E r \in Requests : GetLog(r))
  \/ ProviderThread
  \/ BackendStep \/ NodeDown

(* The thread runs when it can; Stop waits for it in Join.                 *)
Fairness == WF_vars(ProviderThread) /\ WF_vars(Join)

Spec == Init /\ [][Next]_vars /\ Fairness

-----------------------------------------------------------------------------
TypeOK ==
  /\ BackendTypeOK /\ ReaderTypeOK
  /\ mStopped \in BOOLEAN /\ mLogObserver \in BOOLEAN /\ stopping \in BOOLEAN
  /\ thread \in {"none", "waiting", "exited", "reading", "final", "error"}
  /\ mLogRequests \in Seq(Requests) /\ Len(mLogRequests) <= cMaxNumLogRequests
  /\ accepted \in 0..MaxAccepted
  /\ content \in Seq(1..MaxWrites) /\ Len(content) <= ContentLen
  /\ delivered \subseteq 1..MaxWrites

(* What a request asks for.                                                *)
Asked(e, r) ==
  /\ r.from # 0 => r.from <= e
  /\ r.till # 0 => e < r.till
  /\ r.filtered => Writer[e] \in r.idents

(* When the end of an answer is delivered, what was delivered is what the  *)
(* request asks for, whatever was split into chunks: all of what was on    *)
(* the disk when the pass began, unless a rotation has taken it away, and  *)
(* nothing else.  It holds for requests whose filter matches one instance: *)
(* GetInstanceFilter takes the first of several, and drops the filter when *)
(* there is none (logprovider.cpp:305-311).                                *)
AnswerIsComplete ==
  [][thread = "final" /\ thread' = "waiting"
     /\ (~Request.filtered \/ Cardinality(Request.idents) = 1) =>
       /\ \A e \in delivered : Asked(e, Request)
       /\ ~rotated => \A e \in onDisk : Asked(e, Request) => e \in delivered]_vars

(* Stop comes back, though a pass may be under way and the log grow while  *)
(* it goes on, and requests wait behind it (logprovider.cpp:60-64).        *)
StopReturns == stopping ~> ~stopping

(* Every request in the queue is answered, or given up with an error, or   *)
(* left over by a Stop (logprovider.cpp:235-245).                          *)
QueueMoves == mLogRequests # << >> ~> mLogRequests = << >> \/ mStopped
=============================================================================
