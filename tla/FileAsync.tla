----------------------------- MODULE FileAsync -----------------------------
(***************************************************************************)
(* The write-behind file of VDFileAsyncMac (macOS fileasync.cpp).  The      *)
(* client's thread cuts what it writes into blocks and queues them; a       *)
(* worker thread writes the blocks to the file.  They share a mutex, held   *)
(* for one action at a time, and three condition variables, on each of      *)
(* which one of the two may be asleep.  A request is a region of the file   *)
(* and the value that fills it.                                             *)
(***************************************************************************)
EXTENDS Integers, Sequences

CONSTANTS Values,      \* what a byte can hold; where a file is extended it holds 0
          MaxPos,      \* bound on the length of the file
          BlockSize,   \* mBlockSize
          Capacity     \* mBufferCapacity

ASSUME FileAsyncAssumption ==
    /\ 0 \in Values /\ MaxPos \in Nat
    /\ BlockSize \in Nat \ {0} /\ Capacity \in Nat /\ BlockSize <= Capacity

VARIABLES isOpen,       \* mFileDescriptor >= 0
          mbBackground, mbPreemptiveExtend, mClientFastPointer,
          mRequests, mQueuedBytes, mbWorkerWriting, mbStopping, mWorkerError,
          asleep,       \* the condition variables on which a thread sleeps
          pc, call,     \* the client's thread: its place and the region it writes
          safe,         \* the call is, or was, a SafeTruncateAndClose without an error
          queuedTo,     \* mClientFastPointer + offset in the loop of FastWrite
          workerPc, request, \* the worker's thread and the block it took
          file, size,   \* the bytes on disk and the length of the file
          content,      \* what the calls made so far ask the file to hold
          drained       \* no FastWrite since FastWriteEnd succeeded

position == <<mClientFastPointer, queuedTo>>
shared   == <<mRequests, mQueuedBytes, mbWorkerWriting, mbStopping, mWorkerError>>
mode     == <<mbBackground, mbPreemptiveExtend>>
caller   == <<pc, call, safe>>
worker   == <<workerPc, request>>
disk     == <<file, size, content, drained>>
vars     == <<isOpen, mode, position, shared, asleep, caller, worker, disk>>

Positions  == 0 .. MaxPos - 1
Regions    == [pos : Nat, len : Nat, val : Values]
Conditions == {"mWorkAvailable", "mSpaceAvailable", "mDrained"}
NoRegion   == [pos |-> 0, len |-> 0, val |-> 0]

End(r)         == r.pos + r.len
Covers(r, p)   == r.pos <= p /\ p < End(r)
First(r, n)    == [r EXCEPT !.len = n]
Filled(f, r)   == [p \in Positions |-> IF Covers(r, p) THEN r.val ELSE f[p]]
ZeroFrom(f, n) == [p \in Positions |-> IF p >= n THEN 0 ELSE f[p]]
AtLeast(n)     == IF size < n THEN n ELSE size

Init ==
    /\ isOpen = FALSE /\ mbBackground \in BOOLEAN /\ mbPreemptiveExtend \in BOOLEAN
    /\ mClientFastPointer = 0 /\ queuedTo = 0
    /\ mRequests = <<>> /\ mQueuedBytes = 0
    /\ mbWorkerWriting = FALSE /\ mbStopping = FALSE /\ mWorkerError = FALSE
    /\ asleep = {} /\ pc = "idle" /\ call = NoRegion /\ safe = FALSE
    /\ workerPc = "none" /\ request = NoRegion
    /\ file = [p \in Positions |-> 0] /\ size = 0 /\ content = file /\ drained = TRUE

-----------------------------------------------------------------------------
(* The client's thread.                                                      *)

Return == pc' = "idle" /\ call' = NoRegion /\ UNCHANGED safe

SetPreemptiveExtend(enabled) ==
    /\ pc = "idle" /\ mbPreemptiveExtend # enabled
    /\ mbPreemptiveExtend' = enabled
    /\ UNCHANGED <<isOpen, mbBackground, position, shared, asleep, caller, worker, disk>>

\* Every mode but the asynchronous one empties the file as it opens it.
Open ==
    /\ pc = "idle" /\ ~ isOpen /\ isOpen' = TRUE
    /\ \/ file' = [p \in Positions |-> 0] /\ size' = 0
       \/ UNCHANGED <<file, size>>
    /\ content' = file' /\ drained' = TRUE
    /\ mClientFastPointer' = 0 /\ queuedTo' = 0
    /\ workerPc' = IF mbBackground THEN "wait" ELSE "none"
    /\ safe' = FALSE /\ call' = NoRegion
    /\ UNCHANGED <<mode, shared, asleep, pc, request>>

\* WriteAllAt in the client's thread: all of the region, or a part and an error.
WriteHere(r, n) ==
    /\ n \in 0 .. r.len
    /\ file' = Filled(file, First(r, n)) /\ content' = Filled(content, First(r, n))
    /\ size' = IF n = 0 THEN size ELSE AtLeast(r.pos + n)

\* FastWrite without a worker (WriteDirect): only a success moves the pointer.
FastWriteDirect(r) ==
    /\ pc = "idle" /\ isOpen /\ ~ mbBackground
    /\ r.pos = mClientFastPointer /\ End(r) <= MaxPos
    /\ \E n \in 0 .. r.len :
        /\ WriteHere(r, n)
        /\ \/ n = r.len /\ mClientFastPointer' = End(r) /\ queuedTo' = End(r)
           \/ UNCHANGED position
    /\ UNCHANGED <<isOpen, mode, shared, asleep, caller, worker, drained>>

FastWrite(r) ==
    /\ pc = "idle" /\ isOpen /\ mbBackground
    /\ r.pos = mClientFastPointer /\ End(r) <= MaxPos
    /\ pc' = "put" /\ call' = r /\ drained' = FALSE
    /\ UNCHANGED <<safe, isOpen, mode, position, shared, asleep, worker, file, size, content>>

\* Bug: every block is as long as a block can be, the last one too.
BlockAlwaysFull == [pos |-> queuedTo, val |-> call.val, len |-> BlockSize]

\* Bug: the offset of the loop is left out of the place in the file.
BlockWithoutOffset ==
    [pos |-> call.pos, val |-> call.val,
     len |-> IF End(call) - queuedTo < BlockSize THEN End(call) - queuedTo ELSE BlockSize]

Block ==
    [pos |-> queuedTo, val |-> call.val,
     len |-> IF End(call) - queuedTo < BlockSize THEN End(call) - queuedTo ELSE BlockSize]

\* Bug: the block that is to come is not counted.
HasAnySpace == mQueuedBytes <= Capacity

HasSpace == mQueuedBytes + Block.len <= Capacity

\* What the call has asked for when the next block is queued.
Asked == First(call, End(Block) - call.pos)

\* One turn of the loop of FastWrite: sleep, throw the worker's error, or queue.  The
\* code also throws when it finds mbStopping without an error (ECANCELED): only Close
\* sets it alone, in this thread, and so never while FastWrite is under way.
Put ==
    /\ pc = "put" /\ "mSpaceAvailable" \notin asleep
    /\ \/ /\ ~ mWorkerError /\ ~ HasSpace
          /\ asleep' = asleep \union {"mSpaceAvailable"}
          /\ UNCHANGED <<mRequests, mQueuedBytes, queuedTo, content, caller>>
       \/ /\ mWorkerError /\ Return
          /\ UNCHANGED <<asleep, mRequests, mQueuedBytes, queuedTo, content>>
       \/ /\ ~ mWorkerError /\ HasSpace
          /\ mRequests' = Append(mRequests, Block)
          /\ mQueuedBytes' = mQueuedBytes + Block.len
          /\ queuedTo' = End(Block) /\ content' = Filled(content, Asked)
          /\ pc' = "notify" /\ UNCHANGED <<asleep, call, safe>>
    /\ UNCHANGED <<isOpen, mode, mClientFastPointer, mbWorkerWriting, mbStopping,
                   mWorkerError, worker, file, size, drained>>

\* The notification follows the unlock; the last block moves the pointer.
Notify ==
    /\ pc = "notify" /\ asleep' = asleep \ {"mWorkAvailable"}
    /\ IF queuedTo < End(call) THEN pc' = "put" /\ UNCHANGED <<mClientFastPointer, call, safe>>
       ELSE Return /\ mClientFastPointer' = End(call)
    /\ UNCHANGED <<isOpen, mode, queuedTo, shared, worker, disk>>

FastWriteEnd ==
    /\ pc = "idle" /\ isOpen
    /\ pc' = IF mbBackground THEN "drain" ELSE "sync"
    /\ UNCHANGED <<isOpen, mode, position, shared, asleep, call, safe, worker, disk>>

SafeTruncateAndClose(pos) ==
    /\ pc = "idle" /\ isOpen /\ safe' = TRUE
    /\ pc' = IF mbBackground THEN "drain" ELSE "sync"
    /\ call' = [NoRegion EXCEPT !.pos = pos]
    /\ UNCHANGED <<isOpen, mode, position, shared, asleep, worker, disk>>

\* What an exception leads to: SafeTruncateAndClose closes the file all the same.
Throw ==
    IF safe THEN pc' = "close" /\ safe' = FALSE /\ call' = NoRegion ELSE Return

\* Bug: the block in the worker's hands is forgotten.
AllTaken == mRequests = <<>>

\* DrainWorker.
AllWritten == mRequests = <<>> /\ ~ mbWorkerWriting

Drain ==
    /\ pc = "drain" /\ "mDrained" \notin asleep
    /\ \/ ~ mWorkerError /\ ~ AllWritten
          /\ asleep' = asleep \union {"mDrained"} /\ UNCHANGED caller
       \/ mWorkerError /\ Throw /\ UNCHANGED asleep
       \/ ~ mWorkerError /\ AllWritten /\ pc' = "sync" /\ UNCHANGED <<asleep, call, safe>>
    /\ UNCHANGED <<isOpen, mode, position, shared, worker, disk>>

\* SyncFile, which may fail, is the end of FastWriteEnd.
Sync ==
    /\ pc = "sync"
    /\ \/ drained' = TRUE /\ safe /\ pc' = "truncate" /\ UNCHANGED <<call, safe>>
       \/ drained' = TRUE /\ ~ safe /\ Return
       \/ Throw /\ UNCHANGED drained
    /\ UNCHANGED <<isOpen, mode, position, shared, asleep, worker, file, size, content>>

\* Write and Truncate act on the file at once: the writers of AVI files call
\* them after FastWriteEnd (aviwriter.cpp, FileEndFastPath).
Write(r) ==
    /\ pc = "idle" /\ isOpen /\ drained /\ End(r) <= MaxPos
    /\ \E n \in 0 .. r.len : WriteHere(r, n)
    /\ UNCHANGED <<isOpen, mode, position, shared, asleep, caller, worker, drained>>

TruncateTo(pos) ==
    /\ size' = pos /\ file' = ZeroFrom(file, pos) /\ content' = ZeroFrom(content, pos)

Truncate(pos) ==
    /\ pc = "idle" /\ isOpen /\ drained /\ TruncateTo(pos)
    /\ UNCHANGED <<isOpen, mode, position, shared, asleep, caller, worker, drained>>

\* ... and extend it ahead of what is still queued when the worker does not do so
\* (partialWriteIndexedChunkBegin).  Extend itself is a truncation that does not
\* throw: called with a place before what is queued it would cut that off.
Extend(pos) ==
    \/ Truncate(pos)
    \/ /\ pc = "idle" /\ isOpen /\ ~ mbPreemptiveExtend /\ pos > size /\ size' = pos
       /\ UNCHANGED <<isOpen, mode, position, shared, asleep, caller, worker,
                      file, content, drained>>

SafeTruncate ==
    /\ pc = "truncate"
    /\ \/ TruncateTo(call.pos) /\ pc' = "close" /\ UNCHANGED <<call, safe>>
       \/ Throw /\ UNCHANGED <<file, size, content>>
    /\ UNCHANGED <<isOpen, mode, position, shared, asleep, worker, drained>>

Close ==
    /\ pc = "idle" /\ isOpen /\ pc' = "close"
    /\ UNCHANGED <<isOpen, mode, position, shared, asleep, call, safe, worker, disk>>

\* The worker is told to stop, what is still queued is dropped ...
StopWorker ==
    /\ pc = "close" /\ workerPc # "none" /\ pc' = "wake"
    /\ mbStopping' = TRUE /\ mRequests' = <<>> /\ mQueuedBytes' = 0
    /\ UNCHANGED <<isOpen, mode, position, mbWorkerWriting, mWorkerError, asleep,
                   call, safe, worker, disk>>

\* ... it is woken, once the mutex is free ...
WakeAll ==
    /\ pc = "wake" /\ pc' = "join" /\ asleep' = {}
    /\ UNCHANGED <<isOpen, mode, position, shared, call, safe, worker, disk>>

\* ... and when its thread has ended the file is closed and all is as at first.
FinishClose ==
    /\ \/ pc = "join" /\ workerPc = "ended"
       \/ pc = "close" /\ workerPc = "none"
    /\ isOpen' = FALSE /\ mClientFastPointer' = 0 /\ queuedTo' = 0
    /\ mRequests' = <<>> /\ mQueuedBytes' = 0
    /\ mbWorkerWriting' = FALSE /\ mbStopping' = FALSE /\ mWorkerError' = FALSE
    /\ workerPc' = "none" /\ request' = NoRegion
    /\ pc' = "idle" /\ UNCHANGED <<mode, asleep, call, safe, disk>>

-----------------------------------------------------------------------------
(* The worker's thread (WorkerMain).                                         *)

Take ==
    /\ workerPc = "wait" /\ "mWorkAvailable" \notin asleep
    /\ \/ /\ mbStopping /\ workerPc' = "ended"
          /\ UNCHANGED <<asleep, request, mRequests, mQueuedBytes, mbWorkerWriting>>
       \/ /\ ~ mbStopping /\ mRequests = <<>>
          /\ asleep' = asleep \union {"mWorkAvailable"}
          /\ UNCHANGED <<worker, mRequests, mQueuedBytes, mbWorkerWriting>>
       \/ /\ ~ mbStopping /\ mRequests # <<>> /\ workerPc' = "taken"
          /\ request' = Head(mRequests) /\ mRequests' = Tail(mRequests)
          /\ mQueuedBytes' = mQueuedBytes - Head(mRequests).len
          /\ mbWorkerWriting' = TRUE /\ UNCHANGED asleep
    /\ UNCHANGED <<isOpen, mode, position, mbStopping, mWorkerError, caller, disk>>

NotifySpace ==
    /\ workerPc = "taken" /\ workerPc' = "extend" /\ asleep' = asleep \ {"mSpaceAvailable"}
    /\ UNCHANGED <<isOpen, mode, position, shared, caller, request, disk>>

\* Make room for a whole queue after the block, or else give up doing so.
PreemptivelyExtend ==
    /\ workerPc = "extend" /\ workerPc' = "write"
    /\ \/ mbPreemptiveExtend /\ size' = AtLeast(End(request) + Capacity)
          /\ UNCHANGED mbPreemptiveExtend
       \/ mbPreemptiveExtend' = FALSE /\ UNCHANGED size
    /\ UNCHANGED <<isOpen, mbBackground, position, shared, asleep, caller, request,
                   file, content, drained>>

WriteBlock ==
    /\ workerPc = "write"
    /\ \/ workerPc' = "written" /\ file' = Filled(file, request)
          /\ size' = AtLeast(End(request))
       \/ \E n \in 0 .. request.len - 1 :
            /\ workerPc' = "failed" /\ file' = Filled(file, First(request, n))
            /\ size' = IF n = 0 THEN size ELSE AtLeast(request.pos + n)
    /\ UNCHANGED <<isOpen, mode, position, shared, asleep, caller, request, content, drained>>

\* Bug: only the client that waits for the end hears of the failure.
OnlyDrainNotified == {"mDrained"}

NotifiedByFailure == {"mSpaceAvailable", "mDrained"}

\* A failure keeps the error for the client, drops the queue and ends the thread.
Fail ==
    /\ workerPc = "failed" /\ workerPc' = "ended"
    /\ mWorkerError' = TRUE /\ mbStopping' = TRUE /\ mbWorkerWriting' = FALSE
    /\ mRequests' = <<>> /\ mQueuedBytes' = 0
    /\ asleep' = asleep \ NotifiedByFailure
    /\ UNCHANGED <<isOpen, mode, position, caller, request, disk>>

BlockDone ==
    /\ workerPc = "written" /\ workerPc' = "wait" /\ mbWorkerWriting' = FALSE
    /\ asleep' = IF mRequests = <<>> THEN asleep \ {"mDrained"} ELSE asleep
    /\ request' = NoRegion
    /\ UNCHANGED <<isOpen, mode, position, mRequests, mQueuedBytes, mbStopping,
                   mWorkerError, caller, disk>>

\* A wait on a condition variable may end without a notification.
WakeForNothing(c) ==
    /\ c \in asleep /\ asleep' = asleep \ {c}
    /\ UNCHANGED <<isOpen, mode, position, shared, caller, worker, disk>>

-----------------------------------------------------------------------------
InCall == Put \/ Notify \/ Drain \/ Sync \/ SafeTruncate \/ StopWorker \/ WakeAll \/ FinishClose
Calls ==
    \/ Open \/ FastWriteEnd \/ Close
    \/ \E r \in [pos : 0 .. MaxPos, len : 1 .. MaxPos, val : Values] :
        FastWriteDirect(r) \/ FastWrite(r) \/ Write(r)
    \/ \E pos \in 0 .. MaxPos : Extend(pos) \/ SafeTruncateAndClose(pos)
    \/ \E enabled \in BOOLEAN : SetPreemptiveExtend(enabled)
WorkerMain ==
    Take \/ NotifySpace \/ PreemptivelyExtend \/ WriteBlock \/ Fail \/ BlockDone

Next == Calls \/ InCall \/ WorkerMain \/ \E c \in Conditions : WakeForNothing(c)

\* Both threads run: a call that can go on does, and so does the worker.
Spec == Init /\ [][Next]_vars /\ WF_vars(InCall) /\ WF_vars(WorkerMain)

-----------------------------------------------------------------------------
ClientTypeOK ==
    /\ pc \in {"idle", "put", "notify", "drain", "sync", "truncate", "close", "wake", "join"}
    /\ call \in Regions /\ safe \in BOOLEAN /\ drained \in BOOLEAN
    /\ mClientFastPointer \in 0 .. MaxPos /\ queuedTo \in 0 .. MaxPos
WorkerTypeOK ==
    /\ workerPc \in {"none", "wait", "taken", "extend", "write", "written", "failed", "ended"}
    /\ request \in Regions /\ asleep \in SUBSET Conditions
SharedTypeOK ==
    /\ isOpen \in BOOLEAN /\ mbBackground \in BOOLEAN /\ mbPreemptiveExtend \in BOOLEAN
    /\ mRequests \in Seq(Regions) /\ mQueuedBytes \in Nat
    /\ mbWorkerWriting \in BOOLEAN /\ mbStopping \in BOOLEAN /\ mWorkerError \in BOOLEAN
DiskTypeOK ==
    file \in [Positions -> Values] /\ content \in [Positions -> Values] /\ size \in Nat

TypeOK == ClientTypeOK /\ WorkerTypeOK /\ SharedTypeOK /\ DiskTypeOK

\* Whether the worker has a block that is not, or not all, in the file.
Holding == mWorkerError \/ workerPc \in {"taken", "extend", "write", "failed"}

\* Where what is in the file ends and what the queue holds begins.
WrittenTo ==
    IF Holding THEN request.pos
    ELSE IF mRequests # <<>> THEN Head(mRequests).pos ELSE queuedTo

\* The blocks reach the file in the order of the calls and none is left out: the
\* file differs from what was asked for only from the block the worker holds, or
\* failed on, to the last that was queued (FastWrite, WorkerMain).
WrittenInOrder ==
    isOpen /\ pc \notin {"wake", "join"} =>
        \A p \in Positions :
            file[p] # content[p] => WrittenTo <= p /\ p < queuedTo

\* When FastWriteEnd has returned without an error, and after SafeTruncateAndClose
\* has, the file holds all that was written, and that alone in the second case,
\* with no block of the worker's, no error of its and no extension left behind.
FileIsComplete ==
    /\ isOpen /\ drained /\ pc \notin {"wake", "join"} => file = content
    /\ ~ isOpen /\ safe => file = content /\ size = call.pos

\* mQueuedBytes counts what is queued, never more than the capacity, whatever
\* the worker's failure or Close has dropped.
QueueWithinCapacity ==
    /\ mQueuedBytes = IF mRequests = <<>> THEN 0
                      ELSE End(mRequests[Len(mRequests)]) - Head(mRequests).pos
    /\ mQueuedBytes <= Capacity

\* Every call returns, also when the worker fails or ends while the client
\* sleeps: no notification is missed and the two never wait for each other.
CallsReturn == pc # "idle" ~> pc = "idle"
=============================================================================
