--------------------------- MODULE FileAsyncProofs ---------------------------
(***************************************************************************)
(* Safety of the write-behind file for files, blocks and buffers of every   *)
(* size.  The invariant has a part for the two threads' places (Places),    *)
(* one for what the error and the end of the worker leave behind (Errors),  *)
(* one for the blocks on their way (Blocks: they follow each other without  *)
(* a gap up to queuedTo), one for what they carry (Carried), one for the    *)
(* part of a FastWrite that is queued (Queued) and one for                  *)
(* SafeTruncateAndClose (SafeEnd).                                          *)
(***************************************************************************)
EXTENDS FileAsync, TLAPS

Ending == pc \in {"wake", "join"}
Unwritten == workerPc \in {"taken", "extend", "write"}

Places ==
    /\ ~ isOpen => pc = "idle" /\ workerPc = "none" /\ queuedTo = mClientFastPointer
    /\ isOpen => (mbBackground <=> workerPc # "none")
    /\ ~ mbBackground => pc \notin {"put", "notify", "drain", "wake", "join"}
    /\ mbWorkerWriting <=> workerPc \in {"taken", "extend", "write", "written", "failed"}
    /\ workerPc = "none" => mRequests = <<>> /\ ~ mbStopping
    /\ pc = "notify" => call.pos <= queuedTo /\ queuedTo <= End(call)
    /\ pc = "put" /\ ~ mWorkerError => call.pos <= queuedTo /\ queuedTo < End(call)
    /\ pc \in {"put", "notify"} => End(call) <= MaxPos /\ ~ drained
    /\ pc \notin {"put", "notify"} /\ ~ mWorkerError => queuedTo = mClientFastPointer

Errors ==
    /\ mWorkerError => workerPc = "ended" /\ mbStopping /\ mRequests = <<>>
    /\ mbStopping => mWorkerError \/ Ending
    /\ workerPc = "ended" => mbStopping
    /\ Ending => mbStopping /\ mRequests = <<>>
    /\ isOpen /\ drained /\ ~ Ending => ~ mWorkerError /\ AllWritten
    /\ pc \in {"sync", "truncate"} => ~ mWorkerError /\ AllWritten

Blocks ==
    /\ \A i \in 1 .. Len(mRequests) : End(mRequests[i]) <= queuedTo
    /\ \A i \in 1 .. Len(mRequests) - 1 : End(mRequests[i]) = mRequests[i + 1].pos
    /\ mRequests # <<>> => End(mRequests[Len(mRequests)]) = queuedTo
    /\ Unwritten \/ workerPc = "failed" => End(request) <= queuedTo
    /\ Unwritten /\ ~ Ending =>
        /\ mRequests = <<>> => End(request) = queuedTo
        /\ mRequests # <<>> => End(request) = mRequests[1].pos
    /\ mRequests = <<>> => mQueuedBytes = 0
    /\ mRequests # <<>> => mQueuedBytes = queuedTo - mRequests[1].pos
    /\ mQueuedBytes <= Capacity

Carried ==
    /\ \A i \in 1 .. Len(mRequests) : \A p \in Positions :
        Covers(mRequests[i], p) => content[p] = mRequests[i].val
    /\ Unwritten => \A p \in Positions : Covers(request, p) => content[p] = request.val

Queued ==
    pc \in {"put", "notify"} /\ ~ mWorkerError =>
        \A p \in Positions : call.pos <= p /\ p < queuedTo => content[p] = call.val

SafeEnd ==
    /\ safe /\ isOpen => pc \in {"drain", "sync", "truncate", "close", "wake", "join"}
    /\ safe /\ (pc \in {"close", "wake", "join"} \/ ~ isOpen) =>
        file = content /\ size = call.pos /\ AllWritten

IInv == TypeOK /\ Places /\ Errors /\ Blocks /\ Carried /\ Queued /\ WrittenInOrder /\ SafeEnd

-----------------------------------------------------------------------------
\* Filling a region of a file, cutting it off and taking part of a region.
LEMMA FilledFacts ==
    ASSUME NEW f \in [Positions -> Values], NEW r \in Regions
    PROVE  /\ Filled(f, r) \in [Positions -> Values]
           /\ \A p \in Positions : Filled(f, r)[p] = IF Covers(r, p) THEN r.val ELSE f[p]
  BY DEF Filled, Regions

LEMMA ZeroFacts ==
    ASSUME NEW f \in [Positions -> Values], NEW n \in Nat
    PROVE  ZeroFrom(f, n) \in [Positions -> Values]
  BY FileAsyncAssumption DEF ZeroFrom

LEMMA FirstFacts ==
    ASSUME NEW r \in Regions, NEW n \in Nat
    PROVE  /\ First(r, n) \in Regions /\ First(r, n).pos = r.pos
           /\ First(r, n).len = n /\ First(r, n).val = r.val
  BY DEF First, Regions

LEMMA EndFacts ==
    ASSUME NEW r \in Regions
    PROVE  End(r) \in Nat /\ r.pos \in Nat /\ r.len \in Nat /\ r.val \in Values
  BY DEF End, Regions

\* What the client can write and where, and the block it queues.
LEMMA InputFacts ==
    ASSUME NEW r \in [pos : 0 .. MaxPos, len : 1 .. MaxPos, val : Values]
    PROVE  r \in Regions
  BY FileAsyncAssumption DEF Regions

LEMMA NoRegionFacts == NoRegion \in Regions
  BY FileAsyncAssumption DEF NoRegion, Regions

LEMMA BlockFacts ==
    ASSUME TypeOK, Places, pc = "put", ~ mWorkerError
    PROVE  /\ Block \in Regions /\ Block.pos = queuedTo /\ Block.len > 0
           /\ Block.val = call.val /\ End(Block) = queuedTo + Block.len
           /\ End(Block) <= End(call)
<1>1. /\ queuedTo \in Nat /\ queuedTo < End(call) /\ End(call) \in Nat /\ call \in Regions
      /\ BlockSize \in Nat /\ BlockSize > 0 /\ call.val \in Values
  BY FileAsyncAssumption, EndFacts DEF TypeOK, ClientTypeOK, SharedTypeOK, Places
<1>2. CASE End(call) - queuedTo < BlockSize
  <2>1. Block = [pos |-> queuedTo, val |-> call.val, len |-> End(call) - queuedTo]
    BY <1>2 DEF Block
  <2>2. End(call) - queuedTo \in Nat /\ End(call) - queuedTo > 0
    BY <1>1
  <2> QED BY <1>1, <2>1, <2>2 DEF Regions, End
<1>3. CASE ~ (End(call) - queuedTo < BlockSize)
  <2>1. Block = [pos |-> queuedTo, val |-> call.val, len |-> BlockSize]
    BY <1>3 DEF Block
  <2>2. queuedTo + BlockSize <= End(call)
    BY <1>1, <1>3
  <2> QED BY <1>1, <2>1, <2>2 DEF Regions, End
<1> QED BY <1>2, <1>3

\* What a call has asked for up to the end of the next block differs from what was
\* asked for before in that block alone.
LEMMA AskedFacts ==
    ASSUME TypeOK, Places, Queued, pc = "put", ~ mWorkerError
    PROVE  Filled(content, Asked) = Filled(content, Block)
<1>1. /\ Block \in Regions /\ Block.pos = queuedTo /\ Block.val = call.val
      /\ End(Block) = queuedTo + Block.len /\ Block.len \in Nat
  BY BlockFacts, EndFacts
<1>2. /\ call \in Regions /\ call.pos \in Nat /\ queuedTo \in Nat /\ call.pos <= queuedTo
      /\ content \in [Positions -> Values] /\ \A p \in Positions : p \in Nat
  BY FileAsyncAssumption, EndFacts DEF TypeOK, ClientTypeOK, DiskTypeOK, Places, Positions
<1> HIDE DEF Block
<1>3. /\ Asked \in Regions /\ Asked.pos = call.pos /\ Asked.val = call.val
      /\ Asked.len = End(Block) - call.pos
  <2>1. End(Block) - call.pos \in Nat
    BY <1>1, <1>2
  <2> QED BY <1>2, <2>1, FirstFacts DEF Asked
<1> HIDE DEF Asked
<1>4. ASSUME NEW p \in Positions PROVE Filled(content, Asked)[p] = Filled(content, Block)[p]
  <2>1. /\ Filled(content, Asked)[p] = IF Covers(Asked, p) THEN call.val ELSE content[p]
        /\ Filled(content, Block)[p] = IF Covers(Block, p) THEN call.val ELSE content[p]
    BY <1>1, <1>2, <1>3, FilledFacts
  <2>2. Covers(Asked, p) <=> call.pos <= p /\ p < End(Block)
    BY <1>1, <1>2, <1>3 DEF Covers, End
  <2>3. Covers(Block, p) <=> queuedTo <= p /\ p < End(Block)
    BY <1>1 DEF Covers
  <2>4. call.pos <= p /\ p < queuedTo => content[p] = call.val
    BY DEF Queued
  <2> QED BY <1>2, <2>1, <2>2, <2>3, <2>4
<1>5. Filled(content, Asked) \in [Positions -> Values] /\ Filled(content, Block) \in [Positions -> Values]
  BY <1>1, <1>2, <1>3, FilledFacts
<1> QED BY <1>4, <1>5

LEMMA AtLeastFacts ==
    ASSUME size \in Nat, NEW n \in Nat
    PROVE  AtLeast(n) \in Nat
  BY DEF AtLeast

\* The step case of TypeOK, a part at a time.
LEMMA ClientTypeStep == TypeOK /\ Places /\ [Next]_vars => ClientTypeOK'
<1> SUFFICES ASSUME TypeOK, Places, [Next]_vars PROVE ClientTypeOK'
  OBVIOUS
<1> USE FileAsyncAssumption DEF TypeOK, ClientTypeOK, position, caller, disk
<1>1. ASSUME NEW r \in [pos : 0 .. MaxPos, len : 1 .. MaxPos, val : Values],
             FastWriteDirect(r) \/ FastWrite(r) \/ Write(r)
      PROVE  ClientTypeOK'
  <2>1. r \in Regions /\ End(r) \in Nat
    BY InputFacts, EndFacts
  <2>2. CASE FastWriteDirect(r)
    BY <2>1, <2>2 DEF FastWriteDirect
  <2>3. CASE FastWrite(r)
    BY <2>1, <2>3 DEF FastWrite
  <2>4. CASE Write(r)
    BY <2>4 DEF Write
  <2> QED BY <1>1, <2>2, <2>3, <2>4
<1>2. ASSUME NEW pos \in 0 .. MaxPos, Extend(pos) \/ SafeTruncateAndClose(pos)
      PROVE  ClientTypeOK'
  <2>1. [NoRegion EXCEPT !.pos = pos] \in Regions
    BY DEF NoRegion, Regions
  <2> QED BY <1>2, <2>1 DEF Truncate, Extend, SafeTruncateAndClose
<1>3. CASE Open \/ FastWriteEnd \/ Close \/ \E enabled \in BOOLEAN : SetPreemptiveExtend(enabled)
  <2>1. CASE Open
    <3>1. /\ pc' = pc /\ call' = NoRegion /\ safe' = FALSE /\ drained' = TRUE
          /\ mClientFastPointer' = 0 /\ queuedTo' = 0
      BY <2>1 DEF Open
    <3>2. mClientFastPointer' \in 0 .. MaxPos /\ queuedTo' \in 0 .. MaxPos
      BY <3>1
    <3>3. call' \in Regions /\ safe' \in BOOLEAN /\ drained' \in BOOLEAN
      BY <3>1, NoRegionFacts
    <3> QED BY <3>1, <3>2, <3>3
  <2>2. CASE FastWriteEnd \/ Close \/ \E enabled \in BOOLEAN : SetPreemptiveExtend(enabled)
    BY <2>2 DEF FastWriteEnd, Close, SetPreemptiveExtend
  <2> QED BY <1>3, <2>1, <2>2
<1>4. CASE Put
  <2>1. CASE mWorkerError \/ ~ HasSpace
    BY <1>4, <2>1, NoRegionFacts DEF Put, Return
  <2>2. CASE ~ mWorkerError /\ HasSpace
    <3>1. Block \in Regions /\ End(Block) <= End(call) /\ End(call) <= MaxPos
      BY <1>4, <2>2, BlockFacts DEF Put, Places
    <3>2. End(Block) \in 0 .. MaxPos
      BY <3>1, EndFacts
    <3> QED BY <1>4, <2>2, <3>2 DEF Put
  <2> QED BY <2>1, <2>2
<1>5. CASE Notify
  <2>1. End(call) \in 0 .. MaxPos
    BY <1>5, EndFacts DEF Notify, Places
  <2> QED BY <1>5, <2>1, NoRegionFacts DEF Notify, Return
<1>6. CASE Drain \/ Sync \/ SafeTruncate
  BY <1>6, NoRegionFacts DEF Drain, Sync, SafeTruncate, Throw, Return
<1>7. CASE StopWorker \/ WakeAll \/ FinishClose
  BY <1>7 DEF StopWorker, WakeAll, FinishClose
<1>8. CASE WorkerMain
  BY <1>8 DEF WorkerMain, Take, NotifySpace, PreemptivelyExtend, WriteBlock, Fail, BlockDone
<1>9. CASE (\E c \in Conditions : WakeForNothing(c)) \/ UNCHANGED vars
  BY <1>9 DEF WakeForNothing, vars
<1> QED BY <1>1, <1>2, <1>3, <1>4, <1>5, <1>6, <1>7, <1>8, <1>9 DEF Next, Calls, InCall

LEMMA WorkerTypeStep == TypeOK /\ [Next]_vars => WorkerTypeOK'
<1> SUFFICES ASSUME TypeOK, [Next]_vars PROVE WorkerTypeOK'
  OBVIOUS
<1> USE DEF TypeOK, WorkerTypeOK, SharedTypeOK, worker
<1>1. CASE Calls
  BY <1>1 DEF Calls, Open, FastWriteEnd, Close, FastWriteDirect, FastWrite, Write, Truncate,
              Extend, SafeTruncateAndClose, SetPreemptiveExtend
<1>2. CASE InCall
  BY <1>2, NoRegionFacts DEF InCall, Put, Notify, Drain, Sync, SafeTruncate, StopWorker, WakeAll,
              FinishClose, Conditions
<1>3. CASE Take
  <2>1. mRequests # <<>> => Head(mRequests) \in Regions
    OBVIOUS
  <2> QED BY <1>3, <2>1 DEF Take, Conditions
<1>4. CASE NotifySpace \/ PreemptivelyExtend \/ WriteBlock
  BY <1>4 DEF NotifySpace, PreemptivelyExtend, WriteBlock
<1>5. CASE Fail \/ BlockDone
  BY <1>5, NoRegionFacts DEF Fail, BlockDone
<1>6. CASE (\E c \in Conditions : WakeForNothing(c)) \/ UNCHANGED vars
  BY <1>6 DEF WakeForNothing, vars
<1> HIDE DEF TypeOK, WorkerTypeOK, SharedTypeOK, worker
<1> QED BY <1>1, <1>2, <1>3, <1>4, <1>5, <1>6 DEF Next, WorkerMain

LEMMA SharedTypeStep == TypeOK /\ Places /\ Blocks /\ [Next]_vars => SharedTypeOK'
<1> SUFFICES ASSUME TypeOK, Places, Blocks, [Next]_vars PROVE SharedTypeOK'
  OBVIOUS
<1> USE FileAsyncAssumption DEF TypeOK, ClientTypeOK, SharedTypeOK, shared, mode
<1>1. CASE Calls
  <2>1. CASE Open \/ FastWriteEnd \/ Close
    BY <2>1 DEF Open, FastWriteEnd, Close
  <2>2. CASE \E r \in [pos : 0 .. MaxPos, len : 1 .. MaxPos, val : Values] :
                FastWriteDirect(r) \/ FastWrite(r) \/ Write(r)
    BY <2>2 DEF FastWriteDirect, FastWrite, Write
  <2>3. CASE \E pos \in 0 .. MaxPos : Extend(pos) \/ SafeTruncateAndClose(pos)
    BY <2>3 DEF Truncate, Extend, SafeTruncateAndClose
  <2>4. CASE \E enabled \in BOOLEAN : SetPreemptiveExtend(enabled)
    BY <2>4 DEF SetPreemptiveExtend
  <2> HIDE DEF TypeOK, ClientTypeOK, SharedTypeOK, shared, mode
  <2> QED BY <1>1, <2>1, <2>2, <2>3, <2>4 DEF Calls
<1>2. CASE Put
  <2>1. CASE mWorkerError \/ ~ HasSpace
    BY <1>2, <2>1 DEF Put
  <2>2. CASE ~ mWorkerError /\ HasSpace
    <3>1. Block \in Regions /\ Block.len \in Nat
      BY <1>2, <2>2, BlockFacts, EndFacts DEF Put
    <3>2. /\ mRequests' = Append(mRequests, Block) /\ mQueuedBytes' = mQueuedBytes + Block.len
          /\ UNCHANGED <<isOpen, mode, mbWorkerWriting, mbStopping, mWorkerError>>
      BY <1>2, <2>2 DEF Put
    <3>3. mRequests' \in Seq(Regions) /\ mQueuedBytes' \in Nat
      BY <3>1, <3>2
    <3> QED BY <3>2, <3>3
  <2> QED BY <2>1, <2>2
<1>3. CASE Notify \/ Drain \/ Sync \/ SafeTruncate \/ WakeAll
  BY <1>3 DEF Notify, Drain, Sync, SafeTruncate, WakeAll
<1>4. CASE StopWorker \/ FinishClose
  <2>0. mRequests' = <<>>
    BY <1>4 DEF StopWorker, FinishClose
  <2>1. mRequests' \in Seq(Regions)
    BY <2>0
  <2>2. CASE StopWorker
    BY <2>1, <2>2 DEF StopWorker
  <2>3. CASE FinishClose
    <3>1. mQueuedBytes' = 0 /\ mbBackground' = mbBackground
          /\ mbPreemptiveExtend' = mbPreemptiveExtend
      BY <2>3 DEF FinishClose
    <3>2. /\ isOpen' \in BOOLEAN /\ mbWorkerWriting' \in BOOLEAN
          /\ mbStopping' \in BOOLEAN /\ mWorkerError' \in BOOLEAN
      BY <2>3 DEF FinishClose
    <3> QED BY <2>1, <3>1, <3>2
  <2> QED BY <1>4, <2>2, <2>3
<1>5. CASE Take
  <2>1. CASE mRequests # <<>> /\ ~ mbStopping
    <3>1. /\ mRequests[1] \in Regions /\ Head(mRequests) = mRequests[1]
          /\ Tail(mRequests) \in Seq(Regions) /\ 1 \in 1 .. Len(mRequests)
      BY <2>1
    <3>2. mQueuedBytes - mRequests[1].len \in Nat
      <4>1. mQueuedBytes = queuedTo - mRequests[1].pos /\ End(mRequests[1]) <= queuedTo
        BY <2>1, <3>1 DEF Blocks
      <4>2. /\ mRequests[1].pos \in Nat /\ mRequests[1].len \in Nat
            /\ End(mRequests[1]) = mRequests[1].pos + mRequests[1].len
        BY <3>1, EndFacts DEF End
      <4> QED BY <4>1, <4>2
    <3> QED BY <1>5, <2>1, <3>1, <3>2 DEF Take
  <2>2. CASE ~ (mRequests # <<>> /\ ~ mbStopping)
    BY <1>5, <2>2 DEF Take
  <2> QED BY <2>1, <2>2
<1>6. CASE NotifySpace \/ PreemptivelyExtend \/ WriteBlock
  BY <1>6 DEF NotifySpace, PreemptivelyExtend, WriteBlock
<1>7. CASE Fail \/ BlockDone
  <2>1. CASE Fail
    <3>1. mRequests' = <<>> /\ mRequests' \in Seq(Regions)
      BY <2>1 DEF Fail
    <3> QED BY <2>1, <3>1 DEF Fail
  <2>2. CASE BlockDone
    BY <2>2 DEF BlockDone
  <2> QED BY <1>7, <2>1, <2>2
<1>8. CASE (\E c \in Conditions : WakeForNothing(c)) \/ UNCHANGED vars
  BY <1>8 DEF WakeForNothing, vars
<1> QED BY <1>1, <1>2, <1>3, <1>4, <1>5, <1>6, <1>7, <1>8 DEF Next, InCall, WorkerMain

LEMMA DiskTypeStep == TypeOK /\ Places /\ Queued /\ [Next]_vars => DiskTypeOK'
<1> SUFFICES ASSUME TypeOK, Places, Queued, [Next]_vars PROVE DiskTypeOK'
  OBVIOUS
<1> USE FileAsyncAssumption DEF TypeOK, DiskTypeOK, disk
<1>1. ASSUME NEW r \in [pos : 0 .. MaxPos, len : 1 .. MaxPos, val : Values],
             FastWriteDirect(r) \/ FastWrite(r) \/ Write(r)
      PROVE  DiskTypeOK'
  <2>1. ASSUME NEW n \in 0 .. r.len, WriteHere(r, n)
        PROVE  DiskTypeOK'
    <3>1. r \in Regions
      BY InputFacts
    <3>2. n \in Nat /\ r.pos + n \in Nat
      BY <3>1, EndFacts
    <3>3. First(r, n) \in Regions
      BY <3>1, <3>2, FirstFacts
    <3> QED BY <2>1, <3>2, <3>3, FilledFacts, AtLeastFacts DEF WriteHere
  <2> QED BY <1>1, <2>1 DEF FastWriteDirect, FastWrite, Write
<1>2. ASSUME NEW pos \in 0 .. MaxPos, Extend(pos) \/ SafeTruncateAndClose(pos)
      PROVE  DiskTypeOK'
  BY <1>2, ZeroFacts DEF Truncate, TruncateTo, Extend, SafeTruncateAndClose
<1>3. CASE Open \/ FastWriteEnd \/ Close \/ \E enabled \in BOOLEAN : SetPreemptiveExtend(enabled)
  BY <1>3 DEF Open, FastWriteEnd, Close, SetPreemptiveExtend
<1>4. CASE Put
  BY <1>4, BlockFacts, FilledFacts, AskedFacts DEF Put
<1>5. CASE Notify \/ Drain \/ Sync \/ StopWorker \/ WakeAll \/ FinishClose
  BY <1>5 DEF Notify, Drain, Sync, StopWorker, WakeAll, FinishClose
<1>6. CASE SafeTruncate
  BY <1>6, EndFacts, ZeroFacts DEF SafeTruncate, TruncateTo, ClientTypeOK
<1>7. CASE Take \/ NotifySpace \/ Fail \/ BlockDone
  BY <1>7 DEF Take, NotifySpace, Fail, BlockDone
<1>8. CASE PreemptivelyExtend
  <2>1. AtLeast(End(request) + Capacity) \in Nat
    BY EndFacts, AtLeastFacts DEF WorkerTypeOK
  <2> QED BY <1>8, <2>1 DEF PreemptivelyExtend
<1>9. CASE WriteBlock
  <2>1. request \in Regions /\ End(request) \in Nat
    BY EndFacts DEF WorkerTypeOK
  <2>2. CASE file' = Filled(file, request) /\ size' = AtLeast(End(request))
    BY <1>9, <2>1, <2>2, AtLeastFacts, FilledFacts DEF WriteBlock
  <2>3. ASSUME NEW n \in 0 .. request.len - 1, file' = Filled(file, First(request, n)),
               size' = IF n = 0 THEN size ELSE AtLeast(request.pos + n)
        PROVE  file' \in [Positions -> Values] /\ size' \in Nat
    <3>1. n \in Nat /\ request.pos + n \in Nat
      BY <2>1, EndFacts
    <3>2. First(request, n) \in Regions
      BY <2>1, <3>1, FirstFacts
    <3> QED BY <2>3, <3>1, <3>2, AtLeastFacts, FilledFacts
  <2> QED BY <1>9, <2>2, <2>3 DEF WriteBlock
<1>10. CASE (\E c \in Conditions : WakeForNothing(c)) \/ UNCHANGED vars
  BY <1>10 DEF WakeForNothing, vars
<1> QED
  BY <1>1, <1>2, <1>3, <1>4, <1>5, <1>6, <1>7, <1>8, <1>9, <1>10
  DEF Next, Calls, InCall, WorkerMain

\* The step case of Places.
LEMMA PlacesStep == TypeOK /\ Places /\ Errors /\ [Next]_vars => Places'
<1> SUFFICES ASSUME TypeOK, Places, Errors, [Next]_vars PROVE Places'
  OBVIOUS
<1>0. /\ queuedTo \in Nat /\ mClientFastPointer \in Nat /\ queuedTo <= MaxPos
      /\ call \in Regions /\ call.pos \in Nat /\ End(call) \in Nat
  BY FileAsyncAssumption, EndFacts DEF TypeOK, ClientTypeOK
<1> USE DEF Places, Errors, Ending, position, shared, mode, caller, worker, disk
<1>1. ASSUME NEW r \in [pos : 0 .. MaxPos, len : 1 .. MaxPos, val : Values],
             FastWriteDirect(r) \/ FastWrite(r) \/ Write(r)
      PROVE  Places'
  <2>1. r.pos \in Nat /\ End(r) \in Nat /\ End(r) = r.pos + r.len /\ r.len > 0 /\ r.len \in Nat
    BY InputFacts, EndFacts, FileAsyncAssumption DEF End
  <2>2. CASE FastWriteDirect(r)
    BY <2>2 DEF FastWriteDirect
  <2>3. CASE FastWrite(r)
    BY <1>0, <2>1, <2>3 DEF FastWrite
  <2>4. CASE Write(r)
    BY <2>4 DEF Write
  <2> QED BY <1>1, <2>2, <2>3, <2>4
<1>2. ASSUME NEW pos \in 0 .. MaxPos, Extend(pos) \/ SafeTruncateAndClose(pos)
      PROVE  Places'
  BY <1>2 DEF Truncate, Extend, SafeTruncateAndClose
<1>3. CASE Open
  BY <1>3 DEF Open
<1>4. CASE FastWriteEnd \/ Close \/ \E enabled \in BOOLEAN : SetPreemptiveExtend(enabled)
  BY <1>4 DEF FastWriteEnd, Close, SetPreemptiveExtend
<1>5. CASE Put
  <2>1. CASE mWorkerError \/ ~ HasSpace
    BY <1>5, <2>1 DEF Put, Return
  <2>2. CASE ~ mWorkerError /\ HasSpace
    <3>1. /\ End(Block) = queuedTo + Block.len /\ End(Block) <= End(call) /\ Block.len \in Nat
      BY <1>5, <2>2, BlockFacts, EndFacts DEF Put
    <3>2. /\ pc = "put" /\ pc' = "notify" /\ queuedTo' = End(Block) /\ workerPc # "none"
          /\ UNCHANGED <<isOpen, mode, mClientFastPointer, mbWorkerWriting, mbStopping,
                         mWorkerError, worker, drained, call>>
      BY <1>5, <2>2 DEF Put
    <3>3. call.pos <= queuedTo' /\ queuedTo' <= End(call)
      BY <1>0, <2>2, <3>1, <3>2
    <3> QED BY <3>2, <3>3 DEF End
  <2> QED BY <2>1, <2>2
<1>6. CASE Notify
  <2>1. CASE queuedTo < End(call)
    BY <1>0, <1>6, <2>1 DEF Notify, End
  <2>2. CASE ~ (queuedTo < End(call))
    <3>1. queuedTo = End(call)
      BY <1>0, <1>6, <2>2 DEF Notify
    <3> QED BY <1>6, <2>2, <3>1 DEF Notify, Return
  <2> QED BY <2>1, <2>2
<1>7. CASE Drain
  BY <1>7 DEF Drain, Throw, Return
<1>8. CASE Sync \/ SafeTruncate
  BY <1>8 DEF Sync, SafeTruncate, Throw, Return
<1>9. CASE StopWorker \/ WakeAll
  BY <1>9 DEF StopWorker, WakeAll
<1>10. CASE FinishClose
  BY <1>10 DEF FinishClose
<1>11. CASE Take
  BY <1>11 DEF Take
<1>12. CASE NotifySpace \/ PreemptivelyExtend \/ WriteBlock
  BY <1>12 DEF NotifySpace, PreemptivelyExtend, WriteBlock
<1>13. CASE Fail
  BY <1>13 DEF Fail
<1>14. CASE BlockDone
  BY <1>14 DEF BlockDone
<1>15. CASE (\E c \in Conditions : WakeForNothing(c)) \/ UNCHANGED vars
  BY <1>15 DEF WakeForNothing, vars
<1> QED
  BY <1>1, <1>2, <1>3, <1>4, <1>5, <1>6, <1>7, <1>8, <1>9, <1>10, <1>11, <1>12, <1>13, <1>14, <1>15
  DEF Next, Calls, InCall, WorkerMain

\* The step case of Errors.
LEMMA ErrorsStep == TypeOK /\ Places /\ Errors /\ [Next]_vars => Errors'
<1> SUFFICES ASSUME TypeOK, Places, Errors, [Next]_vars PROVE Errors'
  OBVIOUS
<1> USE DEF Places, Errors, Ending, AllWritten, position, shared, mode, caller, worker, disk
<1>1. CASE Open
  BY <1>1 DEF Open
<1>2. CASE Calls /\ ~ Open
  <2>1. UNCHANGED <<isOpen, mbBackground, mRequests, mbWorkerWriting, mbStopping, mWorkerError, workerPc>>
        /\ ~ Ending /\ ~ Ending' /\ (drained' => drained)
    BY <1>2 DEF Calls, FastWriteEnd, Close, FastWriteDirect, FastWrite, Write, Truncate,
                Extend, SafeTruncateAndClose, SetPreemptiveExtend
  <2>2. pc' \in {"sync", "truncate"} => isOpen /\ ~ mbBackground
    BY <1>2 DEF Calls, FastWriteEnd, Close, FastWriteDirect, FastWrite, Write, Truncate,
                Extend, SafeTruncateAndClose, SetPreemptiveExtend
  <2> QED BY <2>1, <2>2
<1>3. CASE Put
  BY <1>3 DEF Put, Return
<1>4. CASE Notify \/ Drain
  BY <1>4 DEF Notify, Drain, Throw, Return
<1>5. CASE Sync \/ SafeTruncate
  BY <1>5 DEF Sync, SafeTruncate, Throw, Return
<1>6. CASE StopWorker \/ WakeAll
  BY <1>6 DEF StopWorker, WakeAll
<1>7. CASE FinishClose
  BY <1>7 DEF FinishClose
<1>8. CASE Take
  BY <1>8 DEF Take
<1>9. CASE NotifySpace \/ PreemptivelyExtend \/ WriteBlock
  BY <1>9 DEF NotifySpace, PreemptivelyExtend, WriteBlock
<1>10. CASE Fail
  BY <1>10 DEF Fail
<1>11. CASE BlockDone
  BY <1>11 DEF BlockDone
<1>12. CASE (\E c \in Conditions : WakeForNothing(c)) \/ UNCHANGED vars
  BY <1>12 DEF WakeForNothing, vars
<1> QED
  BY <1>1, <1>2, <1>3, <1>4, <1>5, <1>6, <1>7, <1>8, <1>9, <1>10, <1>11, <1>12
  DEF Next, InCall, WorkerMain

\* The step case of Blocks.
LEMMA BlocksStep ==
    TypeOK /\ TypeOK' /\ Places /\ Errors /\ Blocks /\ [Next]_vars => Blocks'
<1> SUFFICES ASSUME TypeOK, TypeOK', Places, Errors, Blocks, [Next]_vars PROVE Blocks'
  OBVIOUS
<1>0. /\ mRequests \in Seq(Regions) /\ queuedTo \in Nat /\ mQueuedBytes \in Nat
      /\ request \in Regions /\ Capacity \in Nat /\ Len(mRequests) \in Nat
      /\ \A i \in 1 .. Len(mRequests) : mRequests[i] \in Regions /\ End(mRequests[i]) \in Nat
  <2>1. /\ mRequests \in Seq(Regions) /\ queuedTo \in Nat /\ mQueuedBytes \in Nat
        /\ request \in Regions /\ Capacity \in Nat
    BY FileAsyncAssumption DEF TypeOK, ClientTypeOK, WorkerTypeOK, SharedTypeOK
  <2>2. \A i \in 1 .. Len(mRequests) : mRequests[i] \in Regions
    BY <2>1
  <2> QED BY <2>1, <2>2, EndFacts
<1> USE DEF position, shared, mode, caller, worker
\* Most steps leave the blocks alone.
<1>1. ASSUME UNCHANGED <<mRequests, mQueuedBytes, queuedTo, request>>,
             Unwritten' => Unwritten, Unwritten' /\ Ending => Ending',
             workerPc' = "failed" => Unwritten \/ workerPc = "failed"
      PROVE  Blocks'
  BY <1>1 DEF Blocks, Unwritten
\* Where nothing waits and nothing is held there is nothing to show.
<1>2. ASSUME mRequests' = <<>>, mQueuedBytes' = 0, ~ Unwritten', workerPc' # "failed"
      PROVE  Blocks'
  BY <1>0, <1>2 DEF Blocks
<1>3. CASE Open \/ \E r \in [pos : 0 .. MaxPos, len : 1 .. MaxPos, val : Values] : FastWriteDirect(r)
  <2>1. mRequests = <<>> /\ mQueuedBytes = 0
    BY <1>3 DEF Open, FastWriteDirect, Places, Blocks
  <2>2. mRequests' = <<>> /\ mQueuedBytes' = 0
    BY <1>3, <2>1 DEF Open, FastWriteDirect
  <2>3. ~ Unwritten' /\ workerPc' # "failed"
    BY <1>3 DEF Open, FastWriteDirect, Places, Unwritten
  <2> QED BY <1>2, <2>2, <2>3
<1>4. CASE Calls /\ ~ Open /\ ~ \E r \in [pos : 0 .. MaxPos, len : 1 .. MaxPos, val : Values] : FastWriteDirect(r)
  <2>1. UNCHANGED <<mRequests, mQueuedBytes, queuedTo, request, workerPc>> /\ ~ Ending
    BY <1>4 DEF Calls, FastWriteEnd, Close, FastWrite, Write, Truncate, Extend,
                SafeTruncateAndClose, SetPreemptiveExtend, Ending
  <2> QED BY <1>1, <2>1 DEF Unwritten
<1>5. CASE Put
  <2>1. CASE mWorkerError \/ ~ HasSpace
    BY <1>1, <1>5, <2>1 DEF Put, Return, Unwritten, Ending
  <2>2. CASE ~ mWorkerError /\ HasSpace
    <3>1. /\ Block \in Regions /\ Block.pos = queuedTo /\ Block.len \in Nat
          /\ End(Block) = queuedTo + Block.len /\ End(Block) \in Nat
      BY <1>5, <2>2, BlockFacts, EndFacts DEF Put
    <3>2. /\ mRequests' = Append(mRequests, Block) /\ mQueuedBytes' = mQueuedBytes + Block.len
          /\ queuedTo' = End(Block) /\ workerPc' = workerPc /\ request' = request
          /\ ~ Ending /\ ~ Ending' /\ mQueuedBytes + Block.len <= Capacity
      BY <1>5, <2>2 DEF Put, HasSpace, Ending
    <3> HIDE DEF Block
    <3>31. mRequests' = Append(mRequests, Block) /\ Block \in Regions /\ mRequests \in Seq(Regions)
      BY <1>0, <3>1, <3>2
    <3>32. /\ Len(mRequests') = Len(mRequests) + 1
          /\ mRequests'[Len(mRequests) + 1] = Block
          /\ \A i \in 1 .. Len(mRequests) : mRequests'[i] = mRequests[i]
      BY ONLY <3>31
    <3>3. /\ Len(mRequests') = Len(mRequests) + 1 /\ mRequests' # <<>>
          /\ mRequests'[Len(mRequests) + 1] = Block
          /\ \A i \in 1 .. Len(mRequests) : mRequests'[i] = mRequests[i]
      BY <1>0, <3>32
    <3>4. \A i \in 1 .. Len(mRequests') : End(mRequests'[i]) <= queuedTo'
      <4> SUFFICES ASSUME NEW i \in 1 .. Len(mRequests') PROVE End(mRequests'[i]) <= queuedTo'
        OBVIOUS
      <4>1. CASE i = Len(mRequests) + 1
        BY <3>1, <3>2, <3>3, <4>1
      <4>2. CASE i # Len(mRequests) + 1
        <5>1. i \in 1 .. Len(mRequests)
          BY <1>0, <3>3, <4>2
        <5>2. mRequests'[i] = mRequests[i] /\ End(mRequests[i]) <= queuedTo /\ End(mRequests[i]) \in Nat
          BY <1>0, <3>3, <5>1 DEF Blocks
        <5> QED BY <1>0, <3>1, <3>2, <5>2
      <4> QED BY <4>1, <4>2
    <3>5. \A i \in 1 .. Len(mRequests') - 1 : End(mRequests'[i]) = mRequests'[i + 1].pos
      <4> SUFFICES ASSUME NEW i \in 1 .. Len(mRequests)
                   PROVE  End(mRequests'[i]) = mRequests'[i + 1].pos
        BY <1>0, <3>3
      <4>1. mRequests'[i] = mRequests[i]
        BY <3>3
      <4>2. CASE i = Len(mRequests)
        BY <1>0, <3>1, <3>3, <4>1, <4>2 DEF Blocks
      <4>3. CASE i # Len(mRequests)
        <5>1. i \in 1 .. Len(mRequests) - 1 /\ i + 1 \in 1 .. Len(mRequests)
          BY <1>0, <4>3
        <5> QED BY <3>3, <4>1, <5>1 DEF Blocks
      <4> QED BY <4>2, <4>3
    <3>6. End(mRequests'[Len(mRequests')]) = queuedTo'
      BY <3>2, <3>3
    <3>7. mQueuedBytes' = queuedTo' - mRequests'[1].pos
      <4>1. CASE mRequests = <<>>
        BY <1>0, <3>1, <3>2, <3>3, <4>1 DEF Blocks
      <4>2. CASE mRequests # <<>>
        <5>1. 1 \in 1 .. Len(mRequests) /\ mRequests'[1] = mRequests[1]
          BY <1>0, <3>3, <4>2
        <5>2. mRequests[1].pos \in Nat
          BY <1>0, <5>1, EndFacts
        <5>3. mQueuedBytes = queuedTo - mRequests[1].pos
          BY <4>2 DEF Blocks
        <5>4. mQueuedBytes' = mQueuedBytes + Block.len /\ queuedTo' = queuedTo + Block.len
          BY <3>1, <3>2
        <5>5. queuedTo \in Nat /\ Block.len \in Nat
          BY <1>0, <3>1
        <5> QED BY ONLY <5>1, <5>2, <5>3, <5>4, <5>5
      <4> QED BY <4>1, <4>2
    <3>8. Unwritten \/ workerPc = "failed" => End(request) <= queuedTo'
      BY <1>0, <3>1, <3>2, EndFacts DEF Blocks
    <3>9. Unwritten => End(request) = mRequests'[1].pos
      <4>1. CASE mRequests = <<>>
        BY <1>0, <3>1, <3>2, <3>3, <4>1 DEF Blocks
      <4>2. CASE mRequests # <<>>
        BY <1>0, <3>2, <3>3, <4>2 DEF Blocks
      <4> QED BY <4>1, <4>2
    <3> QED BY <3>2, <3>3, <3>4, <3>5, <3>6, <3>7, <3>8, <3>9 DEF Blocks, Unwritten
  <2> QED BY <2>1, <2>2
<1>6. CASE Notify \/ Drain \/ Sync \/ SafeTruncate \/ WakeAll
  BY <1>1, <1>6 DEF Notify, Drain, Sync, SafeTruncate, WakeAll, Throw, Return, Unwritten, Ending
<1>7. CASE StopWorker
  <2>1. /\ mRequests' = <<>> /\ mQueuedBytes' = 0 /\ Ending' /\ workerPc' = workerPc
        /\ request' = request /\ queuedTo' = queuedTo
    BY <1>7 DEF StopWorker, Ending
  <2> QED BY <1>0, <2>1 DEF Blocks, Unwritten
<1>8. CASE FinishClose \/ Fail
  <2>1. mRequests' = <<>> /\ mQueuedBytes' = 0 /\ ~ Unwritten' /\ workerPc' # "failed"
    BY <1>8 DEF FinishClose, Fail, Unwritten
  <2> QED BY <1>2, <2>1
<1>9. CASE Take
  <2>1. CASE mRequests # <<>> /\ ~ mbStopping
    <3>1. /\ request' = mRequests[1] /\ mRequests' = Tail(mRequests) /\ queuedTo' = queuedTo
          /\ mQueuedBytes' = mQueuedBytes - mRequests[1].len /\ workerPc' = "taken" /\ pc' = pc
      BY <1>0, <1>9, <2>1 DEF Take
    <3>2. /\ Len(mRequests') = Len(mRequests) - 1 /\ Len(mRequests) >= 1
          /\ \A i \in 1 .. Len(mRequests) - 1 : mRequests'[i] = mRequests[i + 1]
      BY <1>0, <2>1, <3>1
    <3>3. /\ 1 \in 1 .. Len(mRequests) /\ End(mRequests[1]) <= queuedTo
          /\ mRequests[1].pos \in Nat /\ mRequests[1].len \in Nat
          /\ End(mRequests[1]) = mRequests[1].pos + mRequests[1].len
          /\ mQueuedBytes = queuedTo - mRequests[1].pos /\ mQueuedBytes <= Capacity
      BY <1>0, <2>1, <3>2, EndFacts DEF Blocks, End
    <3>4. \A i \in 1 .. Len(mRequests') : End(mRequests'[i]) <= queuedTo'
      <4> SUFFICES ASSUME NEW i \in 1 .. Len(mRequests') PROVE End(mRequests'[i]) <= queuedTo'
        OBVIOUS
      <4>1. i \in 1 .. Len(mRequests) - 1 /\ i + 1 \in 1 .. Len(mRequests)
        BY <1>0, <3>2
      <4> QED BY <3>1, <3>2, <4>1 DEF Blocks
    <3>5. \A i \in 1 .. Len(mRequests') - 1 : End(mRequests'[i]) = mRequests'[i + 1].pos
      <4> SUFFICES ASSUME NEW i \in 1 .. Len(mRequests') - 1
                   PROVE  End(mRequests'[i]) = mRequests'[i + 1].pos
        OBVIOUS
      <4>1. /\ i \in 1 .. Len(mRequests) - 1 /\ i + 1 \in 1 .. Len(mRequests) - 1
            /\ mRequests'[i] = mRequests[i + 1] /\ mRequests'[i + 1] = mRequests[(i + 1) + 1]
        BY <1>0, <3>2
      <4> QED BY <4>1 DEF Blocks
    <3>6. CASE Len(mRequests) = 1
      <4>1. mRequests' = <<>> /\ End(mRequests[1]) = queuedTo
        BY <1>0, <2>1, <3>1, <3>2, <3>6 DEF Blocks
      <4>2. mQueuedBytes' = 0 /\ mQueuedBytes' <= Capacity
        <5>1. /\ queuedTo = mRequests[1].pos + mRequests[1].len
              /\ mQueuedBytes = queuedTo - mRequests[1].pos
              /\ mQueuedBytes' = mQueuedBytes - mRequests[1].len
          BY <3>1, <3>3, <4>1, Zenon
        <5>2. queuedTo \in Nat /\ mRequests[1].pos \in Nat /\ mRequests[1].len \in Nat
          BY <1>0, <3>3, Zenon
        <5>3. mQueuedBytes' = 0
          BY <5>1, <5>2
        <5> QED BY <1>0, <5>3
      <4>3. request' = mRequests[1] /\ queuedTo' = queuedTo /\ workerPc' # "failed"
        BY <3>1
      <4> QED BY <3>3, <3>4, <3>5, <4>1, <4>2, <4>3 DEF Blocks
    <3>7. CASE Len(mRequests) # 1
      <4>1. /\ 1 \in 1 .. Len(mRequests) - 1 /\ mRequests' # <<>>
            /\ mRequests'[1] = mRequests[2] /\ Len(mRequests) \in 1 .. Len(mRequests)
            /\ mRequests'[Len(mRequests')] = mRequests[Len(mRequests)]
        BY <1>0, <3>2, <3>7
      <4>2. End(mRequests[1]) = mRequests'[1].pos
        BY <4>1 DEF Blocks
      <4>3. End(mRequests'[Len(mRequests')]) = queuedTo'
        BY <2>1, <3>1, <4>1 DEF Blocks
      <4>4. mQueuedBytes' = queuedTo' - mRequests'[1].pos /\ mQueuedBytes' <= Capacity
        <5>1. queuedTo' = queuedTo /\ mQueuedBytes' = mQueuedBytes - mRequests[1].len
          BY <3>1
        <5>2. queuedTo \in Nat /\ mQueuedBytes \in Nat /\ Capacity \in Nat
          BY <1>0
        <5>3. /\ mRequests[1].pos \in Nat /\ mRequests[1].len \in Nat
              /\ End(mRequests[1]) = mRequests[1].pos + mRequests[1].len
              /\ mQueuedBytes = queuedTo - mRequests[1].pos /\ mQueuedBytes <= Capacity
          BY <3>3
        <5>4. mRequests'[1].pos = mRequests[1].pos + mRequests[1].len
          BY <4>2, <5>3
        <5> QED BY ONLY <5>1, <5>2, <5>3, <5>4
      <4>5. request' = mRequests[1] /\ queuedTo' = queuedTo /\ workerPc' # "failed"
        BY <3>1
      <4> QED BY <3>3, <3>4, <3>5, <4>1, <4>2, <4>3, <4>4, <4>5 DEF Blocks
    <3> QED BY <3>6, <3>7
  <2>2. CASE ~ (mRequests # <<>> /\ ~ mbStopping)
    BY <1>1, <1>9, <2>2 DEF Take, Unwritten, Ending
  <2> QED BY <2>1, <2>2
<1>10. CASE NotifySpace \/ PreemptivelyExtend \/ WriteBlock
  BY <1>1, <1>10 DEF NotifySpace, PreemptivelyExtend, WriteBlock, Unwritten, Ending
<1>11. CASE BlockDone
  <2>1. /\ UNCHANGED <<mRequests, mQueuedBytes, queuedTo>> /\ ~ Unwritten' /\ workerPc' # "failed"
    BY <1>11 DEF BlockDone, Unwritten
  <2> QED BY <2>1 DEF Blocks
<1>12. CASE (\E c \in Conditions : WakeForNothing(c)) \/ UNCHANGED vars
  BY <1>1, <1>12 DEF WakeForNothing, vars, Unwritten, Ending
<1> QED
  BY <1>3, <1>4, <1>5, <1>6, <1>7, <1>8, <1>9, <1>10, <1>11, <1>12
  DEF Next, InCall, WorkerMain

\* While nothing is held, queued or failed, the file is what was asked for.
LEMMA NothingMissing ==
    ASSUME TypeOK, Places, Errors, WrittenInOrder, isOpen, ~ Ending, ~ mWorkerError, AllWritten
    PROVE  file = content
<1>1. ~ Holding /\ mRequests = <<>>
  BY DEF AllWritten, Places, Holding
<1>2. WrittenTo = queuedTo /\ queuedTo \in Nat
  BY <1>1, FileAsyncAssumption DEF WrittenTo, TypeOK, ClientTypeOK
<1>3. \A p \in Positions : file[p] = content[p]
  <2> SUFFICES ASSUME NEW p \in Positions, file[p] # content[p] PROVE FALSE
    OBVIOUS
  <2>1. WrittenTo <= p /\ p < queuedTo
    BY DEF WrittenInOrder, Ending
  <2>2. p \in Nat
    BY FileAsyncAssumption DEF Positions
  <2> QED BY <1>2, <2>1, <2>2
<1>4. file \in [Positions -> Values] /\ content \in [Positions -> Values]
  BY DEF TypeOK, DiskTypeOK
<1> QED BY <1>3, <1>4

\* Calls that act on the file at once find it complete and leave it so.
LEMMA DirectCalls ==
    ASSUME TypeOK, Places, Errors, WrittenInOrder,
           \/ Open \/ SafeTruncate
           \/ \E r \in [pos : 0 .. MaxPos, len : 1 .. MaxPos, val : Values] : FastWriteDirect(r) \/ Write(r)
           \/ \E pos \in 0 .. MaxPos : Truncate(pos)
    PROVE  /\ AllWritten /\ ~ mWorkerError /\ ~ Ending /\ ~ Ending' /\ file' = content'
           /\ UNCHANGED <<mRequests, mbWorkerWriting, mWorkerError>>
           /\ workerPc' = workerPc \/ workerPc' \in {"none", "wait"}
<1>1. CASE Open
  BY <1>1 DEF Open, Places, Errors, Ending, AllWritten, shared
<1>2. CASE ~ Open
  <2>1. isOpen /\ ~ Ending /\ ~ Ending' /\ UNCHANGED <<mRequests, mbWorkerWriting, mWorkerError, workerPc>>
    BY <1>2 DEF FastWriteDirect, Write, Truncate, SafeTruncate, Throw, Return, Places, Ending, shared, worker, caller
  <2>2. ~ mWorkerError /\ AllWritten
    BY <1>2, <2>1 DEF FastWriteDirect, Write, Truncate, SafeTruncate, Places, Errors, Ending, AllWritten
  <2>3. file = content
    BY <2>1, <2>2, NothingMissing
  <2>4. file' = content'
    BY <1>2, <2>3 DEF FastWriteDirect, Write, Truncate, SafeTruncate, WriteHere, TruncateTo
  <2> QED BY <2>1, <2>2, <2>4
<1> QED BY <1>1, <1>2

\* A step is one of those, a FastWrite's, the worker's, or leaves the data alone.
LEMMA Quiet ==
    ASSUME [Next]_vars
    PROVE  \/ Open \/ SafeTruncate \/ Put \/ Take \/ WriteBlock \/ Fail \/ BlockDone
           \/ \E r \in [pos : 0 .. MaxPos, len : 1 .. MaxPos, val : Values] : FastWriteDirect(r) \/ Write(r)
           \/ \E pos \in 0 .. MaxPos : Truncate(pos)
           \/ StopWorker \/ FinishClose
           \/ /\ UNCHANGED <<isOpen, mRequests, queuedTo, request, file, content,
                             mWorkerError, mbWorkerWriting>>
              /\ Ending' = Ending
              /\ \/ workerPc' = workerPc
                 \/ workerPc = "taken" /\ workerPc' = "extend"
                 \/ workerPc = "extend" /\ workerPc' = "write"
<1> USE DEF position, shared, mode, caller, worker, disk, Ending
<1>1. CASE FastWriteEnd \/ Close \/ \E enabled \in BOOLEAN : SetPreemptiveExtend(enabled)
  BY <1>1 DEF FastWriteEnd, Close, SetPreemptiveExtend
<1>2. CASE \/ \E r \in [pos : 0 .. MaxPos, len : 1 .. MaxPos, val : Values] : FastWrite(r)
           \/ \E pos \in 0 .. MaxPos : Extend(pos) \/ SafeTruncateAndClose(pos)
  BY <1>2 DEF FastWrite, Extend, SafeTruncateAndClose
<1>3. CASE Notify \/ Drain \/ Sync \/ WakeAll
  BY <1>3 DEF Notify, Drain, Sync, WakeAll, Throw, Return
<1>4. CASE NotifySpace \/ PreemptivelyExtend
  BY <1>4 DEF NotifySpace, PreemptivelyExtend
<1>5. CASE (\E c \in Conditions : WakeForNothing(c)) \/ UNCHANGED vars
  BY <1>5 DEF WakeForNothing, vars
<1> QED BY <1>1, <1>2, <1>3, <1>4, <1>5 DEF Next, Calls, InCall, WorkerMain

\* The step case of Carried.
LEMMA CarriedStep ==
    TypeOK /\ Places /\ Errors /\ Blocks /\ Carried /\ Queued /\ WrittenInOrder /\ [Next]_vars
        => Carried'
<1> SUFFICES ASSUME TypeOK, Places, Errors, Blocks, Carried, Queued, WrittenInOrder, [Next]_vars
             PROVE  Carried'
  OBVIOUS
<1>0. /\ mRequests \in Seq(Regions) /\ Len(mRequests) \in Nat /\ request \in Regions
      /\ content \in [Positions -> Values] /\ queuedTo \in Nat
      /\ \A p \in Positions : p \in Nat
  BY FileAsyncAssumption DEF TypeOK, ClientTypeOK, WorkerTypeOK, SharedTypeOK, DiskTypeOK, Positions
<1>1. ASSUME mRequests' = <<>>, ~ Unwritten' PROVE Carried'
  BY <1>1 DEF Carried
<1>2. ASSUME UNCHANGED <<mRequests, content, request>>, Unwritten' => Unwritten PROVE Carried'
  BY <1>2 DEF Carried
<1>3. CASE \/ Open \/ SafeTruncate
           \/ \E r \in [pos : 0 .. MaxPos, len : 1 .. MaxPos, val : Values] : FastWriteDirect(r) \/ Write(r)
           \/ \E pos \in 0 .. MaxPos : Truncate(pos)
  <2>1. /\ AllWritten /\ mRequests' = mRequests
        /\ workerPc' = workerPc \/ workerPc' \in {"none", "wait"}
    BY <1>3, DirectCalls
  <2>2. mRequests' = <<>> /\ ~ Unwritten'
    BY <2>1 DEF AllWritten, Places, Unwritten
  <2> QED BY <1>1, <2>2
<1>4. CASE Put
  <2>1. CASE mWorkerError \/ ~ HasSpace
    BY <1>2, <1>4, <2>1 DEF Put, Return, Unwritten, worker
  <2>2. CASE ~ mWorkerError /\ HasSpace
    <3>1. /\ Block \in Regions /\ Block.pos = queuedTo
      BY <1>4, <2>2, BlockFacts DEF Put
    <3>2. /\ mRequests' = Append(mRequests, Block) /\ content' = Filled(content, Block)
          /\ UNCHANGED <<workerPc, request>>
      BY <1>4, <2>2, AskedFacts DEF Put, worker
    <3> HIDE DEF Block
    <3>3. \A p \in Positions :
            /\ Covers(Block, p) => content'[p] = Block.val
            /\ p < queuedTo => content'[p] = content[p]
      <4>1. \A p \in Positions : content'[p] = IF Covers(Block, p) THEN Block.val ELSE content[p]
        BY <1>0, <3>1, <3>2, FilledFacts
      <4>2. \A p \in Positions : p < queuedTo => ~ Covers(Block, p)
        BY <1>0, <3>1 DEF Covers
      <4> QED BY <4>1, <4>2
    <3>4. ASSUME NEW r \in Regions, End(r) <= queuedTo,
                 \A p \in Positions : Covers(r, p) => content[p] = r.val
          PROVE  \A p \in Positions : Covers(r, p) => content'[p] = r.val
      BY <1>0, <3>3, <3>4, EndFacts DEF Covers
    <3>5. mRequests \in Seq(Regions) /\ Block \in Regions /\ mRequests' = Append(mRequests, Block)
      BY <1>0, <3>1, <3>2
    <3>6. /\ Len(mRequests') = Len(mRequests) + 1
          /\ mRequests'[Len(mRequests) + 1] = Block
          /\ \A i \in 1 .. Len(mRequests) : mRequests'[i] = mRequests[i]
      BY ONLY <3>5
    <3>7. ASSUME NEW i \in 1 .. Len(mRequests')
          PROVE  \A p \in Positions : Covers(mRequests'[i], p) => content'[p] = mRequests'[i].val
      <4>1. CASE i = Len(mRequests) + 1
        BY <3>3, <3>6, <4>1
      <4>2. CASE i # Len(mRequests) + 1
        <5>1. i \in 1 .. Len(mRequests)
          BY <1>0, <3>6, <4>2
        <5>2. /\ mRequests[i] \in Regions /\ End(mRequests[i]) <= queuedTo
              /\ \A p \in Positions : Covers(mRequests[i], p) => content[p] = mRequests[i].val
          BY <1>0, <5>1 DEF Blocks, Carried
        <5> QED BY <3>4, <3>6, <5>1, <5>2
      <4> QED BY <4>1, <4>2
    <3>8. Unwritten => \A p \in Positions : Covers(request, p) => content'[p] = request.val
      BY <1>0, <3>4 DEF Blocks, Carried
    <3> QED BY <3>2, <3>7, <3>8 DEF Carried, Unwritten
  <2> QED BY <2>1, <2>2
<1>5. CASE Take
  <2>1. CASE mRequests # <<>> /\ ~ mbStopping
    <3>1. request' = mRequests[1] /\ mRequests' = Tail(mRequests) /\ content' = content
      BY <1>0, <1>5, <2>1 DEF Take, disk
    <3>2. /\ Len(mRequests') = Len(mRequests) - 1 /\ 1 \in 1 .. Len(mRequests)
          /\ \A i \in 1 .. Len(mRequests) - 1 : mRequests'[i] = mRequests[i + 1]
      BY <1>0, <2>1, <3>1
    <3>3. ASSUME NEW i \in 1 .. Len(mRequests')
          PROVE  \A p \in Positions : Covers(mRequests'[i], p) => content'[p] = mRequests'[i].val
      <4>1. i + 1 \in 1 .. Len(mRequests) /\ mRequests'[i] = mRequests[i + 1]
        BY <1>0, <3>2
      <4> QED BY <3>1, <4>1 DEF Carried
    <3> QED BY <3>1, <3>2, <3>3 DEF Carried
  <2>2. CASE ~ (mRequests # <<>> /\ ~ mbStopping)
    BY <1>2, <1>5, <2>2 DEF Take, Unwritten, disk, worker
  <2> QED BY <2>1, <2>2
<1>6. CASE WriteBlock
  BY <1>2, <1>6 DEF WriteBlock, Unwritten, shared
<1>7. CASE Fail \/ FinishClose
  BY <1>1, <1>7 DEF Fail, FinishClose, Unwritten
<1>8. CASE StopWorker
  <2>1. mRequests' = <<>> /\ UNCHANGED <<workerPc, request, content>>
    BY <1>8 DEF StopWorker, worker, disk
  <2> QED BY <2>1 DEF Carried, Unwritten
<1>9. CASE BlockDone
  <2>1. UNCHANGED <<mRequests, content>> /\ ~ Unwritten'
    BY <1>9 DEF BlockDone, Unwritten, disk
  <2> QED BY <2>1 DEF Carried
<1>10. CASE /\ UNCHANGED <<mRequests, content, request>>
            /\ \/ workerPc' = workerPc
               \/ workerPc = "taken" /\ workerPc' = "extend"
               \/ workerPc = "extend" /\ workerPc' = "write"
  BY <1>2, <1>10 DEF Unwritten
<1> QED BY <1>3, <1>4, <1>5, <1>6, <1>7, <1>8, <1>9, <1>10, Quiet

\* The step case of WrittenInOrder.
LEMMA WrittenStep ==
    TypeOK /\ Places /\ Errors /\ Blocks /\ Carried /\ Queued /\ WrittenInOrder /\ [Next]_vars
        => WrittenInOrder'
<1> SUFFICES ASSUME TypeOK, Places, Errors, Blocks, Carried, Queued, WrittenInOrder, [Next]_vars
             PROVE  WrittenInOrder'
  OBVIOUS
<1>0. /\ mRequests \in Seq(Regions) /\ Len(mRequests) \in Nat /\ request \in Regions
      /\ request.pos \in Nat /\ End(request) \in Nat /\ request.pos <= End(request)
      /\ content \in [Positions -> Values] /\ file \in [Positions -> Values]
      /\ queuedTo \in Nat /\ \A p \in Positions : p \in Nat
  BY FileAsyncAssumption, EndFacts
  DEF TypeOK, ClientTypeOK, WorkerTypeOK, SharedTypeOK, DiskTypeOK, Positions, End
<1>1. ASSUME file' = content' PROVE WrittenInOrder'
  BY <1>1 DEF WrittenInOrder
<1>2. ASSUME UNCHANGED <<isOpen, file, content, queuedTo>>, WrittenTo' = WrittenTo, Ending => Ending'
      PROVE  WrittenInOrder'
  BY <1>2 DEF WrittenInOrder, Ending
<1>3. CASE \/ Open \/ SafeTruncate
           \/ \E r \in [pos : 0 .. MaxPos, len : 1 .. MaxPos, val : Values] : FastWriteDirect(r) \/ Write(r)
           \/ \E pos \in 0 .. MaxPos : Truncate(pos)
  BY <1>1, <1>3, DirectCalls
<1>4. CASE Put
  <2>1. CASE mWorkerError \/ ~ HasSpace
    <3>1. /\ UNCHANGED <<isOpen, file, content, queuedTo, mRequests, request, workerPc, mWorkerError>>
          /\ ~ Ending
      BY <1>4, <2>1 DEF Put, Ending, worker
    <3> QED BY <1>2, <3>1 DEF WrittenTo, Holding
  <2>2. CASE ~ mWorkerError /\ HasSpace
    <3>1. /\ Block \in Regions /\ Block.pos = queuedTo /\ Block.len \in Nat
          /\ End(Block) = queuedTo + Block.len
      BY <1>4, <2>2, BlockFacts, EndFacts DEF Put
    <3>2. /\ mRequests' = Append(mRequests, Block) /\ content' = Filled(content, Block)
          /\ queuedTo' = End(Block) /\ isOpen /\ ~ Ending
          /\ UNCHANGED <<workerPc, request, file, mWorkerError>>
      BY <1>4, <2>2, AskedFacts DEF Put, worker, Ending, Places
    <3> HIDE DEF Block
    <3>3. mRequests' # <<>> /\ mRequests'[1] = IF mRequests = <<>> THEN Block ELSE mRequests[1]
      BY <1>0, <3>1, <3>2
    <3>4. Head(mRequests') = mRequests'[1] /\ (mRequests # <<>> => Head(mRequests) = mRequests[1])
      BY <1>0, <3>1, <3>2
    <3>5. WrittenTo' = WrittenTo
      BY <3>1, <3>2, <3>3, <3>4 DEF WrittenTo, Holding
    <3>6. WrittenTo \in Nat /\ WrittenTo <= queuedTo
      <4>1. CASE Holding
        <5>1. End(request) <= queuedTo
          BY <2>2, <4>1 DEF Holding, Blocks, Unwritten
        <5> QED BY <1>0, <4>1, <5>1 DEF WrittenTo
      <4>2. CASE ~ Holding /\ mRequests # <<>>
        <5>1. /\ 1 \in 1 .. Len(mRequests) /\ End(mRequests[1]) <= queuedTo
              /\ mRequests[1].pos \in Nat /\ mRequests[1].len \in Nat
              /\ End(mRequests[1]) = mRequests[1].pos + mRequests[1].len
          BY <1>0, <4>2, EndFacts DEF Blocks, End
        <5>2. mRequests[1].pos <= queuedTo
          BY <1>0, <5>1
        <5> QED BY <3>4, <4>2, <5>1, <5>2 DEF WrittenTo
      <4>3. CASE ~ Holding /\ mRequests = <<>>
        BY <1>0, <4>3 DEF WrittenTo
      <4> QED BY <4>1, <4>2, <4>3
    <3>7. ASSUME NEW p \in Positions, file'[p] # content'[p]
          PROVE  WrittenTo' <= p /\ p < queuedTo'
      <4>1. content'[p] = IF Covers(Block, p) THEN Block.val ELSE content[p]
        BY <1>0, <3>1, <3>2, FilledFacts
      <4>2. CASE Covers(Block, p)
        BY <1>0, <3>1, <3>2, <3>5, <3>6, <4>2 DEF Covers
      <4>3. CASE ~ Covers(Block, p)
        <5>1. WrittenTo <= p /\ p < queuedTo
          BY <3>2, <3>7, <4>1, <4>3 DEF WrittenInOrder, Ending
        <5> QED BY <1>0, <3>1, <3>2, <3>5, <5>1
      <4> QED BY <4>2, <4>3
    <3> QED BY <3>7 DEF WrittenInOrder
  <2> QED BY <2>1, <2>2
<1>5. CASE Take
  <2>1. /\ UNCHANGED <<isOpen, file, content, queuedTo, mWorkerError, pc>> /\ ~ mWorkerError
        /\ workerPc = "wait"
    BY <1>5 DEF Take, Errors, disk, position, caller
  <2>2. CASE mRequests # <<>> /\ ~ mbStopping
    <3>1. WrittenTo = Head(mRequests).pos
      BY <2>1, <2>2 DEF WrittenTo, Holding
    <3>2. workerPc' = "taken" /\ request' = Head(mRequests)
      BY <1>5, <2>2 DEF Take
    <3>3. WrittenTo' = Head(mRequests).pos
      BY <3>2 DEF WrittenTo, Holding
    <3> QED BY <1>2, <2>1, <3>1, <3>3 DEF Ending
  <2>3. CASE mbStopping
    <3>1. Ending
      BY <2>1, <2>3 DEF Errors
    <3> QED BY <2>1, <3>1 DEF WrittenInOrder, Ending
  <2>4. CASE mRequests = <<>> /\ ~ mbStopping
    BY <1>2, <1>5, <2>1, <2>4 DEF Take, worker, WrittenTo, Holding, Ending
  <2> QED BY <2>2, <2>3, <2>4
<1>6. CASE WriteBlock
  <2>0. /\ workerPc = "write" /\ Unwritten /\ Holding /\ ~ mWorkerError /\ WrittenTo = request.pos
        /\ UNCHANGED <<isOpen, pc, mRequests, request, content, queuedTo, mWorkerError>>
    BY <1>6 DEF WriteBlock, Unwritten, Holding, WrittenTo, Errors, shared, disk, position, caller
  <2>1. \A p \in Positions : Covers(request, p) => content[p] = request.val
    BY <2>0 DEF Carried
  <2> SUFFICES ASSUME isOpen', ~ Ending', NEW p \in Positions, file'[p] # content'[p]
               PROVE  WrittenTo' <= p /\ p < queuedTo'
    BY DEF WrittenInOrder, Ending
  <2>2. CASE workerPc' = "written" /\ file' = Filled(file, request)
    <3>1. file'[p] = IF Covers(request, p) THEN request.val ELSE file[p]
      BY <1>0, <2>2, FilledFacts
    <3>2. ~ Covers(request, p) /\ file[p] # content[p]
      BY <2>0, <2>1, <3>1
    <3>3. request.pos <= p /\ p < queuedTo
      BY <2>0, <3>2 DEF WrittenInOrder, Ending
    <3>4. End(request) <= p
      BY <1>0, <3>2, <3>3 DEF Covers
    <3>5. ~ Holding'
      BY <2>0, <2>2 DEF Holding
    <3>6. CASE mRequests = <<>>
      <4>1. End(request) = queuedTo
        BY <2>0, <3>6 DEF Blocks, Ending
      <4> QED BY <1>0, <3>3, <3>4, <4>1
    <3>7. CASE mRequests # <<>>
      <4>1. End(request) = mRequests[1].pos /\ Head(mRequests) = mRequests[1]
        BY <1>0, <2>0, <3>7 DEF Blocks, Ending
      <4>2. WrittenTo' = mRequests[1].pos
        BY <2>0, <3>5, <3>7, <4>1 DEF WrittenTo
      <4> QED BY <2>0, <3>3, <3>4, <4>1, <4>2
    <3> QED BY <3>6, <3>7
  <2>3. ASSUME NEW n \in 0 .. request.len - 1, workerPc' = "failed",
               file' = Filled(file, First(request, n))
        PROVE  WrittenTo' <= p /\ p < queuedTo'
    <3>1. n \in Nat /\ n < request.len /\ request.len \in Nat
      BY <1>0, EndFacts
    <3>2. First(request, n) \in Regions /\ First(request, n).pos = request.pos
          /\ First(request, n).len = n /\ First(request, n).val = request.val
      BY <1>0, <3>1, FirstFacts
    <3>3. file'[p] = IF Covers(First(request, n), p) THEN request.val ELSE file[p]
      BY <1>0, <2>3, <3>2, FilledFacts
    <3>4. Covers(First(request, n), p) => Covers(request, p)
      BY <1>0, <3>1, <3>2 DEF Covers, End
    <3>5. file[p] # content[p]
      BY <2>0, <2>1, <3>3, <3>4
    <3>6. request.pos <= p /\ p < queuedTo
      BY <2>0, <3>5 DEF WrittenInOrder, Ending
    <3>7. WrittenTo' = request.pos
      BY <2>0, <2>3 DEF WrittenTo, Holding
    <3> QED BY <2>0, <3>6, <3>7
  <2> QED BY <1>6, <2>2, <2>3 DEF WriteBlock
<1>7. CASE Fail
  <2>1. Holding /\ Holding' /\ request' = request
    BY <1>7 DEF Fail, Holding
  <2> QED BY <1>2, <1>7, <2>1 DEF Fail, WrittenTo, Ending, position, disk, caller
<1>8. CASE BlockDone
  <2>1. /\ ~ Holding /\ ~ Holding'
        /\ UNCHANGED <<isOpen, pc, mRequests, queuedTo, file, content>>
    BY <1>8 DEF BlockDone, Holding, Errors, position, disk, caller
  <2> QED BY <1>2, <2>1 DEF WrittenTo, Ending
<1>9. CASE StopWorker \/ FinishClose
  BY <1>9 DEF StopWorker, FinishClose, WrittenInOrder
<1>10. CASE /\ UNCHANGED <<isOpen, mRequests, queuedTo, request, file, content, mWorkerError>>
            /\ Ending' = Ending
            /\ \/ workerPc' = workerPc
               \/ workerPc = "taken" /\ workerPc' = "extend"
               \/ workerPc = "extend" /\ workerPc' = "write"
  <2>1. Holding' = Holding
    BY <1>10 DEF Holding
  <2>2. WrittenTo' = WrittenTo
    BY <1>10, <2>1 DEF WrittenTo
  <2> QED BY <1>2, <1>10, <2>2
<1> QED BY <1>3, <1>4, <1>5, <1>6, <1>7, <1>8, <1>9, <1>10, Quiet

\* The step case of Queued: only the client changes content, and in Put alone while
\* it is in FastWrite.
LEMMA QueuedStep == TypeOK /\ Places /\ Queued /\ [Next]_vars => Queued'
<1> SUFFICES ASSUME TypeOK, Places, Queued, [Next]_vars PROVE Queued'
  OBVIOUS
<1> USE DEF Queued, position, shared, mode, caller, worker, disk
<1>1. ASSUME NEW r \in [pos : 0 .. MaxPos, len : 1 .. MaxPos, val : Values], FastWrite(r)
      PROVE  Queued'
  <2>1. /\ call' = r /\ queuedTo' = queuedTo /\ mWorkerError' = mWorkerError
        /\ pc = "idle" /\ r.pos = mClientFastPointer
    BY <1>1 DEF FastWrite
  <2>2. ~ mWorkerError => queuedTo = r.pos
    BY <2>1 DEF Places
  <2>3. r.pos \in Nat /\ \A p \in Positions : p \in Nat
    BY InputFacts, EndFacts, FileAsyncAssumption DEF Positions
  <2> QED BY <2>1, <2>2, <2>3
<1>2. CASE Calls /\ ~ \E r \in [pos : 0 .. MaxPos, len : 1 .. MaxPos, val : Values] : FastWrite(r)
  <2>1. pc' \notin {"put", "notify"}
    BY <1>2 DEF Calls, Open, FastWriteEnd, Close, FastWriteDirect, Write, Truncate,
                Extend, SafeTruncateAndClose, SetPreemptiveExtend
  <2> QED BY <2>1
<1>3. CASE Put
  <2>1. CASE mWorkerError \/ ~ HasSpace
    BY <1>3, <2>1 DEF Put, Return
  <2>2. CASE ~ mWorkerError /\ HasSpace
    <3>1. /\ content' = Filled(content, Asked) /\ queuedTo' = End(Block) /\ call' = call
      BY <1>3, <2>2 DEF Put
    <3>2. /\ call \in Regions /\ call.pos \in Nat /\ content \in [Positions -> Values]
          /\ call.pos <= queuedTo /\ queuedTo \in Nat
      BY <1>3, <2>2, FileAsyncAssumption, EndFacts DEF Put, TypeOK, ClientTypeOK, DiskTypeOK, Places
    <3>3. End(Block) \in Nat /\ queuedTo <= End(Block)
      BY <1>3, <2>2, <3>2, BlockFacts, EndFacts DEF Put
    <3> HIDE DEF Block
    <3>4. /\ Asked \in Regions /\ Asked.val = call.val
          /\ Asked.pos = call.pos /\ End(Asked) = End(Block)
      <4>1. End(Block) - call.pos \in Nat
        BY <3>2, <3>3
      <4>2. Asked \in Regions /\ Asked.val = call.val /\ Asked.pos = call.pos
            /\ Asked.len = End(Block) - call.pos
        BY <3>2, <4>1, FirstFacts DEF Asked
      <4>3. End(Asked) = Asked.pos + Asked.len
        BY DEF End
      <4> QED BY <3>2, <3>3, <4>2, <4>3
    <3> HIDE DEF Asked
    <3> QED BY <3>1, <3>2, <3>4, FilledFacts DEF Covers
  <2> QED BY <2>1, <2>2
<1>4. CASE Notify
  BY <1>4 DEF Notify, Return
<1>5. CASE Drain \/ Sync \/ SafeTruncate \/ StopWorker \/ WakeAll \/ FinishClose
  <2>1. pc' \notin {"put", "notify"}
    BY <1>5 DEF Drain, Sync, SafeTruncate, StopWorker, WakeAll, FinishClose, Throw, Return
  <2> QED BY <2>1
<1>6. CASE WorkerMain
  <2>1. UNCHANGED <<pc, call, queuedTo, content>> /\ (mWorkerError => mWorkerError')
    BY <1>6 DEF WorkerMain, Take, NotifySpace, PreemptivelyExtend, WriteBlock, Fail, BlockDone
  <2> QED BY <2>1
<1>7. CASE (\E c \in Conditions : WakeForNothing(c)) \/ UNCHANGED vars
  BY <1>7 DEF WakeForNothing, vars
<1> QED BY <1>1, <1>2, <1>3, <1>4, <1>5, <1>6, <1>7 DEF Next, Calls, InCall

\* The step case of SafeEnd.
LEMMA SafeEndStep ==
    TypeOK /\ Places /\ Errors /\ WrittenInOrder /\ SafeEnd /\ [Next]_vars => SafeEnd'
<1> SUFFICES ASSUME TypeOK, Places, Errors, WrittenInOrder, SafeEnd, [Next]_vars PROVE SafeEnd'
  OBVIOUS
<1> USE DEF SafeEnd, AllWritten, position, shared, mode, caller, worker, disk
<1>1. CASE Open
  BY <1>1 DEF Open
<1>2. CASE Calls /\ ~ Open /\ isOpen
  <2>1. pc = "idle" /\ isOpen' = isOpen /\ ~ safe
    BY <1>2 DEF Calls, FastWriteEnd, Close, FastWriteDirect, FastWrite, Write, Truncate,
                Extend, SafeTruncateAndClose, SetPreemptiveExtend
  <2>2. ~ safe' \/ pc' \in {"drain", "sync"}
    BY <1>2, <2>1 DEF Calls, FastWriteEnd, Close, FastWriteDirect, FastWrite, Write, Truncate,
                Extend, SafeTruncateAndClose, SetPreemptiveExtend
  <2> QED BY <1>2, <2>1, <2>2
<1>3. CASE Calls /\ ~ Open /\ ~ isOpen
  BY <1>3 DEF Calls, FastWriteEnd, Close, FastWriteDirect, FastWrite, Write, Truncate,
              Extend, SafeTruncateAndClose, SetPreemptiveExtend
<1>4. CASE Put \/ Notify
  BY <1>4 DEF Put, Notify, Return, Places
<1>5. CASE Drain \/ Sync
  BY <1>5 DEF Drain, Sync, Throw, Return, Places
<1>6. CASE SafeTruncate
  <2>1. isOpen /\ ~ Ending /\ ~ mWorkerError /\ AllWritten
    BY <1>6 DEF SafeTruncate, Places, Errors, Ending
  <2>2. file = content
    BY <2>1, NothingMissing
  <2> QED BY <1>6, <2>1, <2>2 DEF SafeTruncate, TruncateTo, Throw, Return
<1>7. CASE StopWorker \/ WakeAll
  BY <1>7 DEF StopWorker, WakeAll
<1>8. CASE FinishClose
  BY <1>8 DEF FinishClose, Places
<1>9. CASE Take
  BY <1>9 DEF Take
<1>10. CASE NotifySpace \/ PreemptivelyExtend \/ WriteBlock \/ Fail \/ BlockDone
  <2>1. /\ mbWorkerWriting /\ isOpen /\ UNCHANGED <<isOpen, pc, safe>>
    BY <1>10 DEF NotifySpace, PreemptivelyExtend, WriteBlock, Fail, BlockDone, Places
  <2> QED BY <2>1
<1>11. CASE (\E c \in Conditions : WakeForNothing(c)) \/ UNCHANGED vars
  BY <1>11 DEF WakeForNothing, vars
<1> QED
  BY <1>1, <1>2, <1>3, <1>4, <1>5, <1>6, <1>7, <1>8, <1>9, <1>10, <1>11
  DEF Next, InCall, WorkerMain

-----------------------------------------------------------------------------
LEMMA InvInit == Init => IInv
<1> SUFFICES ASSUME Init PROVE IInv
  OBVIOUS
<1> USE FileAsyncAssumption DEF Init
<1>0. call \in Regions /\ request \in Regions
  BY NoRegionFacts
<1>1. ClientTypeOK /\ WorkerTypeOK
  <2>1. mClientFastPointer \in 0 .. MaxPos /\ queuedTo \in 0 .. MaxPos
    OBVIOUS
  <2>2. drained \in BOOLEAN /\ safe \in BOOLEAN /\ asleep \in SUBSET Conditions
    OBVIOUS
  <2> QED BY <1>0, <2>1, <2>2 DEF ClientTypeOK, WorkerTypeOK
<1>2. SharedTypeOK
  <2>1. mRequests = <<>> /\ mQueuedBytes = 0
    OBVIOUS
  <2>2. mRequests \in Seq(Regions)
    BY <2>1
  <2>3. /\ isOpen \in BOOLEAN /\ mbWorkerWriting \in BOOLEAN
        /\ mbStopping \in BOOLEAN /\ mWorkerError \in BOOLEAN
    OBVIOUS
  <2> QED BY <2>1, <2>2, <2>3 DEF SharedTypeOK
<1>3. DiskTypeOK
  BY DEF DiskTypeOK
<1>4. Places /\ Errors
  BY DEF Places, Errors, Ending
<1>5. Blocks /\ Carried /\ Queued
  BY DEF Blocks, Carried, Queued, Unwritten
<1>6. WrittenInOrder /\ SafeEnd
  BY DEF WrittenInOrder, SafeEnd
<1> QED BY <1>1, <1>2, <1>3, <1>4, <1>5, <1>6 DEF IInv, TypeOK

\* IInv holds in every reachable state: each part by its lemma.
THEOREM Invariance == Spec => []IInv
<1>1. IInv /\ [Next]_vars => IInv'
  <2> SUFFICES ASSUME IInv, [Next]_vars PROVE IInv'
    OBVIOUS
  <2>1. TypeOK'
    BY ClientTypeStep, WorkerTypeStep, SharedTypeStep, DiskTypeStep DEF IInv, TypeOK
  <2>2. Places' /\ Errors' /\ Carried' /\ Queued' /\ WrittenInOrder' /\ SafeEnd'
    BY PlacesStep, ErrorsStep, CarriedStep, QueuedStep, WrittenStep, SafeEndStep DEF IInv
  <2>3. Blocks'
    BY <2>1, BlocksStep DEF IInv
  <2> QED BY <2>1, <2>2, <2>3 DEF IInv
<1> QED BY InvInit, <1>1, PTL DEF Spec

\* Every variable of the writer keeps its type, for all files, blocks and buffers.
THEOREM TypeCorrectness == Spec => []TypeOK
<1>1. IInv => TypeOK
  BY DEF IInv
<1> QED BY Invariance, <1>1, PTL

\* Blocks reach the file in the order of the calls, none left out, whatever fails.
THEOREM OrderSafety == Spec => []WrittenInOrder
<1>1. IInv => WrittenInOrder
  BY DEF IInv
<1> QED BY Invariance, <1>1, PTL

\* The buffer is never over its capacity and mQueuedBytes tells what is in it.
THEOREM CapacitySafety == Spec => []QueueWithinCapacity
<1>1. IInv => QueueWithinCapacity
  <2> SUFFICES ASSUME IInv PROVE QueueWithinCapacity
    OBVIOUS
  <2>1. mRequests \in Seq(Regions)
    BY DEF IInv, TypeOK, SharedTypeOK
  <2>2. mRequests # <<>> => Head(mRequests) = mRequests[1]
    BY <2>1
  <2> QED BY <2>2 DEF IInv, Blocks, QueueWithinCapacity
<1> QED BY Invariance, <1>1, PTL

\* What FastWriteEnd and SafeTruncateAndClose promise when they return without an
\* error, for every interleaving of client and worker and every failure of a write.
THEOREM CompletionSafety == Spec => []FileIsComplete
<1>1. IInv => FileIsComplete
  <2> SUFFICES ASSUME IInv PROVE FileIsComplete
    OBVIOUS
  <2>1. ASSUME isOpen, drained, ~ Ending PROVE file = content
    <3>1. ~ mWorkerError /\ AllWritten
      BY <2>1 DEF IInv, Errors
    <3> QED BY <2>1, <3>1, NothingMissing DEF IInv
  <2>2. ASSUME ~ isOpen, safe PROVE file = content /\ size = call.pos
    BY <2>2 DEF IInv, SafeEnd
  <2> QED BY <2>1, <2>2 DEF FileIsComplete, Ending
<1> QED BY Invariance, <1>1, PTL
=============================================================================
