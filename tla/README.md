# TLA+ models of the Altirra core (maltirra)

maltirra is the macOS port of Altirra, an emulator of the Atari 8-bit computers.
This directory holds TLA+ models of the parts of it where order matters: who calls
whom when, on which thread, and what happens when a callback changes the very
structure that is calling it. TLC checks them on small instances, TLAPS proves the
most important facts for every value of the constants. `PROJECT.json` maps each
definition to the lines it was translated from.

Paths below are relative to `src/src/` of the repository.

## 1. The system

The emulated machine runs on one thread, the *emulation thread* (also the main
thread). It is a set of chips and devices, each a client of one of a few services;
the services are what the models are about.

| Component | Source | State | Operations | What is hard | What makes it correct |
|---|---|---|---|---|---|
| Scheduler | `ATCore/source/scheduler.cpp`, `h/at/atcore/scheduler.h` | list of events by due time, a pool of event nodes, a wrapping clock kept as the pair `mTimeBase` + `mNextEventCounter`, a stop time | AddEvent, RemoveEvent, SetEvent, UnsetEvent, ProcessNextEvent, SetStopTime, ClearStopTime, the ADVANCE macros, GetTick64 | wrap-around; re-arming the pair from every operation, also from inside callbacks; recycled nodes | no event missed or early; equal times first come first served; time moved by the loop alone; a pointer never reaches another client's event |
| Notify list | `h/at/atcore/notifylist.h`, `ATCore/source/notifylist.cpp` | vector of listeners, chain of iterators of the passes under way | Add, AddUnique, Remove, Clear, Notify*, NotifyAndClear | listeners add, remove and start passes while they are being called | a pass delivers what it began with, less what was removed, once and in order |
| Deferred events | `h/at/atcore/deferredevent.h`, `ATCore/source/deferredevent.cpp` | a NotifyAndClear list of events, one flag per event | Init, NotifyDeferred, Flush, Shutdown, destructor, FlushPendingEvents | requests, withdrawals and destruction during the flush | flag and queue agree; only live events are called; every request is answered |
| Simulator event manager | `Altirra/source/simeventmanager.cpp` | vector of global callbacks; table of nodes threaded into a list per event and a free list; passes under way | Add/RemoveCallback, Add/RemoveEventCallback, NotifyEvent | re-entrance, recycled nodes, a generation byte that wraps | lists stay sound, ids stay with their owners, passes are not led astray |
| Async dispatcher | `ATCore/source/asyncdispatcherimpl.cpp`, wake-up in `platform/Windows_x64/Altirra/source/simulator.cpp` | queue of callbacks under a mutex, token of its head; wake-up flag outside the mutex | Queue, Cancel, RunCallbacks, OnWake | worker threads; unlocked flag; moving tokens | no request stranded; a token cancels its own request only |
| Timer service | `platform/macOS_arm64/ATCore/source/timerserviceimpl_macos.cpp` (and a Windows variant) | slots with deadlines, a binary heap over them, one system timer | Request, Cancel, RunCallbacks, the timer's callback, the destructor | three threads; removal from the middle of a heap; destruction while the timer fires | called at or after its time, armed for the first; nothing calls a dead object |
| Emulated TCP/IP | `ATNetwork/source/tcpstack.cpp`, `ipstack.cpp`, `udpstack.cpp`, `ethernetbus.cpp` | connections with their send and receive rings, frames queued on a clock | connect, listen, send, receive, close, retransmission, frames | lost and late segments, closing in every state | streams arrive whole and in order, connections end |
| Native sockets | `platform/macOS_arm64/ATNetworkSockets/source/` | sockets shared by a worker thread and the emulation thread | connect, send, receive, close, poll | hand-over between threads | events are not lost, nothing is used after it is closed |
| Async file writer | `platform/macOS_arm64/system/source/fileasync.cpp` | ring buffer, worker thread, error state | FastWrite, FastWriteEnd, Close, the worker's loop | full ring; an error while the producer waits | everything is written or the error reported; nobody waits for ever |
| SIO manager | `platform/Windows_x64/Altirra/source/siomanager.cpp` | queue of steps of a serial transfer, scheduler events | command, send, receive, delay, abort | abort and reset in every state | a transfer ends; none survives a reset |
| IRQ controller | `Altirra/source/irqcontroller.cpp` | mask of interrupt sources | Allocate, Assert, Negate | - | line equals the OR of its sources |
| Audio output | `ATAudio/source/audiooutput.cpp`, `h/at/ataudio/internal/audioringbuffer.h` | mixing buffers, a ring to the audio thread | write, drain, reset | emulation and audio thread share the ring | samples leave in order |
| CPU cores, ANTIC, GTIA, POKEY | `ATCPU`, `Altirra/source` | registers and pipelines | one cycle at a time | cycle-exact data | - |
| Images, formats, compiler and debugger, UI | `ATIO`, `ATDebugger`, `ATVM`, `ATUI`, `VDDisplay`, `system` | files, tables, widgets | conversions and lookups | - | - |

How they interact: every chip and device sets events of the **scheduler**, whose
callbacks run on the emulation thread inside `ProcessNextEvent`. Coprocessors have
schedulers of their own that the main one drives to a *stop time*. At the end of a
scanline `ATSimulator::AnticEndScanline` runs the callbacks of the **async
dispatcher**, at the end of a frame it flushes the **deferred events**, which are a
**notify list** cleared while it is notified. Worker threads reach the emulation
thread only through the async dispatcher; the **timer service** uses it to bring
its callbacks there. The **simulator event manager** tells user interface and
debugger what happened, and they may call back into it from there.

`PROJECT.json` lists under "hazards" what of this is hard to test, line by line, and
which property covers it or why none does yet.

## 2. The modules

| Module | What it is |
|---|---|
| `Scheduler` | ATScheduler, its clients, and the loops that drive it |
| `TimerWheel` | abstract: for each number of ticks ahead, the queue of clients due then |
| `Packing` | lists with gaps, for the refinement mappings |
| `SchedulerProofs` | theorems about `Scheduler` |
| `NotifyListOps` | ATNotifyList as operators on a record, both kinds of pass |
| `NotifyList` | one list with arbitrary nested use (Notify) |
| `NotifyListProofs` | theorems about `NotifyList` |
| `DeferredEvents` | the deferred events, on `NotifyListOps` (NotifyAndClear) |
| `DeferredEventsProofs` | theorems about `DeferredEvents` |
| `DeferredQueue` | abstract: a queue of requests, at most one per event |
| `SimEventManager` | ATSimulatorEventManager |
| `SimEventManagerProofs` | theorems about `SimEventManager` |
| `AsyncDispatcher` | ATAsyncDispatcher with its callers, and ATSimulator's wake-up |
| `CancelableQueue` | abstract: a queue in which a client replaces or withdraws its request |
| `AsyncDispatcherProofs` | theorems about `AsyncDispatcher` |
| `DeadlineHeap` | the heap of ATTimerService as pure operators |
| `TimerService` | ATTimerService (macOS), on `DeadlineHeap` |
| `TimerServiceProofs` | theorems about `TimerService` |
| `FileAsync` | the write-behind file VDFileAsyncMac and its worker thread |
| `FileAsyncProofs` | theorems about `FileAsync` |
| `TcpConnection` | a connection of the emulated TCP stack, its application and the guest's TCP |
| `TcpConnectionProofs` | theorems about `TcpConnection`: its events, its streams, its sizes |
| `MC*` | instances for TLC; `MCDeadlineHeap` has no behaviours, it is an ASSUME over all small heaps |

An operator commented "Bug:" or "mutant:" is a faulty variant of the definition it precedes. No
specification uses it; it shows that a property can tell the difference.

### Scheduler

`nextEventCounter` and `timeBase` are the code's pair, of width `W`; the present
time is derived, `GetTick`, as in the code. `activeEvents` is the linked list,
front first; `freeEvents` is the LIFO chain of free nodes; `owner` and `nextTime`
are fields of nodes; `ptr[c]` is the `ATEvent *` that client `c` keeps. One
scheduler has one kind of `loop`: ATSCHEDULER_ADVANCE (the main loop),
ADVANCE_STOPCHECK with TRYSKIP (6502 coprocessors) or ADVANCE_N (Z80).

`ProcessNextEvent` is split at its callbacks: `Fire` unlinks and frees the front
event and enters the callback (`phase = "callback"`), clients then call what they
like, `CallbackReturns` goes back to the loop, `FinishProcessing` re-arms the
clock. AddEvent, SetEvent and UnsetEvent are single steps, with the re-arming at
their end. RemoveEvent's call of ProcessNextEvent fires nothing, because the
removed front was not due and no other event is nearer (`Sorted`, a half of
`QueueOnTime`); so it appears as the re-arming alone.

Taken from the contracts of the code: clients null their pointer in the callback
and pass only pointers of their own (`IATSchedulerCallback`); delays are below half
of the counter's range (AddEvent asserts far less); a coprocessor is given stop
times ahead of its clock.

`GetTick64` (and UpdateTick64, which stores its result) is an operator on times that
are pairs of 32-bit words; `Tick64Exact` says for how long it is exact. The floor is no
variable of the specification, as nothing else depends on it.

### NotifyListOps, NotifyList, DeferredEvents

A list is the record `items`, `firstValid`, `passes` (the iterators, innermost
first, each with the code's `index` and `length`) and `asserts`, which is FALSE once
a VDASSERT failed. Entries carry a tag so that equal listeners are told apart; a
pass carries `todo`, what it still owes, for the properties only.

`NotifyList` lets callbacks do anything, with one exception that `AnyRemoval`
lifts: see the first finding below. In `DeferredEvents` an event is `new`, then
`attached`, then `shutdown` or `destroyed`. `Shutdown` leaves a queued entry behind;
its one caller is the destruction of the simulator, after which no frame ends
(`teardown`).

Callbacks of NotifyAndClear are taken to return. When one throws (notifylist.h:266-270) the code
unlinks its iterator and neither erases [0, `mFirstValid`) nor resets `mFirstValid`, so that the
next NotifyAndClear starts at index 0 and calls the entries there once more, those of events that
were destroyed in between included. `QueueMatchesPending`, `CallsLiveEvents` and `InOrder`, and
their theorems, hold for listeners that return. In `NotifyList` an exception does the same as
an interruption, and is `CallbackInterrupts`.

### SimEventManager

Nodes are positions in `mEventCallbackTable`, 0 being the null link. `passes` are the
nested calls of NotifyEvent, with `globalIdx`/`globalSize` and the next node,
`eventIdx`; `globalTodo` and `eventTodo` are for the properties. An id is the record
of generation, event and index that the code packs into 32 bits; the generation
wraps at `Generations`. `RemoveBehind` lifts a restriction: second finding.

### AsyncDispatcher

`Queue` and `Cancel` are critical sections. What follows in `Queue`, the wake-up
callback of ATSimulator, is not protected by the lock and is three steps per thread:
`CheckWakePending`, `SetWakePending`, `PostWake`. Tokens are odd numbers, the
position of a request being `(token - mHeadToken) / 2` in the queue. Cancelled
requests stay in it as `Null`. The message to the main window is external and is
one flag.

The accesses of several threads to `mAsyncWakePending` are modelled as single reads
and writes in any order.

### DeadlineHeap, TimerService

`DeadlineHeap` gives insertion and removal as the loops of the code: a vacancy goes up or
down the heap, one entry moving into it in each turn, until what is placed fits. In `TimerService`, `Request`, `Cancel` and one turn of the loop of
`RunCallbacks` hold the mutex and are single steps (the clock is read in the same
step); `LeaveLoop` and `RearmAfterRun` are apart, as the mutex is released between
them. `TimerFires` and `QueueRun` are the system timer on its own queue;
`Detach`, `StopTimer` and `CancelRun` are the destructor. The dispatcher is one flag,
`runQueued`, since all runs use one token. `armedFor` and `raced` are history.

### FileAsync

The client's thread and the worker share the queue under a mutex; each action is what
one of them does in one hold of it. `asleep` is the set of condition variables on
which one of them sleeps, and `WakeForNothing` is what POSIX allows. A block is a
region of the file and the one value that fills it. `FastWrite` cuts its region into
blocks at `queuedTo` (`Put`, `Notify`); FastWriteEnd and SafeTruncateAndClose are the steps
`Drain`, `Sync`, `SafeTruncate`; Close is `StopWorker`, `WakeAll`, `FinishClose`. The worker
is `Take`, `NotifySpace`, `PreemptivelyExtend`, `WriteBlock`, then `BlockDone` or `Fail`. A
write, a sync and a truncation may fail, a write after any part of it; an exception is
`Throw`. `content` is history: what the file would hold had all been written that the calls have asked
for so far. In FastWrite it grows by the call's own region, from its beginning to the end of
the block that is queued (`Asked`), and not by the blocks.

Some guards are not the code's but the discipline of its callers. Write, Truncate and Extend
bypass the queue; that they follow a FastWriteEnd is how `FileEndFastPath` of the AVI writers calls
them, and is a guard (`drained`). Extend is a plain ftruncate without any guard
(fileasync.cpp:212-221); on a file with blocks queued it would cut off what the worker has written. Its
caller (aviwriter.cpp:1043) extends ahead of what it is about to queue, and only while the worker does
not, which are the guards of the second half of `Extend`. SetPreemptiveExtend may be called at any
time. The worker reads that flag and extends the file in one step.

FastWrite has an exit that `Put` leaves out: its wait ends on `mbStopping` too, and then it throws
ECANCELED (177, 181-182). `mbStopping` is set by Close, which is called by the thread that would be
in FastWrite, and by a failing worker together with `mWorkerError`, which is thrown first.

### TcpConnection

The connection is one record `c`, and a method of the code an operator from record to
record: `TransmitStatus`, `Schedule` (TryTransmitMore), `Transmit`, `ResetConnection`,
`ShutdownSocket`, `CloseSocket`, and OnPacket as the chain `Window`, `Acknowledge`
(`UpdateTimers`, `UpdateRing`, `FinAcked`), `Accept`, `Reply` in the order of the code. `written`
is every byte ever put into mXmitRing, so that `base` and the level give the ring.
What Transmit sends is read from the ring, not from that history: `RingRead` has the buffer's size
and read pointer (`ReadPtr`), so that a read before the base finds what is there, the byte that
was acknowledged, the one since written over it (`ByteAt`), or none of the buffer's (`Outside`, a value
no side sends);
`timers` are the packet timers, `events` the clock events pending, which may fire at any time
once set. `listed` is the entry in mConnections, `held` the application's reference.

The guest is external: any TCP that acknowledges only what it has. It sends data again,
shrinks its window, loses and repeats its acknowledgements, resets. Frames to it may be
lost, those from it may be late against everything the stack does meanwhile.

`Shutdown` is the public call with either of its arguments, in any state: the receiving half sets a
connection with unread data back to TIME_WAIT even after it was closed, as the code does.
Calls that do nothing, on a half that is shut already or a `Close` in TIME_WAIT or CLOSED, are
left out.

Left out: the calls of the socket handler inside OnPacket (OnSocketWriteReady, OnSocketClose and
OnSocketReadReady at 702, 774 and 783; the application acts between
two steps instead), MSS options, checksums, ports, the wrap of sequence numbers, and the
layers below.

## 3. The runs

| Run | Instance | What it shows |
|---|---|---|
| `scheduler` | 3 clients, 3 nodes, W = 8, delays 1..2, idle limit 2, stop times up to 2 ahead, all loops | types; pointers stay with their events; order; nothing missed; the counter's end; stop times; who moves time; dispatch ends; every behaviour is one of `TimerWheel` |
| `notify_list` | 2 listeners, 4 entries, passes nested twice | passes see their entries and end |
| `notify_list_any` | any removal | first finding |
| `deferred_events` | 3 events | flag and queue, live events, answers, order |
| `sim_events` | 2 global callbacks, 3 holders of ids, 2 events, 2 generations, nesting 2 | table, ids, passes |
| `sim_events_any` | any removal | second finding |
| `async_dispatcher` | 2 workers, 2 clients on the main thread, one without token, 4 requests | tokens, wake-up, every request runs, the abstract queue |
| `timer_service` | a worker and a client of the emulation thread, 3 requests, time 0..6 with 2 ticks to a unit; every heap of up to 7 entries with 4 deadlines | tokens, timer armed, destruction, every request called; one insertion or removal keeps the heap |
| `timer_service_in_time` | the same | third finding |
| `file_async` | a file of up to 4 bytes of 2 values, blocks of 2 bytes, a buffer of one block | blocks in order, a drained or safely closed file complete, the buffer within its capacity, every call returns |
| `tcp_connection` | 2 bytes in all, rings of 2 and 1 bytes, segments of 1 byte, 2 retransmissions, windows 1 and 4, one frame under way each way | both streams intact but for reads outside the ring, clock events agree with the state, each half shut alone or with the other |
| `tcp_hole` | windows 0 and 4 | fourth finding |

Bounds. The scheduler's clock starts two ticks before its end and wraps in a few
steps; half the range is two ticks above the longest delay and the longest wait, so that
every comparison across the wrap occurs. Three events are enough for
an event to be inserted between two others and to be removed from either side
while a third recycles its node. Two nested passes and two generations are the
fewest at which passes interfere and an id recurs. Four requests let a queue fill,
drain and fill again with a cancelled entry in it while a wake-up is half sent. A
heap of seven entries has three full levels, so that a hole can be filled from
another subtree and the filler has to rise. A buffer of one block is full after one
block and empty after another, so that client and worker sleep on each of the condition
variables in turn; a write of three or four bytes is cut, its last block short. In the
TCP instance a ring of two bytes is full with a byte and a FIN, so that a FIN has to wait for space;
a segment of one byte makes a byte and a FIN two packet timers; a window of 1 is
full while one of them is unacknowledged, a window of 4 never is. The passing properties hold
as well with windows 0 and 4, and with 0, 1 and 4 and one byte. The timer's clock stops at `MaxTime`,
which stands for any later time; two ticks to a unit make the rounding of deadlines
visible.

Counters bounded by guards: requests (`MaxRequests`), entries (`Tags`), nesting
(`MaxDepth`), time (`MaxTime`, `LastRequest`). Symmetry is not used, as most runs check
liveness or refinement.

CHECK_DEADLOCK is off where the system may really stop: `deferred_events` (all events
destroyed), `timer_service` (destroyed), `tcp_connection` and `tcp_hole` (a SYN that is
lost is never sent again, and a connection that is closed stays so).

Fairness. Loops of straight-line code go on and callbacks return: weak fairness of
these steps, per thread. Strong fairness is assumed of three steps: of `OnWake`, as
the message loop takes each message but not in the middle of a run; of the
dispatcher's `CallbackReturns`, as a callback makes only finitely many calls in
between; and of `BeginFlushPending`, as frames keep ending whatever is done between
two ends. Nothing is assumed of `EndScanline`: with the emulation paused the wake-up
alone has to do. In the scheduler nothing is assumed of loops and clients. In `FileAsync`
each thread goes on while it can (weak fairness of `InCall` and of `WorkerMain`); that a
sleeper wakes for nothing is never relied on. `TcpConnection` states no fairness: with
every frame free to be lost it promises no progress but its timers', which are in
`EventsMatchState`.

### Findings

1. *NotifyList, removal of a new entry.* `AdjustIteratorsForRemove` takes one off the
   length of every pass, also when the removed entry was added after the pass began
   and lies beyond its length. The pass then ends an entry early; twice, and the
   length is 0 at its VDASSERT and wraps. Clients in the code remove listeners
   they had before.
2. *SimEventManager, removal behind the index.* `RemoveCallback` lowers `mGlobalSize`,
   but not `mGlobalIdx`: a callback that removes itself makes the pass skip the next.
3. *TimerService, late re-arming.* `RunCallbacks` arms the timer for a deadline it read
   before it released the mutex. A worker's earlier request in between is then armed
   over, and called as late as the other. `ArmedForFront` holds with this excused
   and is what remains: the timer is armed in any case.

4. *TcpConnection, a window taken back.* `UpdateTimers` cuts the end of a packet timer off
   at the window before it compares it with the ACK (tcpstack.cpp:655). An ACK that closes
   the window, the answer to a probe for one, so removes the timer of bytes that were sent and are
   not acknowledged. Once more has been sent the retransmission goes back to the first timer
   left, behind those bytes, not to the "highest found ACK" of the comment at 1084.
   The guest never gets them, and the connection is reset in the end; `StreamsIntact` holds.

Seen in TCP while modelling it, without a run of their own:

- The header (tcpstack.h:62-66) has FIN_WAIT_1 go to CLOSING on a FIN; OnPacket (763-771)
  acts on a FIN in ESTABLISHED and FIN_WAIT_2 only. A FIN that arrives in
  FIN_WAIT_1 is noted and acknowledged, but the connection then waits in FIN_WAIT_2 for
  one it already has; CLOSING is never reached.
- TryTransmitMore tests the pending window probe the wrong way round (823-829): it
  overwrites the number of a probe still in the clock. The model keeps it as `stray`; it
  can fire after the object is gone, where the model ends it. `EventsMatchState` says that no event is
  left that the connection knows of; the forgotten one is the exception.
- An ACK of the first transmission that comes after a retransmission has gone back moves the base
  of the ring beyond `mXmitNext`, against the VDASSERT at 986. The next Transmit reads the ring
  at `mXmitNext` less the base (956), an offset that wraps: the VDASSERT of
  ATNetTcpRingBuffer::Read (72) fails. As long as the read pointer is larger than the distance the bytes
  found are those acknowledged or written over them, which the guest takes for a repetition and drops; once it
  has gone round the ring and is smaller, the read is outside of the buffer and the
  guest may be sent bytes from there. `AsSent` in `StreamsIntact` says which bytes of the stream
  can be wrong by this: only those from the size of the ring on. `MCTcpConnectionRing.cfg`, which is
  not among the runs, has TLC find such a frame (`ReadsStayInRing`).
- ShutdownSocket closes the receiving half in any state (1181-1187): on a connection in TIME_WAIT or
  CLOSED that the application holds with unread data it calls ResetConnection, against the VDASSERT at
  1318. A closed one is in TIME_WAIT again, sends an RST, and when its Close event fires it is not in
  the table, which is the assertion in DeleteConnection (402). CloseSocket returns
  early in these states, so that only the direct call does this. Data that arrives in
  TIME_WAIT once receiving is shut resets the connection again too.
- A SYN or SYN+ACK is never sent again. CloseSocket answers an RST with an RST, which the
  two flags set "so we don't send a RST in response to a RST" (569-570) do not prevent.
- A connection the application still holds after the stack has dropped it keeps its
  pointer to the stack and goes on sending (`Call` in state CLOSED).

## 4. The proofs

Every invariant that a passing run checks, the action property and the three refinements are
proved for all values of the constants. Assumptions on constants are the named ASSUMEs of the
modules; TLC evaluates them in the runs. No other assumption is made: any width, any set of
clients and nodes, any number of requests. Sets are finite where a bound or an allocation counts
them (events, tags of a notify list, global callbacks, clients of the timer service).

`SchedulerProofs` proves `IInv`, the conjunction of `TypeOK`, `PointersOwned`, `Sorted`,
`NoEventMissed`, `CounterReachesNoEvent` and `StopRespected`. They need each other:
that no event is passed when the loop counts up rests on the counter's end being no
later than the front event, which is only the earliest if the list is sorted; sorted
is stable under the passing of time only while no distance wraps, which is
`NoEventMissed`; the clamp to a stop time is right only while the stop time is not
behind the clock; and recycling keeps the list intact only if free and pending nodes
are apart. There is a lemma for re-arming (`HorizonProperties`: whatever
the wait, the time stays as it is), one for the passing of n ticks (`TimePasses`), and one
per action. Theorems: `TypeCorrectness`, `PointerSafety`, `EventsOnTime`, `HorizonSafety`,
`StopSafety`, `TimeIsTheLoops` for the action property `OnlyTheLoopMovesTime`, and
`Clock64IsExact` about GetTick64: a carry into the high word is found from the low word alone
exactly as long as the floor is less than 2^32 ticks old.

Its `WheelRefinement` is `ImplementsTimerWheel`. The queue that the wheel has for n ticks ahead is
the list seen through a mask that lets only the nodes due in n ticks pass (`Due`, `Packed`). A
client owns at most one pending node (`PointersOwned`), so that unlinking that node is removing
the client from its queue; a node is inserted behind the last that is due no later, which in its
own queue is the end; and when n ticks pass, every queue moves n places nearer, none falls off
(`CounterReachesNoEvent`), and the front of the list is in queue 0 (`Sorted`). A list is cut
before the node that is inserted or removed, and a lemma says how packing deals with the parts.

`AsyncDispatcherProofs` has two inductive invariants. `TokenInv` strengthens
`TokensReachRequests`, the half of `TokensLeadToRequests` about requests that wait, by types and `Budget` (callbacks run and waiting are all requests
so far, so tokens stay in their range); its lemma `CancelFacts` says what cancelling by
offset does to the queue. `WakeInv` strengthens `NoLostWakeup` by `FlagIsPromise`: the
flag is set only while a message is posted or a thread is about to post it. That is
why dropping a wake-up on a set flag is safe. Theorems: `TypeCorrectness`,
`TokenSafety`, `WakeupSafety`.
`TokenSafety` adds the other half, `TokensAreOwn`: a token that is kept after its request has run
leads to no other client's request.
`QueueRefinement` is `ImplementsQueue`, the queue without its cancelled entries. It needs both
halves: then cancelling at the distance of two tokens is cancelling by name, although slots are counted and
names are not.

`NotifyListProofs` proves `Steady`: the vector holds no entry twice, no pass reads beyond its end,
and, as long as only entries are removed that all passes were started with, what lies between the
index and the length of a pass is what it owes (`OnTrack`). The last part is a theorem about
`~ AnyRemoval`, and so is that no VDASSERT of the removal fails; the first finding shows
that they do not hold without it. Theorems: `TypeCorrect`, `PassesDeliverInOrder`,
`RemovalsKeepLengths`.

`DeferredEventsProofs` proves `TypeOK`, `QueueMatchesPending` and `CallsLiveEvents` from
`QueueInv`: no event waits twice (`Distinct`), the pass under way has read exactly the entries
counted as gone (`PassShape`), and the set of events that wait agrees with life cycle and flags
(`Agree`; what is left over from the teardown is never flushed). Each operation on the list has a
lemma that says which events wait afterwards, so that the actions are proved on sets. That there
is always a tag for a new request is a count: a pass is no longer than the number of events, since
it began with nothing but waiting entries, and those are distinct. Theorems: `TypeCorrectness`,
`QueueSafety`, `CallSafety`.
`QueueRefinement` maps the manager to `DeferredQueue`: the line of requests is what is in the
vector from `firstValid` on.

`SimEventManagerProofs` proves `Inv`. Free list and event lists are *paths*: sequences of nodes, each
once, in which each links to the next (`IsPath`); each node is on the path that its function and its
id tell (`Linked`, `Placed`), and clients and live nodes know each other (`Owned`). A pass under
way is a path too, through live nodes of its event, that ends like the list (`EventPass`); when a
node of it is unlinked and freed (`Unlinked`, `Freed`) the iterators at that node have been moved
on, and all paths lose it together. That a node is taken from the end of the table only when no
other is free bounds the table by the number of clients (`Small`). The generation may recur while
an id is held only if its node was freed, which takes the id away: `Owned` needs no bound on how
often it wraps. Passes over the global callbacks are proved on track for `~ RemoveBehind`, and the second
finding is the other case. Theorems: `TypeCorrect`, `TableIsShared`, `IdsStayValid`,
`EventPassesStayOnTrack`, `GlobalPassesStayOnTrack`.

`TimerServiceProofs` begins with the heap. A heap with a *vacancy* is in order around it (`Holed`), what
goes into it is no earlier than what is above and no later than what is below (`Above`, `Below`),
and slots and heap know each other but for the one that is placed (`Knows`). One turn of either
loop keeps this and comes nearer to its end (`Nearing`), so that the loop comes to rest, and what
it leaves is a heap (`Whole`), with every slot's deadline, client and number as they were
(`Replaced`). `Kept` says that slots are in the heap or free, once, and that tokens lead to them:
what waits is its client's last request, and a token whose number is that of its slot leads to a
slot of its client (`Led`). There are no more slots than clients and one, since those
that wait belong to different clients. That the timer is armed (`Arming`) needs to be known
also of the step before: a run about to arm it for what it read has not missed an earlier
deadline, or a worker has armed it meanwhile, or another run is to come (`RearmsInTime`).
`NothingAfterDestruction` is proved from `WaysClosed`: the destructor goes through its stages in an
order in which each closes a way into the object for good. Theorems: `TypeCorrect`, `TokensLead`,
`TimerIsArmed`, `DestructionSafety`.

`FileAsyncProofs` proves all four invariants of `FileAsync` together. `Places` says
which steps of the two threads can be combined, `Errors` that nothing waits once the worker
has failed, `Blocks` that queue and block in hand are neighbouring regions that end at
`queuedTo` and that the count is their length, `Carried` that they hold what was asked for;
`WrittenInOrder` (the file differs from `content` only between the first of them and
`queuedTo`) needs all of these, and the safe close (`SafeEnd`) needs it in turn. Theorems: `TypeCorrectness`, `OrderSafety`, `CapacitySafety`,
`CompletionSafety`.

`TcpConnectionProofs` proves `EventsMatchState` from `Orderly`: either there is no connection
yet, or it is `InOrder` (the retransmit event is set just while packet timers are left, unless
the connection is closing; the closing event just in TIME_WAIT, also when a receive shutdown has
put a closed connection there again), has left the table if it is closed, and has no event left
once neither table nor application has it. Only packet timers are spoken of: the SYN, which has
none, and data whose timers `UpdateTimers` dropped (fourth finding) are watched by nothing. The
part about the table is broken inside `OnPacket`, between the ACK of the last FIN and the
deletion, so that each operator has a lemma of its own about `InOrder` (`Schedule`, `Transmit`,
`ResetConnection`, `CloseSocket`, `Acknowledge`, `Accept`, ...) and only `Reply` and the
actions have to establish the whole. The one list that matters, the packet timers, is cut at the
first timer left: that there is a first one is the well-ordering of the naturals. No type beyond
the fields of the record is needed, and no assumption on the constants. Theorem: `EventsSafety`.

Its second theorem is about `StreamsIntact`, which it proves from `Orderly` and `StreamInv`. A connection is judged
by a *world*: how much each side sent, how much the application read, whether the guest has
closed, and up to where the guest has the application's bytes (`has`). It is `Sound` when

- the ring holds byte b of the application at sequence number b + 1 and, once it is queued, the
  FIN behind the last of them (`Stored`, `Full`), or a reset has emptied it (`Cut`);
- `next` lies between the SYN and the end of the ring (`Position`), before or behind the base,
  and the base does not pass what the guest has: a retransmission that goes back sends the same
  bytes under the same numbers from the base on; what it sends below the base, where `RingRead`
  may give other bytes, the guest has already;
- what was received and not read continues what was read, and a noted FIN means that it is all
  the guest sent (`Reads`).

The frames under way carry the rest: those to the guest are `Fair` (at their place bytes of the application, or below `has` any, or, from the
ring's size on, what a read outside of the buffer gave: `Carries`, `AsSent`; no FIN while it may still send, no byte acknowledged that it cannot have), those to
the stack `Honest` (bytes of the guest at their place, nothing acknowledged that the guest does
not have). A frame can be delivered long after it was sent, so both are shown to outlast every
step: `Onward` says what steps never undo (a side once shut stays shut and its total stays the
same, what was received only grows). Again each operator has a lemma of its own
(`Makes`: it leaves the connection sound and undoes nothing), so that a step of the stack is the
composition of its operators' lemmas. `StreamInv` was checked with TLC on the instance of
`MCTcpConnection` before it was proved. Of the constants it needs that the sizes, `MSS` and the windows are
naturals (`TcpAssumption`). Theorem: `StreamSafety`.

Its third is `TypeOK`, the bounds of the connection (a packet timer's count among them, which is
not how often a segment is sent: `Transmit` and probes send it again with a timer that begins
at 0), from `Orderly`, `StreamInv` and `SizeInv`, again by an
operator at a time (`Sized`). Two places need the rest. A FIN takes a byte of the send ring
without looking for room when it is queued by an ACK: there is room then, since an ACK
that moves the base has just made some. And the application cannot read more than was sent,
because the bytes taken from a segment continue those that wait to be read (`Reads`) and end
no later than what the guest had sent when it made that segment (`Honest`). Theorems:
`EventsSafety`, `StreamSafety`, `TypeCorrect`.

Only model-checked is all liveness: fairness and ENABLED are beyond the prover. Where a definition
is a recursive function (`Packed`, `Chain`, the loops of the heap), the proofs by induction are made
by the least counterexample: a set of naturals that is not empty has a least one (`LeastNatural`,
from the well-ordering of the naturals), as the induction theorems of the library take an
operator that the prover cannot instantiate. The modules take an element out of a sequence with
`RemoveFirst` and `RemoveAt`, which find its position, and not with `Remove` or `SelectSeq`, which
recurse: a module that reaches a recursive operator loses the SMT prover. The
properties of the runs that expect a violation are false in general; where the code keeps them
under a condition, the theorem says which.

## 5. The plan

Done: the modules above, in the order scheduler, notify list and deferred events, event
manager, async dispatcher, timer service, asynchronous file, TCP connection. To come, most
important first:

1. **TCP**: the socket handler called inside OnPacket (it may send, receive and close there),
   and two connections over the frames of `EthernetBus`, queued on clocks that are removed under
   way.
2. **SocketWorker** (macOS) against the abstract socket that the emulation side expects.
3. **SIO step queue** on `TimerWheel`; abort and reset.
4. The IRQ controller; the audio ring; the Windows timer service against the properties of
   `TimerService`.

Theorems to come: those of the modules above; and that a loop of `DispatchEnds` is bounded, which is
liveness here, could be stated as a decreasing number.

### Not modelled

The Windows timer service has the contract of the macOS one on the timers of a thread
pool; the native socket worker, the SIO manager, the IRQ controller and the audio ring are
further threads or clients of what is modelled. They are on the plan above.

Not planned: CPU cores, video and sound generation (cycle-exact data paths with far too much
state for TLC, tested by the project's own suites), image and tape formats (sequential
conversions), the compiler and interpreter of custom devices, debugger tables, graphics
and user interface.
