--------------------------- MODULE DeferredEvents ---------------------------
(***************************************************************************)
(* ATDeferredEvent and ATDeferredEventManager (h/at/atcore/deferredevent.h, *)
(* ATCore/source/deferredevent.cpp): notifications asked for in the middle  *)
(* of a frame are put off to its end, where the simulator flushes them all. *)
(* The manager's queue is a notify list that is cleared as it is notified,  *)
(* while the callbacks it calls ask for more.                               *)
(*                                                                         *)
(* The environment is the owner of the events (the cassette emulator) and   *)
(* the end of a frame (ATSimulator::AnticEndFrame).  Flush is called outside *)
(* callbacks only, and a callback does not destroy an event that was        *)
(* requested while the flush was under way.  Listeners return: a flush that *)
(* an exception ends is not modelled (see NotifyListOps).                   *)
(***************************************************************************)
EXTENDS NotifyListOps, FiniteSets

CONSTANTS
    Events,
    Null        \* no event

ASSUME EventsAssumption == IsFiniteSet(Events) /\ Null \notin Events

VARIABLES
    mPendingEvents,             \* the manager's notify list
    mbDeferredNotifyPending,
    life,       \* "new", "attached" (mpManager set), "shutdown" or "destroyed"
    notifying,  \* the event whose listeners are being called
    teardown    \* the simulator is being destroyed: no frame ends any more

vars == <<mPendingEvents, mbDeferredNotifyPending, life, notifying, teardown>>

\* A queued request, and what is left of those already answered in a pass.
Tags == 1 .. 2 * Cardinality(Events)
UsedTags == {mPendingEvents.items[i][2] : i \in DOMAIN mPendingEvents.items}
FreshTag == CHOOSE t \in Tags \ UsedTags : \A u \in Tags \ UsedTags : t <= u

AddPendingEvent(e) == mPendingEvents' = ListAdd(mPendingEvents, <<e, FreshTag>>)
RemovePendingEvent(e) == mPendingEvents' = ListRemove(mPendingEvents, e)

\* Emulation code runs outside FlushPendingEvents; listeners run inside it.
Idle == notifying = Null /\ mPendingEvents.passes = <<>>
MayCall == Idle \/ notifying # Null

Init ==
    /\ mPendingEvents = EmptyList
    /\ mbDeferredNotifyPending = [e \in Events |-> FALSE]
    /\ life = [e \in Events |-> "new"]
    /\ notifying = Null
    /\ teardown = FALSE

InitEvent(e) ==
    /\ MayCall /\ life[e] = "new" /\ ~ teardown
    /\ life' = [life EXCEPT ![e] = "attached"]
    /\ IF mbDeferredNotifyPending[e] THEN AddPendingEvent(e) ELSE UNCHANGED mPendingEvents
    /\ UNCHANGED <<mbDeferredNotifyPending, notifying, teardown>>

\* Bug: a second request is queued.
NotifyDeferredAlways(e) ==
    /\ MayCall /\ life[e] # "destroyed" /\ UsedTags # Tags
    /\ mbDeferredNotifyPending' = [mbDeferredNotifyPending EXCEPT ![e] = TRUE]
    /\ IF life[e] = "attached" THEN AddPendingEvent(e) ELSE UNCHANGED mPendingEvents
    /\ UNCHANGED <<life, notifying, teardown>>

NotifyDeferred(e) ==
    /\ MayCall /\ life[e] # "destroyed"
    /\ ~ mbDeferredNotifyPending[e]
    /\ mbDeferredNotifyPending' = [mbDeferredNotifyPending EXCEPT ![e] = TRUE]
    /\ IF life[e] = "attached" THEN AddPendingEvent(e) ELSE UNCHANGED mPendingEvents
    /\ UNCHANGED <<life, notifying, teardown>>

\* Flush: take the request back and notify at once.
Flush(e) ==
    /\ Idle /\ life[e] # "destroyed"
    /\ mbDeferredNotifyPending[e]
    /\ IF life[e] = "attached" THEN RemovePendingEvent(e) ELSE UNCHANGED mPendingEvents
    /\ mbDeferredNotifyPending' = [mbDeferredNotifyPending EXCEPT ![e] = FALSE]
    /\ notifying' = e
    /\ UNCHANGED <<life, teardown>>

\* Shutdown drops the manager without leaving its queue; its only caller is the
\* destruction of the simulator (ATCassetteEmulator::Shutdown).
Shutdown(e) ==
    /\ Idle /\ life[e] = "attached"
    /\ life' = [life EXCEPT ![e] = "shutdown"]
    /\ teardown' = TRUE
    /\ UNCHANGED <<mPendingEvents, mbDeferredNotifyPending, notifying>>

\* An entry within the length of the pass under way.
Covered(pos) ==
    \A p \in DOMAIN mPendingEvents.passes : pos < mPendingEvents.passes[p].length

\* Bug: the event is destroyed in the queue.
DestroyQueued(e) ==
    /\ MayCall /\ notifying # e /\ life[e] # "destroyed"
    /\ life' = [life EXCEPT ![e] = "destroyed"]
    /\ UNCHANGED <<mPendingEvents, mbDeferredNotifyPending, notifying, teardown>>

\* ~ATDeferredEvent.
Destroy(e) ==
    /\ MayCall /\ notifying # e /\ life[e] # "destroyed"
    /\ \A pos \in FoundAt(mPendingEvents, e) : Covered(pos)
    /\ IF mbDeferredNotifyPending[e] /\ life[e] = "attached"
       THEN RemovePendingEvent(e)
       ELSE UNCHANGED mPendingEvents
    /\ life' = [life EXCEPT ![e] = "destroyed"]
    /\ UNCHANGED <<mbDeferredNotifyPending, notifying, teardown>>

-----------------------------------------------------------------------------
\* FlushPendingEvents, at the end of a frame.
BeginFlushPending ==
    /\ Idle /\ ~ teardown
    /\ mPendingEvents.items # <<>>
    /\ mPendingEvents' = ListBeginNotifyAndClear(mPendingEvents)
    /\ UNCHANGED <<mbDeferredNotifyPending, life, notifying, teardown>>

\* The manager's callback: Notify on the next event of the queue.
NotifyNext ==
    /\ AtLoopHead(mPendingEvents) /\ HasNext(mPendingEvents)
    /\ LET e == NextEntry(mPendingEvents)[1]
       IN /\ mbDeferredNotifyPending' = [mbDeferredNotifyPending EXCEPT ![e] = FALSE]
          /\ notifying' = e
    /\ mPendingEvents' = ListDeliverAndClear(mPendingEvents)
    /\ UNCHANGED <<life, teardown>>

ListenersReturn ==
    /\ notifying # Null
    /\ notifying' = Null
    /\ IF InCallback(mPendingEvents)
       THEN mPendingEvents' = ListCallbackReturns(mPendingEvents)
       ELSE UNCHANGED mPendingEvents
    /\ UNCHANGED <<mbDeferredNotifyPending, life, teardown>>

EndFlushPending ==
    /\ AtLoopHead(mPendingEvents) /\ ~ HasNext(mPendingEvents)
    /\ mPendingEvents' = ListEndPassAndClear(mPendingEvents)
    /\ UNCHANGED <<mbDeferredNotifyPending, life, notifying, teardown>>

Next ==
    \/ \E e \in Events :
        \/ InitEvent(e) \/ NotifyDeferred(e) \/ Flush(e)
        \/ Shutdown(e) \/ Destroy(e)
    \/ BeginFlushPending \/ NotifyNext \/ ListenersReturn \/ EndFlushPending

Spec == Init /\ [][Next]_vars

\* Listeners return, the loop is straight-line code, and frames keep ending,
\* whatever else goes on between the ends of two frames.
FairSpec ==
    /\ Spec
    /\ SF_vars(BeginFlushPending)
    /\ WF_vars(NotifyNext) /\ WF_vars(ListenersReturn) /\ WF_vars(EndFlushPending)

-----------------------------------------------------------------------------
TypeOK ==
    /\ mPendingEvents.items \in Seq(Events \X Tags)
    /\ mPendingEvents.firstValid \in 0 .. Len(mPendingEvents.items)
    /\ Len(mPendingEvents.passes) <= 1
    /\ \A p \in DOMAIN mPendingEvents.passes :
        /\ mPendingEvents.passes[p].index \in 0 .. Len(mPendingEvents.items)
        /\ mPendingEvents.passes[p].length \in 0 .. Len(mPendingEvents.items)
    /\ mPendingEvents.asserts
    /\ mbDeferredNotifyPending \in [Events -> BOOLEAN]
    /\ life \in [Events -> {"new", "attached", "shutdown", "destroyed"}]
    /\ notifying \in Events \union {Null}
    /\ teardown \in BOOLEAN

\* The part of the queue that is still waiting.
Waiting ==
    LET list == mPendingEvents
    IN [i \in 1 .. Len(list.items) - list.firstValid |-> list.items[list.firstValid + i][1]]

\* The flag and the queue agree, also while the queue is being flushed and the
\* same event is asked for again: an attached event waits exactly once when its
\* flag is set and not at all when it is clear.
QueueMatchesPending ==
    \A e \in Events : life[e] \in {"new", "attached"} =>
        Cardinality({i \in DOMAIN Waiting : Waiting[i] = e}) =
            IF life[e] = "attached" /\ mbDeferredNotifyPending[e] THEN 1 ELSE 0

\* FlushPendingEvents only calls into events that exist and that were asked to
\* notify, although events are destroyed while they wait.
CallsLiveEvents ==
    AtLoopHead(mPendingEvents) /\ HasNext(mPendingEvents) =>
        LET e == NextEntry(mPendingEvents)[1]
        IN life[e] = "attached" /\ mbDeferredNotifyPending[e]

\* A request is notified by the end of some frame unless it is withdrawn, even
\* when every listener asks again.
EveryRequestIsNotified ==
    \A e \in Events :
        (life[e] = "attached" /\ mbDeferredNotifyPending[e] /\ ~ teardown)
            ~> (~ mbDeferredNotifyPending[e] \/ life[e] # "attached" \/ teardown)

\* The dead entries at the front of the vector are never seen: what is left is
\* a first-come first-served queue of requests.
ImplementsQueue == INSTANCE DeferredQueue WITH queue <- Waiting
InOrder == ImplementsQueue!Spec
=============================================================================
