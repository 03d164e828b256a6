--------------------------- MODULE SimEventManager ---------------------------
(***************************************************************************)
(* ATSimulatorEventManager (Altirra/source/simeventmanager.cpp): tells the  *)
(* user interface and the debugger of simulator events.  There are two      *)
(* kinds of callbacks: global ones, in a vector, called for every event;    *)
(* and per-event ones, nodes of a table threaded into one singly linked     *)
(* list per event, removed by an id that carries a generation count.        *)
(* NotifyEvent may be re-entered, and callbacks may add and remove.         *)
(***************************************************************************)
EXTENDS Naturals, Sequences, SequencesExt, FiniteSets

CONSTANTS
    Globals,        \* IATSimulatorCallback objects
    Clients,        \* holders of one id each from AddEventCallback
    Events,         \* ATSimulatorEvent values (numbers from 1)
    Generations,    \* values of the generation byte (256)
    MaxDepth,       \* bounds NotifyEvent inside callbacks
    RemoveBehind,   \* FALSE: no global callback is removed that a pass under
                    \* way has already called
    Null            \* no client

ASSUME SimEventAssumption ==
    /\ IsFiniteSet(Globals) /\ IsFiniteSet(Clients) /\ Null \notin Clients
    /\ Events \subseteq Nat \ {0}
    /\ Generations \in Nat \ {0} /\ MaxDepth \in Nat \ {0}
    /\ RemoveBehind \in BOOLEAN

VARIABLES
    mCallbacks,             \* the global callbacks
    mEventCallbackTable,    \* nodes; an index of 0 is the null link
    mECFreeList,
    mEventCallbackLists,    \* head of each event's list
    passes,                 \* the NotifyEvent calls under way, innermost first
    ids                     \* the id each client holds

vars == <<mCallbacks, mEventCallbackTable, mECFreeList, mEventCallbackLists, passes, ids>>
table == <<mEventCallbackTable, mECFreeList, mEventCallbackLists, ids>>

NoId == [generation |-> 0, event |-> 0, index |-> 0]

\* Callbacks run in a pass; everybody else runs between passes.
MayCall == passes # <<>> => passes[1].calling

Init ==
    /\ mCallbacks = <<>>
    /\ mEventCallbackTable = <<>>
    /\ mECFreeList = 0
    /\ mEventCallbackLists = [ev \in Events |-> 0]
    /\ passes = <<>>
    /\ ids = [c \in Clients |-> NoId]

-----------------------------------------------------------------------------
\* AddCallback; a callback that is already there is not added again.
AddCallback(cb) ==
    /\ MayCall /\ ~ Contains(mCallbacks, cb)
    /\ mCallbacks' = Append(mCallbacks, cb)
    /\ UNCHANGED <<passes, table>>

\* Bugs for ShortenPass: passes that have not captured the entry are shortened
\* as well; none is.
ShortenEveryPass(pass, index, cb) ==
    [pass EXCEPT !.globalSize = @ - 1, !.globalTodo = RemoveFirst(@, cb)]
ShortenNoPass(pass, index, cb) == [pass EXCEPT !.globalTodo = RemoveFirst(@, cb)]

\* What RemoveCallback does to the iterators: it shortens those that have
\* captured the entry, and leaves their position alone.
ShortenPass(pass, index, cb) ==
    [pass EXCEPT !.globalSize = IF @ > index THEN @ - 1 ELSE @,
                 !.globalTodo = RemoveFirst(@, cb)]

RemoveCallback(cb) ==
    /\ MayCall
    /\ \E index \in 0 .. Len(mCallbacks) - 1 :
        /\ mCallbacks[index + 1] = cb
        /\ RemoveBehind \/ \A p \in DOMAIN passes : passes[p].globalIdx <= index
        /\ mCallbacks' = RemoveAt(mCallbacks, index + 1)
        /\ passes' = [p \in DOMAIN passes |-> ShortenPass(passes[p], index, cb)]
    /\ UNCHANGED table

-----------------------------------------------------------------------------
\* A node of the table as push_back leaves it.
NewNode(index) ==
    [next |-> 0, id |-> [generation |-> 1, event |-> 0, index |-> index], fn |-> Null]

\* Bug: the table grows although a node is free.
TableAlwaysGrown == Append(mEventCallbackTable, NewNode(Len(mEventCallbackTable) + 1))

\* The table with a free node in it.
TableForAdd ==
    IF mECFreeList # 0 THEN mEventCallbackTable
    ELSE Append(mEventCallbackTable, NewNode(Len(mEventCallbackTable) + 1))

\* The node that AddEventCallback takes; and a bug: always the last one.
LastNode(nodes) == Len(nodes)
NodeForAdd(nodes) == IF mECFreeList # 0 THEN mECFreeList ELSE Len(nodes)

NextGeneration(g) == (g + 1) % Generations

\* AddEventCallback links the node in at the head of the list of its event.
AddEventCallback(c, ev) ==
    /\ MayCall /\ ids[c] = NoId
    /\ LET nodes == TableForAdd
           index == NodeForAdd(nodes)
           node  == nodes[index]
           id    == [node.id EXCEPT !.generation = NextGeneration(@), !.event = @ + ev]
       IN /\ mECFreeList' = node.next
          /\ mEventCallbackTable' = [nodes EXCEPT ![index] =
                [next |-> mEventCallbackLists[ev], id |-> id, fn |-> c]]
          /\ mEventCallbackLists' = [mEventCallbackLists EXCEPT ![ev] = index]
          /\ ids' = [ids EXCEPT ![c] = id]
    /\ UNCHANGED <<mCallbacks, passes>>

\* The nodes q of a list that begins at node i, and the one after them if there is one.
OneMore(nodes, i, q) ==
    LET j == IF q = <<>> THEN i ELSE nodes[Last(q)].next
    IN  IF j = 0 THEN q ELSE Append(q, j)

\* The nodes of the list that begins at node i (cut off at the size of the table).
ChainIn(nodes, i) ==
    LET path[n \in 0 .. Len(nodes)] == IF n = 0 THEN <<>> ELSE OneMore(nodes, i, path[n - 1])
    IN  path[Len(nodes)]
Chain(i) == ChainIn(mEventCallbackTable, i)

\* Bugs for BumpPass: the pass stays on the node; it starts over.
PassNotBumped(pass, index) == [pass EXCEPT !.eventTodo = RemoveFirst(@, index)]
PassRestarted(pass, index) ==
    [pass EXCEPT !.eventIdx = IF @ = index THEN mEventCallbackLists[pass.event] ELSE @,
                 !.eventTodo = RemoveFirst(@, index)]

\* A pass about to call the node moves on to the next one.
BumpPass(pass, index) ==
    [pass EXCEPT !.eventIdx = IF @ = index THEN mEventCallbackTable[index].next ELSE @,
                 !.eventTodo = RemoveFirst(@, index)]

\* RemoveEventCallback with the id a client holds, which the client then forgets.
RemoveEventCallback(c) ==
    /\ MayCall /\ ids[c] # NoId
    /\ LET index == ids[c].index
           ev    == ids[c].event
           node  == mEventCallbackTable[index]
           chain == Chain(mEventCallbackLists[ev])
       IN /\ node.id = ids[c]
          /\ \E k \in DOMAIN chain :
                /\ chain[k] = index
                /\ mEventCallbackTable' = [i \in DOMAIN mEventCallbackTable |->
                    IF i = index
                    THEN [next |-> mECFreeList, fn |-> Null,
                          id |-> [node.id EXCEPT !.generation = NextGeneration(@), !.event = 0]]
                    ELSE IF k > 1 /\ i = chain[k - 1]
                         THEN [mEventCallbackTable[i] EXCEPT !.next = node.next]
                         ELSE mEventCallbackTable[i]]
                /\ mEventCallbackLists' =
                    IF k = 1 THEN [mEventCallbackLists EXCEPT ![ev] = node.next]
                    ELSE mEventCallbackLists
          /\ mECFreeList' = index
          /\ passes' = [p \in DOMAIN passes |-> BumpPass(passes[p], index)]
          /\ ids' = [ids EXCEPT ![c] = NoId]
    /\ UNCHANGED mCallbacks

-----------------------------------------------------------------------------
\* NotifyEvent captures the size of the vector and the head of the list.  The
\* todo fields are for the properties: whom the pass still owes a call.
NotifyEvent(ev) ==
    /\ MayCall /\ Len(passes) < MaxDepth
    /\ passes' = <<[event |-> ev, calling |-> FALSE,
                    globalIdx |-> 0, globalSize |-> Len(mCallbacks),
                    eventIdx |-> mEventCallbackLists[ev],
                    globalTodo |-> mCallbacks,
                    eventTodo |-> Chain(mEventCallbackLists[ev])]>> \o passes
    /\ UNCHANGED <<mCallbacks, table>>

AtLoopHead == passes # <<>> /\ ~ passes[1].calling
GlobalsLeft == passes[1].globalIdx < passes[1].globalSize

CallGlobal ==
    /\ AtLoopHead /\ GlobalsLeft
    /\ passes' = [passes EXCEPT ![1].globalIdx = @ + 1, ![1].calling = TRUE,
                        ![1].globalTodo = RemoveFirst(@, mCallbacks[passes[1].globalIdx + 1])]
    /\ UNCHANGED <<mCallbacks, table>>

\* The function is copied and the iterator moved on before the call.
CallEvent ==
    /\ AtLoopHead /\ ~ GlobalsLeft /\ passes[1].eventIdx # 0
    /\ passes' = [passes EXCEPT ![1].eventIdx = mEventCallbackTable[@].next, ![1].calling = TRUE,
                        ![1].eventTodo = RemoveFirst(@, passes[1].eventIdx)]
    /\ UNCHANGED <<mCallbacks, table>>

CallbackReturns ==
    /\ passes # <<>> /\ passes[1].calling
    /\ passes' = [passes EXCEPT ![1].calling = FALSE]
    /\ UNCHANGED <<mCallbacks, table>>

EndNotify ==
    /\ AtLoopHead /\ ~ GlobalsLeft /\ passes[1].eventIdx = 0
    /\ passes' = Tail(passes)
    /\ UNCHANGED <<mCallbacks, table>>

Next ==
    \/ \E cb \in Globals : AddCallback(cb) \/ RemoveCallback(cb)
    \/ \E c \in Clients :
        \/ \E ev \in Events : AddEventCallback(c, ev)
        \/ RemoveEventCallback(c)
    \/ \E ev \in Events : NotifyEvent(ev)
    \/ CallGlobal \/ CallEvent \/ CallbackReturns \/ EndNotify

Spec == Init /\ [][Next]_vars

\* The loops of NotifyEvent are straight-line code and callbacks return.
FairSpec ==
    /\ Spec
    /\ WF_vars(CallGlobal) /\ WF_vars(CallEvent)
    /\ WF_vars(CallbackReturns) /\ WF_vars(EndNotify)

-----------------------------------------------------------------------------
Ids == [generation : 0 .. Generations - 1, event : Events \union {0},
        index : 0 .. Cardinality(Clients)]

TypeOK ==
    /\ mCallbacks \in Seq(Globals) /\ IsInjective(mCallbacks)
    /\ Len(mEventCallbackTable) <= Cardinality(Clients)
    /\ \A i \in DOMAIN mEventCallbackTable :
        mEventCallbackTable[i] \in
            [next : 0 .. Cardinality(Clients), id : Ids, fn : Clients \union {Null}]
    /\ mECFreeList \in 0 .. Len(mEventCallbackTable)
    /\ mEventCallbackLists \in [Events -> 0 .. Len(mEventCallbackTable)]
    /\ Len(passes) <= MaxDepth
    /\ \A p \in DOMAIN passes :
        /\ passes[p].event \in Events /\ passes[p].calling \in BOOLEAN
        /\ passes[p].globalIdx \in 0 .. Cardinality(Globals)
        /\ passes[p].globalSize \in 0 .. Cardinality(Globals)
        /\ passes[p].eventIdx \in 0 .. Len(mEventCallbackTable)
    /\ ids \in [Clients -> Ids]

\* The free list and the lists of the events share out the table: every node is
\* on exactly one of them, once, free ones without a function and the others
\* with an id that names their event.
ListsShareTable ==
    /\ \A i \in DOMAIN mEventCallbackTable :
        LET onFree == Contains(Chain(mECFreeList), i)
            on == {ev \in Events : Contains(Chain(mEventCallbackLists[ev]), i)}
            node == mEventCallbackTable[i]
        IN IF node.fn = Null THEN onFree /\ on = {} /\ node.id.event = 0
           ELSE ~ onFree /\ on = {node.id.event}
    /\ \A i \in {mECFreeList} \union {mEventCallbackLists[ev] : ev \in Events} :
        IsInjective(Chain(i))

\* The id a client holds is that of its own live registration, however often
\* the node has been recycled: RemoveEventCallback never fails its checks and
\* never removes another client's callback.
IdsNameTheirOwner ==
    \A c \in Clients : ids[c] # NoId =>
        /\ ids[c].index \in DOMAIN mEventCallbackTable
        /\ mEventCallbackTable[ids[c].index].id = ids[c]
        /\ mEventCallbackTable[ids[c].index].fn = c

\* What lies ahead of each pass on the list of its event is what was there when
\* it began, less what it called and what was removed: no node removed or
\* recycled under a pass leads it to the free list or to another event.
EventPassesOnTrack ==
    \A p \in DOMAIN passes : Chain(passes[p].eventIdx) = passes[p].eventTodo

\* The same for the global callbacks: none is skipped or called twice in an
\* iteration, none added during it is called, and none is read beyond the end
\* of the vector (the comments in AddCallback and RemoveCallback).
GlobalPassesOnTrack ==
    \A p \in DOMAIN passes :
        /\ passes[p].globalSize <= Len(mCallbacks)
        /\ SubSeq(mCallbacks, passes[p].globalIdx + 1, passes[p].globalSize) = passes[p].globalTodo

\* NotifyEvent returns even if its callbacks keep registering callbacks.
InnermostNotifyEnds == Len(passes) = MaxDepth ~> Len(passes) < MaxDepth
=============================================================================
