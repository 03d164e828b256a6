----------------------------- MODULE NotifyList -----------------------------
(***************************************************************************)
(* A listener list: one ATNotifyList that is only notified, never cleared   *)
(* by notification, and whose callbacks may do anything to it: add, remove, *)
(* clear, and start a pass inside a pass.                                   *)
(***************************************************************************)
EXTENDS NotifyListOps, FiniteSets

CONSTANTS
    Listeners,      \* elements of the list
    Tags,           \* 1 .. n: bounds the number of entries in the list
    MaxDepth,       \* bounds passes inside passes
    AnyRemoval      \* FALSE: while passes are in progress, only entries that
                    \* all of them were started with are removed

ASSUME NotifyListAssumption ==
    IsFiniteSet(Tags) /\ Tags \subseteq Nat /\ MaxDepth \in Nat \ {0} /\ AnyRemoval \in BOOLEAN

VARIABLE list

Entries == Listeners \X Tags

\* The list's owner and its listeners call it outside passes and from callbacks.
MayCall == list.passes = <<>> \/ InCallback(list)

UsedTags == {list.items[i][2] : i \in DOMAIN list.items}
FreshTag == CHOOSE t \in Tags \ UsedTags : \A u \in Tags \ UsedTags : t <= u

Init == list = EmptyList

AddListener(v) ==
    /\ MayCall /\ UsedTags # Tags
    /\ \/ list' = ListAdd(list, <<v, FreshTag>>)
       \/ list' = ListAddUnique(list, <<v, FreshTag>>)

\* The entry at pos is within the length of every pass in progress.
Covered(pos) == \A p \in DOMAIN list.passes : pos < list.passes[p].length

RemoveListener(v) ==
    /\ MayCall
    /\ AnyRemoval \/ \A pos \in FoundAt(list, v) : Covered(pos)
    /\ list' = ListRemove(list, v)

ClearListeners ==
    /\ MayCall
    /\ list' = ListClear(list)

BeginNotify ==
    /\ MayCall /\ list.items # <<>> /\ Len(list.passes) < MaxDepth
    /\ list' = ListBeginNotify(list)

Deliver ==
    /\ AtLoopHead(list) /\ HasNext(list)
    /\ list' = ListDeliver(list)

\* The callback returns and the pass goes on.
CallbackReturns ==
    /\ InCallback(list)
    /\ list' = ListCallbackReturns(list)

\* The callback asks to stop, or throws, and the pass ends at once.
CallbackInterrupts ==
    /\ InCallback(list)
    /\ list' = ListEndPass(list)

FinishPass ==
    /\ AtLoopHead(list) /\ ~ HasNext(list)
    /\ list' = ListEndPass(list)

Next ==
    \/ \E v \in Listeners : AddListener(v) \/ RemoveListener(v)
    \/ ClearListeners
    \/ BeginNotify
    \/ Deliver
    \/ CallbackReturns
    \/ CallbackInterrupts
    \/ FinishPass

Spec == Init /\ [][Next]_list

\* The loop of a pass is straight-line code and callbacks return.
FairSpec ==
    /\ Spec
    /\ WF_list(Deliver) /\ WF_list(FinishPass)
    /\ WF_list(CallbackReturns \/ CallbackInterrupts)

-----------------------------------------------------------------------------
TypeOK ==
    /\ list.items \in Seq(Entries) /\ Len(list.items) <= Cardinality(Tags)
    /\ list.firstValid = 0
    /\ list.passes \in Seq([index : Nat, length : Int, calling : BOOLEAN, todo : Seq(Entries)])
    /\ Len(list.passes) <= MaxDepth
    /\ list.asserts \in BOOLEAN

\* Whatever callbacks do, what lies ahead of a pass's iterator is exactly what
\* the pass was started with, in insertion order, less what it has delivered
\* and what was removed since: entries added later are not seen, removed ones
\* not dispatched, none skipped or repeated (the guarantees of notifylist.h).
PassesSeeTheirEntries ==
    \A p \in DOMAIN list.passes :
        LET pass == list.passes[p]
        IN SubSeq(list.items, pass.index + 1, pass.length) = pass.todo

\* The VDASSERTs of AdjustIteratorsForRemove hold: no length ever falls
\* below 0 and wraps.
AssertionsHold == list.asserts

\* A pass ends even if its callbacks keep adding listeners.
InnermostPassEnds == Len(list.passes) = MaxDepth ~> Len(list.passes) < MaxDepth
=============================================================================
