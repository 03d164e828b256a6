---------------------------- MODULE NotifyListOps ----------------------------
(***************************************************************************)
(* ATNotifyList (h/at/atcore/notifylist.h, ATCore/source/notifylist.cpp):   *)
(* a list that may be added to and removed from while it is being iterated, *)
(* by the very callbacks the iteration calls.  Every pass over the list has *)
(* an Iterator on the C++ stack that adds and removes adjust.               *)
(*                                                                         *)
(* A list is a value here, and an operation maps a list to a list, so that *)
(* the modules about the users of the class share these definitions.  An   *)
(* entry is <<v, tag>>: the element v, which may be in the list more than   *)
(* once, and a tag that tells its insertions apart.                        *)
(***************************************************************************)
EXTENDS Integers, Sequences, SequencesExt

\* items: the vector.  passes: the iterators of the passes in progress, the
\* innermost (mpIteratorList) first.  asserts: every VDASSERT so far held.
EmptyList == [items |-> <<>>, firstValid |-> 0, passes |-> <<>>, asserts |-> TRUE]

ListContains(list, v) == \E i \in DOMAIN list.items : list.items[i][1] = v

ListAddFront(list, entry) == [list EXCEPT !.items = <<entry>> \o @]     \* bug: wrong end
ListAdd(list, entry) == [list EXCEPT !.items = Append(@, entry)]

ListAddUnique(list, entry) ==
    IF ListContains(list, entry[1]) THEN list ELSE ListAdd(list, entry)

\* Clear, with ResetIterators.
ListClear(list) ==
    [list EXCEPT
        !.items = <<>>,
        !.passes = [p \in DOMAIN @ |-> [@[p] EXCEPT !.index = 0, !.length = 0, !.todo = <<>>]]]

\* Bugs for PassWithout: the index always moves, or never.
PassAlwaysBack(pass, pos, entry) ==
    [pass EXCEPT !.length = @ - 1, !.index = @ - 1, !.todo = RemoveFirst(@, entry)]
PassNeverBack(pass, pos, entry) ==
    [pass EXCEPT !.length = @ - 1, !.todo = RemoveFirst(@, entry)]

\* A pass when the entry at pos is removed: it becomes one shorter, wherever pos is.
\* (A length below 0 stands for the wrapped size_t.)
PassWithout(pass, pos, entry) ==
    [pass EXCEPT !.length = @ - 1,
                 !.index = IF @ > pos THEN @ - 1 ELSE @,
                 !.todo = RemoveFirst(@, entry)]

\* AdjustIteratorsForRemove(pos), pos counted from 0.
AdjustForRemove(list, pos) ==
    [list EXCEPT
        !.asserts = @ /\ \A p \in DOMAIN list.passes : list.passes[p].length > 0,
        !.passes = [p \in DOMAIN @ |-> PassWithout(@[p], pos, list.items[pos + 1])]]

\* Where Remove's search stops: the first match that is still valid, if any.
FoundAt(list, v) ==
    {pos \in list.firstValid .. Len(list.items) - 1 :
        /\ list.items[pos + 1][1] = v
        /\ \A q \in list.firstValid .. pos - 1 : list.items[q + 1][1] # v}

ListRemove(list, v) ==
    IF FoundAt(list, v) = {}
    THEN list
    ELSE LET pos == CHOOSE pos \in FoundAt(list, v) : TRUE
         IN [AdjustForRemove(list, pos) EXCEPT !.items = RemoveAt(@, pos + 1)]

-----------------------------------------------------------------------------
\* A pass: its iterator, whether it is inside its callback, and, for the
\* properties alone, the entries it still owes its callback.
Pass(list, first) ==
    [index |-> first, length |-> Len(list.items), calling |-> FALSE,
     todo |-> SubSeq(list.items, first + 1, Len(list.items))]

\* Notify, NotifyAllDirect, NotifyWhileDirect and InvokeAll start alike.
ListBeginNotify(list) == [list EXCEPT !.passes = <<Pass(list, list.firstValid)>> \o @]
ListBeginNotifyAndClear(list) == [list EXCEPT !.passes = <<Pass(list, 0)>> \o @]

InCallback(list) == list.passes # <<>> /\ list.passes[1].calling
AtLoopHead(list) == list.passes # <<>> /\ ~ list.passes[1].calling
\* Bug for HasNext: the vector's size instead of the captured one.
HasNextOfAll(list) == list.passes[1].index < Len(list.items)
HasNext(list) == list.passes[1].index < list.passes[1].length

\* The element the loop reads next.
NextEntry(list) == list.items[list.passes[1].index + 1]

PassDelivered(pass, entry) ==
    [pass EXCEPT !.index = @ + 1, !.calling = TRUE, !.todo = RemoveFirst(@, entry)]
ListDeliver(list) == [list EXCEPT !.passes[1] = PassDelivered(@, NextEntry(list))]

\* NotifyAndClear counts the element as gone before it calls back.
ListDeliverAndClear(list) ==
    LET l == ListDeliver(list)
    IN [l EXCEPT !.firstValid = IF @ < l.passes[1].index THEN l.passes[1].index ELSE @]

ListCallbackReturns(list) == [list EXCEPT !.passes[1].calling = FALSE]

ListEndPass(list) == [list EXCEPT !.passes = Tail(@)]

\* Bugs for ListEndPassAndClear: mFirstValid is kept; requests made during the
\* pass are erased with the others.
ListEndPassKeepingFirstValid(list) ==
    [list EXCEPT !.items = SubSeq(@, list.firstValid + 1, Len(@)), !.passes = Tail(@)]
ListEndPassAndClearAll(list) ==
    [list EXCEPT !.items = <<>>, !.firstValid = 0, !.passes = Tail(@)]

\* A pass when the first n entries are erased.
PassAfterErase(pass, n) ==
    [pass EXCEPT !.length = @ - n, !.index = IF @ <= n THEN 0 ELSE @ - n]

\* The end of NotifyAndClear: erase [0, mFirstValid) and adjust the iterators
\* of the enclosing passes, AdjustIteratorsForRemove(0, mFirstValid).  A callback is
\* taken to return: on an exception the code unlinks the iterator alone, [0,
\* mFirstValid) stays and the next NotifyAndClear goes through it again.
ListEndPassAndClear(list) ==
    LET n == list.firstValid
    IN [list EXCEPT
          !.items = SubSeq(@, n + 1, Len(@)),
          !.firstValid = 0,
          !.asserts = @ /\ \A p \in 2 .. Len(list.passes) : list.passes[p].length >= n,
          !.passes = [p \in 1 .. Len(@) - 1 |-> PassAfterErase(@[p + 1], n)]]
=============================================================================
