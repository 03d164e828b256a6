--------------------------- MODULE MCDeadlineHeap ---------------------------
(* One insertion and one removal on every heap of up to MaxLen entries.  Every *)
(* such heap is reached by inserting its entries in order; which slot an       *)
(* entry is in makes no difference, so position p holds slot p.                *)
EXTENDS DeadlineHeap, FiniteSets

MaxLen == 7
HeapDeadlines == 0 .. 3

Heaps == {d \in UNION {[1 .. n -> HeapDeadlines] : n \in 0 .. MaxLen} :
             \A p \in 2 .. Len(d) : d[p \div 2] <= d[p]}
Slots(d) == [p \in 1 .. Len(d) |-> [deadline |-> d[p], heapIndex |-> p]]

Holds(new, entries) ==
    /\ HeapInOrder(new.heap, new.slots)
    /\ ToSet(new.heap) = entries /\ Len(new.heap) = Cardinality(entries)
    /\ \A s \in DOMAIN new.slots : new.slots[s].heapIndex = 0 <=> s \notin entries

\* Whatever is inserted or removed from the middle, the heap stays in order, with
\* just the right entries in it and every slot knowing its place: the VDASSERTs
\* on mHeapIndex hold and the front is the earliest deadline (RunCallbacks).
ASSUME HeapStaysInOrder ==
    \A d \in Heaps :
        LET heap  == [p \in DOMAIN d |-> p]
            slots == Slots(d)
        IN  /\ \A deadline \in HeapDeadlines :
                  Holds(Insert(heap, Append(slots, [deadline |-> deadline, heapIndex |-> 0]),
                               Len(d) + 1),
                        1 .. Len(d) + 1)
            /\ \A s \in DOMAIN d :
                  Holds(FillHole(heap, [slots EXCEPT ![s].heapIndex = 0], s), DOMAIN d \ {s})
=============================================================================
