---------------------------- MODULE DeadlineHeap ----------------------------
(***************************************************************************)
(* The binary heap of ATTimerService (timerserviceimpl_macos.cpp): mHeap is *)
(* a sequence of slot numbers, positions counted from 1; a slot has its     *)
(* deadline and its place in the heap, heapIndex, 0 (the code's -1) when it *)
(* is not there.  Entries are removed from the middle as well as the front. *)
(***************************************************************************)
EXTENDS Naturals, Sequences, SequencesExt

\* While an entry is moved there is a vacancy: a record of heap, slots and the place
\* pos whose content does not count.  The entry at q moves into it.
Shift(h, q) ==
    [heap  |-> [h.heap EXCEPT ![h.pos] = h.heap[q]],
     slots |-> [h.slots EXCEPT ![h.heap[q]].heapIndex = h.pos],
     pos   |-> q]

\* One turn of the loops that climb: a later parent comes down.
OneUp(h, deadline) ==
    LET parent == h.pos \div 2
    IN  IF h.pos > 1 /\ deadline < h.slots[h.heap[parent]].deadline THEN Shift(h, parent) ELSE h

\* The child of the vacancy with the smaller deadline, the left one if they are equal.
SmallerChild(h) ==
    LET left == 2 * h.pos
    IN  IF /\ left + 1 <= Len(h.heap)
           /\ h.slots[h.heap[left + 1]].deadline < h.slots[h.heap[left]].deadline
        THEN left + 1 ELSE left

\* One turn of the loop of Sink: the child with the smaller deadline comes up.
OneDown(h, deadline) ==
    IF 2 * h.pos <= Len(h.heap) /\ h.slots[h.heap[SmallerChild(h)]].deadline < deadline
    THEN Shift(h, SmallerChild(h)) ELSE h

\* The loops: no more turns change anything than there are places.
Climb(h, deadline) ==
    LET turn[n \in 0 .. Len(h.heap)] == IF n = 0 THEN h ELSE OneUp(turn[n - 1], deadline)
    IN  turn[Len(h.heap)]
Sink(h, deadline) ==
    LET turn[n \in 0 .. Len(h.heap)] == IF n = 0 THEN h ELSE OneDown(turn[n - 1], deadline)
    IN  turn[Len(h.heap)]

\* Slot s is put into the vacancy.
Put(h, s) ==
    [heap |-> [h.heap EXCEPT ![h.pos] = s], slots |-> [h.slots EXCEPT ![s].heapIndex = h.pos]]

\* The end of the vector goes where a removed entry was, rising or falling.
FillHole(heap, slots, pos) ==
    LET tail == heap[Len(heap)]
        rest == Front(heap)
        hole == [heap |-> rest, slots |-> slots, pos |-> pos]
        up   == Climb(hole, slots[tail].deadline)
    IN IF pos > Len(rest) THEN [heap |-> rest, slots |-> slots]
       ELSE Put(IF up.pos # pos THEN up ELSE Sink(hole, slots[tail].deadline), tail)

\* A slot goes in at the end and climbs (Request).
Insert(heap, slots, s) ==
    LET end == [heap |-> Append(heap, s), slots |-> slots, pos |-> Len(heap) + 1]
    IN  Put(Climb(end, slots[s].deadline), s)

\* The heap is in order, and the slots in it know their places.
HeapInOrder(heap, slots) ==
    \A p \in DOMAIN heap :
        /\ p > 1 => slots[heap[p \div 2]].deadline <= slots[heap[p]].deadline
        /\ slots[heap[p]].heapIndex = p
=============================================================================
