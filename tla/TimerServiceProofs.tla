------------------------- MODULE TimerServiceProofs -------------------------
(***************************************************************************)
(* Safety of ATTimerService for any clients, delays and clock: its heap     *)
(* stays a heap whatever is inserted and removed, tokens lead to the slots   *)
(* of their clients, the timer is armed for the front, and nothing is left   *)
(* by the destructor.                                                       *)
(***************************************************************************)
EXTENDS TimerService, FiniteSetTheorems, SequenceTheorems, NaturalsInduction,
        WellFoundedInduction, TLAPS

\* A slot, whatever its numbers.
Slot == [deadline : Nat, seq : Nat, heapIndex : Nat, callback : Clients \union {Null}]

\* A heap of n entries on m slots with a vacancy.
Vacant(n, m) == [heap : [1 .. n -> 1 .. m], slots : [1 .. m -> Slot], pos : 1 .. n]

\* Slots and heap know each other; slot t is the one that is being placed.
Knows(g, t) ==
    /\ \A q \in DOMAIN g.heap \ {g.pos} : g.heap[q] # t /\ g.slots[g.heap[q]].heapIndex = q
    /\ \A i \in DOMAIN g.slots \ {t} : g.slots[i].heapIndex # 0 =>
          /\ g.slots[i].heapIndex \in DOMAIN g.heap \ {g.pos}
          /\ g.heap[g.slots[i].heapIndex] = i

\* The deadline at a place.
Late(g, q) == g.slots[g.heap[q]].deadline

\* The heap is in order around the vacancy, and what goes into it fits.
Holed(g) ==
    \A p \in DOMAIN g.heap \ {1, g.pos} :
        /\ p \div 2 # g.pos => Late(g, p \div 2) <= Late(g, p)
        /\ p \div 2 = g.pos /\ g.pos > 1 => Late(g, g.pos \div 2) <= Late(g, p)
Below(g, v) == \A p \in DOMAIN g.heap \ {1} : p \div 2 = g.pos => v <= Late(g, p)
Above(g, v) == g.pos > 1 => Late(g, g.pos \div 2) <= v

\* Nothing is changed in slots but places within the heap.
Replaced(old, new) ==
    \A i \in DOMAIN old :
        /\ new[i].deadline = old[i].deadline /\ new[i].seq = old[i].seq
        /\ new[i].callback = old[i].callback
        /\ new[i].heapIndex = 0 <=> old[i].heapIndex = 0

\* Heap and slots without a vacancy.
Whole(heap, slots) ==
    /\ HeapInOrder(heap, slots)
    /\ \A i \in DOMAIN slots : slots[i].heapIndex # 0 =>
          slots[i].heapIndex \in DOMAIN heap /\ heap[slots[i].heapIndex] = i

-----------------------------------------------------------------------------
(* Numbers, and loops that come to rest.                                     *)

LEMMA LeastNatural ==
    ASSUME NEW S, S \subseteq Nat, S # {}
    PROVE  \E n \in S : \A m \in S : n <= m
<1>1. PICK n \in S : \A m \in S : ~ (<<m, n>> \in OpToRel(<, Nat))
  BY NatLessThanWellFounded, WFMin, Zenon
<1>2. ASSUME NEW m \in S PROVE ~ (m < n)
  BY <1>1, Zenon DEF OpToRel
<1>3. \A m \in S : n <= m
  BY <1>2
<1> QED BY <1>3

LEMMA Halves ==
    ASSUME NEW p \in Nat
    PROVE  /\ p \div 2 \in Nat
           /\ p >= 2 => p \div 2 >= 1 /\ p \div 2 < p
           /\ \A q \in Nat : q \div 2 = p <=> q = 2 * p \/ q = 2 * p + 1
  OBVIOUS

\* A loop that comes nearer to its end in each turn or does nothing, and its turns.
Nearing(D, Step, rank, h, size) ==
    /\ Step \in [D -> D] /\ rank \in [D -> Nat] /\ h \in D /\ size \in Nat
    /\ rank[h] < size /\ \A g \in D : Step[g] = g \/ rank[Step[g]] < rank[g]
Following(f, D, Step, h, size) ==
    f[0] = h /\ \A n \in 1 .. size : f[n - 1] \in D => f[n] = Step[f[n - 1]]
Turns(f, Step, h, size) == f = [n \in 0 .. size |-> IF n = 0 THEN h ELSE Step[f[n - 1]]]

\* A loop that comes nearer to its end in each turn, or does nothing, has come to rest
\* after as many turns as it can come nearer.
LEMMA ComesToRest ==
    ASSUME NEW D, NEW Step, NEW rank, NEW h, NEW size, Nearing(D, Step, rank, h, size)
    PROVE  \E f : Turns(f, Step, h, size) /\ \A n \in 0 .. size : f[n] \in D
<1>0. /\ Step \in [D -> D] /\ rank \in [D -> Nat] /\ h \in D /\ size \in Nat
      /\ rank[h] < size /\ \A g \in D : Step[g] = g \/ rank[Step[g]] < rank[g]
  BY DEF Nearing
<1> USE <1>0
<1> DEFINE Good(m) == \E f : /\ f = [n \in 0 .. m |-> IF n = 0 THEN h ELSE Step[f[n - 1]]]
                             /\ \A n \in 0 .. m : f[n] \in D
                             /\ Step[f[m]] = f[m] \/ rank[f[m]] + m <= rank[h]
           Bad == {m \in Nat : ~ Good(m)}
<1>1. Good(0)
  <2> DEFINE f == [n \in 0 .. 0 |-> h]
  <2>1. f = [n \in 0 .. 0 |-> IF n = 0 THEN h ELSE Step[f[n - 1]]]
    OBVIOUS
  <2>2. (\A n \in 0 .. 0 : f[n] \in D) /\ f[0] = h
    OBVIOUS
  <2>3. rank[h] + 0 <= rank[h]
    OBVIOUS
  <2> HIDE DEF f
  <2> QED BY <2>1, <2>2, <2>3
<1>2. ASSUME NEW m \in Nat, Good(m) PROVE Good(m + 1)
  <2>1. PICK g : /\ g = [n \in 0 .. m |-> IF n = 0 THEN h ELSE Step[g[n - 1]]]
                 /\ \A n \in 0 .. m : g[n] \in D
                 /\ Step[g[m]] = g[m] \/ rank[g[m]] + m <= rank[h]
    BY <1>2
  <2> DEFINE f == [n \in 0 .. m + 1 |-> IF n = 0 THEN h ELSE Step[g[n - 1]]]
  <2>2. \A n \in 0 .. m : f[n] = g[n]
    <3>1. \A n \in 0 .. m : g[n] = IF n = 0 THEN h ELSE Step[g[n - 1]]
      BY <2>1
    <3>2. \A n \in 0 .. m : n \in 0 .. m + 1
      OBVIOUS
    <3>3. \A n \in 0 .. m : f[n] = IF n = 0 THEN h ELSE Step[g[n - 1]]
      BY <3>2
    <3> QED BY <3>1, <3>3
  <2>3. \A n \in 0 .. m + 1 : n # 0 => n - 1 \in 0 .. m
    OBVIOUS
  <2>4. f = [n \in 0 .. m + 1 |-> IF n = 0 THEN h ELSE Step[f[n - 1]]]
    BY <2>2, <2>3
  <2>5. f[m + 1] = Step[g[m]] /\ g[m] \in D /\ Step[g[m]] \in D
    BY <2>1
  <2>6. \A n \in 0 .. m + 1 : f[n] \in D
    <3>1. \A n \in 0 .. m + 1 : n = m + 1 \/ n \in 0 .. m
      OBVIOUS
    <3> HIDE DEF f
    <3> QED BY <2>1, <2>2, <2>5, <3>1
  <2> HIDE DEF f
  <2>7. Step[f[m + 1]] = f[m + 1] \/ rank[f[m + 1]] + (m + 1) <= rank[h]
    <3>1. CASE Step[g[m]] = g[m]
      BY <2>5, <3>1
    <3>2. CASE Step[g[m]] # g[m]
      <4>1. rank[Step[g[m]]] < rank[g[m]] /\ rank[g[m]] + m <= rank[h]
        BY <2>1, <2>5, <3>2
      <4>2. rank[Step[g[m]]] \in Nat /\ rank[g[m]] \in Nat /\ rank[h] \in Nat
        BY <2>5
      <4>3. rank[Step[g[m]]] + (m + 1) <= rank[h]
        BY <4>1, <4>2
      <4> QED BY <2>5, <4>3
    <3> QED BY <3>1, <3>2
  <2> QED BY <2>4, <2>6, <2>7
<1> HIDE DEF Good
<1>3. Bad = {}
  <2>1. SUFFICES ASSUME Bad # {} PROVE FALSE
    OBVIOUS
  <2>2. PICK m \in Bad : \A k \in Bad : m <= k
    BY <2>1, LeastNatural
  <2>3. m \in Nat /\ ~ Good(m) /\ m # 0
    BY <1>1, <2>2
  <2>4. m - 1 \in Nat /\ (m - 1) + 1 = m /\ ~ (m <= m - 1)
    BY <2>3
  <2>5. Good(m - 1)
    BY <2>2, <2>4
  <2>6. Good((m - 1) + 1)
    BY <1>2, <2>4, <2>5
  <2> QED BY <2>3, <2>4, <2>6
<1>4. Good(size)
  BY <1>3
<1>5. PICK f : /\ f = [n \in 0 .. size |-> IF n = 0 THEN h ELSE Step[f[n - 1]]]
               /\ \A n \in 0 .. size : f[n] \in D
               /\ Step[f[size]] = f[size] \/ rank[f[size]] + size <= rank[h]
  BY <1>4 DEF Good
<1>6. rank[f[size]] \in Nat /\ rank[h] \in Nat
  <2>1. size \in 0 .. size
    OBVIOUS
  <2> QED BY <1>5, <2>1
<1>7. ~ (rank[f[size]] + size <= rank[h])
  BY <1>6
<1> QED BY <1>5, <1>7 DEF Turns

\* So does any loop whose turns are these.
LEMMA RestsAnyway ==
    ASSUME NEW D, NEW Step, NEW rank, NEW h, NEW size, Nearing(D, Step, rank, h, size),
           NEW f, Following(f, D, Step, h, size)
    PROVE  f[size] \in D /\ Step[f[size]] = f[size]
<1>0. /\ Step \in [D -> D] /\ rank \in [D -> Nat] /\ h \in D /\ size \in Nat
      /\ rank[h] < size /\ \A g \in D : Step[g] = g \/ rank[Step[g]] < rank[g]
  BY DEF Nearing
<1> USE <1>0 DEF Following
<1> DEFINE Good(n) == f[n] \in D /\ (Step[f[n]] = f[n] \/ rank[f[n]] + n <= rank[h])
           Bad == {n \in 0 .. size : ~ Good(n)}
<1>1. Good(0)
  <2>1. rank[h] + 0 <= rank[h]
    OBVIOUS
  <2> QED BY <2>1
<1>2. ASSUME NEW n \in 1 .. size, Good(n - 1) PROVE Good(n)
  <2> DEFINE g == f[n - 1]
  <2>1. g \in D /\ f[n] = Step[g] /\ Step[g] \in D /\ rank[g] \in Nat /\ rank[Step[g]] \in Nat
        /\ rank[h] \in Nat
    BY <1>2
  <2>2. Step[g] = g \/ rank[g] + (n - 1) <= rank[h]
    BY <1>2
  <2>3. CASE Step[g] = g
    <3>1. f[n] = g
      BY <2>1, <2>3
    <3> HIDE DEF g
    <3> QED BY <2>1, <2>3, <3>1
  <2>4. CASE Step[g] # g
    <3>1. rank[Step[g]] < rank[g]
      BY <2>1, <2>4
    <3> HIDE DEF g
    <3>2. rank[Step[g]] + n <= rank[h]
      <4>1. rank[g] + (n - 1) <= rank[h]
        BY <2>2, <2>4
      <4> QED BY <2>1, <3>1, <4>1
    <3> QED BY <2>1, <3>2
  <2> QED BY <2>3, <2>4
<1> HIDE DEF Good
<1>3. Bad = {}
  <2>1. SUFFICES ASSUME Bad # {} PROVE FALSE
    OBVIOUS
  <2>2. PICK n \in Bad : \A k \in Bad : n <= k
    <3>1. Bad \subseteq Nat
      OBVIOUS
    <3> QED BY <2>1, <3>1, LeastNatural
  <2>3. n \in 1 .. size /\ ~ Good(n)
    BY <1>1, <2>2
  <2>4. n - 1 \in 0 .. size /\ ~ (n <= n - 1)
    BY <2>3
  <2>5. Good(n - 1)
    BY <2>2, <2>4
  <2> QED BY <1>2, <2>3, <2>5
<1>4. Good(size)
  BY <1>3
<1>5. f[size] \in D /\ (Step[f[size]] = f[size] \/ rank[f[size]] + size <= rank[h])
  BY <1>4 DEF Good
<1>6. rank[f[size]] \in Nat /\ rank[h] \in Nat
  BY <1>5
<1>7. ~ (rank[f[size]] + size <= rank[h])
  BY <1>6
<1> QED BY <1>5, <1>7 DEF Turns

-----------------------------------------------------------------------------
(* One move.                                                                 *)

LEMMA VacantFields ==
    ASSUME NEW n \in Nat, NEW m \in Nat, NEW g \in Vacant(n, m)
    PROVE  /\ DOMAIN g.heap = 1 .. n /\ DOMAIN g.slots = 1 .. m /\ g.pos \in 1 .. n
           /\ \A q \in 1 .. n : g.heap[q] \in 1 .. m
           /\ \A i \in 1 .. m : /\ g.slots[i] \in Slot /\ g.slots[i].deadline \in Nat
                                /\ g.slots[i].heapIndex \in Nat
           /\ \A q \in 1 .. n : Late(g, q) \in Nat
  BY DEF Vacant, Slot, Late

\* An entry moves into the vacancy.
LEMMA ShiftFacts ==
    ASSUME NEW n \in Nat, NEW m \in Nat, NEW g \in Vacant(n, m), NEW t, Knows(g, t),
           NEW q \in 1 .. n, q # g.pos
    PROVE  /\ Shift(g, q) \in Vacant(n, m) /\ Shift(g, q).pos = q
           /\ Knows(Shift(g, q), t)
           /\ Replaced(g.slots, Shift(g, q).slots)
           /\ \A r \in 1 .. n : Late(Shift(g, q), r) = IF r = g.pos THEN Late(g, q) ELSE Late(g, r)
<1> DEFINE new == Shift(g, q)
           s == g.heap[q]
           heap == [g.heap EXCEPT ![g.pos] = s]
           slot == [g.slots[s] EXCEPT !.heapIndex = g.pos]
           slots == [g.slots EXCEPT ![s] = slot]
<1>1. /\ DOMAIN g.heap = 1 .. n /\ DOMAIN g.slots = 1 .. m /\ g.pos \in 1 .. n
      /\ s \in 1 .. m /\ g.heap \in [1 .. n -> 1 .. m] /\ g.slots \in [1 .. m -> Slot]
      /\ \A r \in 1 .. n : g.heap[r] \in 1 .. m
  BY DEF Vacant
<1>2. new.heap = heap /\ new.slots = slots /\ new.pos = q /\ new = [heap |-> heap, slots |-> slots, pos |-> q]
  BY DEF Shift
<1>3. g.slots[s] \in Slot /\ g.slots[s].heapIndex = q /\ s # t
  BY <1>1 DEF Knows
<1>4. /\ slot \in Slot /\ slot.heapIndex = g.pos /\ slot.deadline = g.slots[s].deadline
      /\ slot.seq = g.slots[s].seq /\ slot.callback = g.slots[s].callback
  <2> DEFINE x == g.slots[s]
             k == g.pos
  <2>1. x \in Slot /\ k \in Nat /\ slot = [x EXCEPT !.heapIndex = k]
    BY <1>1, <1>3
  <2> HIDE DEF x, k, slot
  <2>2. /\ slot \in Slot /\ slot.heapIndex = k /\ slot.deadline = x.deadline
        /\ slot.seq = x.seq /\ slot.callback = x.callback
    BY <2>1 DEF Slot
  <2> QED BY <2>2 DEF x, k
<1> HIDE DEF slot, new
<1>5. /\ heap \in [1 .. n -> 1 .. m] /\ heap[g.pos] = s
      /\ \A r \in 1 .. n \ {g.pos} : heap[r] = g.heap[r]
  BY <1>1
<1>6. /\ slots \in [1 .. m -> Slot] /\ slots[s] = slot
      /\ \A i \in 1 .. m \ {s} : slots[i] = g.slots[i]
  BY <1>1, <1>4
<1> HIDE DEF s, heap, slots
<1>7. new \in Vacant(n, m)
  BY <1>2, <1>5, <1>6 DEF Vacant
<1>8. \A r \in 1 .. n \ {g.pos} : g.heap[r] # t /\ g.slots[g.heap[r]].heapIndex = r
  BY <1>1 DEF Knows
<1>9. Knows(new, t)
  <2>1. ASSUME NEW r \in 1 .. n \ {q} PROVE heap[r] # t /\ slots[heap[r]].heapIndex = r
    <3>1. CASE r = g.pos
      BY <1>3, <1>4, <1>5, <1>6, <3>1
    <3>2. CASE r # g.pos
      <4>1. heap[r] = g.heap[r] /\ g.heap[r] # t /\ g.slots[g.heap[r]].heapIndex = r
        BY <1>5, <1>8, <3>2
      <4>2. g.heap[r] # s /\ g.heap[r] \in 1 .. m
        BY <1>1, <1>3, <4>1
      <4> QED BY <1>6, <4>1, <4>2
    <3> QED BY <3>1, <3>2
  <2>2. ASSUME NEW i \in 1 .. m \ {t}, slots[i].heapIndex # 0
        PROVE  slots[i].heapIndex \in 1 .. n \ {q} /\ heap[slots[i].heapIndex] = i
    <3>1. CASE i = s
      BY <1>1, <1>4, <1>5, <1>6, <3>1
    <3>2. CASE i # s
      <4>1. slots[i] = g.slots[i]
        BY <1>6, <3>2
      <4>2. slots[i].heapIndex \in 1 .. n \ {g.pos} /\ g.heap[slots[i].heapIndex] = i
        BY <1>1, <2>2, <4>1 DEF Knows
      <4>3. slots[i].heapIndex # q
        BY <3>2, <4>2 DEF s
      <4> QED BY <1>5, <4>2, <4>3
    <3> QED BY <3>1, <3>2
  <2>3. DOMAIN new.heap = 1 .. n /\ DOMAIN new.slots = 1 .. m
    BY <1>2, <1>5, <1>6
  <2> QED BY <1>2, <2>1, <2>2, <2>3 DEF Knows
<1>10. Replaced(g.slots, new.slots)
  <2>1. ASSUME NEW i \in 1 .. m
        PROVE  /\ slots[i].deadline = g.slots[i].deadline /\ slots[i].seq = g.slots[i].seq
               /\ slots[i].callback = g.slots[i].callback
               /\ slots[i].heapIndex = 0 <=> g.slots[i].heapIndex = 0
    <3>1. CASE i = s
      <4>1. slots[i].heapIndex = g.pos /\ g.slots[i].heapIndex = q
        BY <1>3, <1>4, <1>6, <3>1
      <4>2. g.pos # 0 /\ q # 0
        BY <1>1
      <4> QED BY <1>4, <1>6, <3>1, <4>1, <4>2
    <3>2. CASE i # s
      BY <1>6, <3>2
    <3> QED BY <3>1, <3>2
  <2> QED BY <1>1, <1>2, <2>1 DEF Replaced
<1>11. ASSUME NEW r \in 1 .. n
       PROVE  Late(new, r) = IF r = g.pos THEN Late(g, q) ELSE Late(g, r)
  <2>1. \A i \in 1 .. m : slots[i].deadline = g.slots[i].deadline
    BY <1>1, <1>2, <1>10 DEF Replaced
  <2>2. CASE r = g.pos
    BY <1>1, <1>2, <1>5, <2>1, <2>2 DEF Late, s
  <2>3. CASE r # g.pos
    BY <1>1, <1>2, <1>5, <2>1, <2>3 DEF Late
  <2> QED BY <2>2, <2>3
<1> QED BY <1>2, <1>7, <1>9, <1>10, <1>11 DEF new

LEMMA ReplacedTwice ==
    ASSUME NEW a, NEW b, NEW c, DOMAIN a = DOMAIN b, Replaced(a, b), Replaced(b, c)
    PROVE  Replaced(a, c)
  BY DEF Replaced

\* A later parent moves down into the vacancy.
LEMMA ShiftUp ==
    ASSUME NEW n \in Nat, NEW m \in Nat, NEW g \in Vacant(n, m), NEW t, Knows(g, t), Holed(g),
           NEW v \in Nat, g.pos > 1, v < Late(g, g.pos \div 2)
    PROVE  LET new == Shift(g, g.pos \div 2)
           IN  /\ new \in Vacant(n, m) /\ new.pos = g.pos \div 2 /\ new.pos < g.pos
               /\ Knows(new, t) /\ Replaced(g.slots, new.slots)
               /\ Holed(new) /\ Below(new, v)
<1> DEFINE pos == g.pos
           q == pos \div 2
           new == Shift(g, q)
           Old(p) == Late(g, p)
           New(p) == Late(new, p)
<1>1. /\ DOMAIN g.heap = 1 .. n /\ pos \in 1 .. n /\ \A p \in 1 .. n : Old(p) \in Nat
  BY VacantFields
<1>2. q \in 1 .. n /\ q < pos
  BY <1>1, Halves
<1>3. /\ new \in Vacant(n, m) /\ new.pos = q /\ Knows(new, t) /\ Replaced(g.slots, new.slots)
      /\ \A p \in 1 .. n : New(p) = IF p = pos THEN Old(q) ELSE Old(p)
  BY <1>2, ShiftFacts
<1>4. DOMAIN new.heap = 1 .. n
  BY <1>3, VacantFields
<1>5. \A p \in 2 .. n : p \div 2 \in 1 .. n /\ p \div 2 < p
  BY Halves
<1>6. \A p \in 1 .. n \ {1, pos} : p \in 2 .. n /\ (p \div 2 # pos => Old(p \div 2) <= Old(p))
                                   /\ (p \div 2 = pos => Old(q) <= Old(p))
  BY <1>1 DEF Holed
<1>7. v < Old(q)
  OBVIOUS
<1> HIDE DEF q, new, pos, Old, New
<1>8. ASSUME NEW p \in 1 .. n \ {1, q}
      PROVE  /\ p \div 2 # q => New(p \div 2) <= New(p)
             /\ p \div 2 = q /\ q > 1 => New(q \div 2) <= New(p)
             /\ p \div 2 = q => v <= New(p)
  <2>0. p \in 2 .. n /\ p \div 2 \in 1 .. n /\ p \div 2 < p
    BY <1>5
  <2>1. CASE p = pos
    <3>1. p \div 2 = q /\ New(p) = Old(q)
      BY <1>3, <2>1 DEF q
    <3>2. ASSUME q > 1 PROVE New(q \div 2) <= New(p)
      <4>1. q \in 2 .. n
        BY <1>2, <3>2
      <4>2. q \div 2 \in 1 .. n /\ q \div 2 < q
        BY <1>5, <4>1
      <4>3. q \div 2 # pos /\ q \in 1 .. n \ {1, pos}
        BY <1>1, <1>2, <4>1, <4>2
      <4>4. Old(q \div 2) <= Old(q)
        BY <1>6, <4>3
      <4>5. New(q \div 2) = Old(q \div 2)
        BY <1>3, <4>2, <4>3
      <4> QED BY <3>1, <4>4, <4>5
    <3>3. v <= New(p)
      BY <1>1, <1>2, <1>7, <3>1
    <3> QED BY <3>1, <3>2, <3>3
  <2>2. CASE p # pos /\ p \div 2 # q
    <3>1. New(p) = Old(p)
      BY <1>3, <2>2
    <3>2. CASE p \div 2 = pos
      <4>1. New(p \div 2) = Old(q) /\ Old(q) <= Old(p)
        BY <1>3, <1>6, <2>0, <2>2, <3>2
      <4> QED BY <2>2, <3>1, <4>1
    <3>3. CASE p \div 2 # pos
      <4>1. New(p \div 2) = Old(p \div 2) /\ Old(p \div 2) <= Old(p)
        BY <1>3, <1>6, <2>0, <2>2, <3>3
      <4> QED BY <2>2, <3>1, <4>1
    <3> QED BY <3>2, <3>3
  <2>3. CASE p # pos /\ p \div 2 = q
    <3>1. New(p) = Old(p)
      BY <1>3, <2>3
    <3>2. p \div 2 # pos
      BY <1>1, <1>2, <2>3
    <3>3. Old(q) <= Old(p)
      BY <1>6, <2>0, <2>3, <3>2
    <3>4. v <= New(p)
      BY <1>1, <1>2, <1>7, <3>1, <3>3
    <3>5. ASSUME q > 1 PROVE New(q \div 2) <= New(p)
      <4>1. q \in 2 .. n
        BY <1>2, <3>5
      <4>2. q \div 2 \in 1 .. n /\ q \div 2 < q
        BY <1>5, <4>1
      <4>3. q \div 2 # pos /\ q \in 1 .. n \ {1, pos}
        BY <1>1, <1>2, <4>1, <4>2
      <4>4. Old(q \div 2) <= Old(q)
        BY <1>6, <4>3
      <4>5. New(q \div 2) = Old(q \div 2)
        BY <1>3, <4>2, <4>3
      <4>6. Old(q \div 2) \in Nat /\ Old(q) \in Nat /\ Old(p) \in Nat
        BY <1>1, <1>2, <4>2
      <4> QED BY <3>1, <3>3, <4>4, <4>5, <4>6
    <3> QED BY <2>3, <3>4, <3>5
  <2> QED BY <2>1, <2>2, <2>3
<1>9. Holed(new)
  BY <1>3, <1>4, <1>8 DEF Holed, New
<1>10. Below(new, v)
  <2>1. ASSUME NEW p \in 1 .. n \ {1}, p \div 2 = q PROVE v <= New(p)
    <3>1. p # q
      BY <1>5, <2>1
    <3> QED BY <1>8, <2>1, <3>1
  <2> QED BY <1>3, <1>4, <2>1 DEF Below, New
<1> QED BY <1>2, <1>3, <1>9, <1>10 DEF new, q, pos

\* The child that is due first moves up into the vacancy.
LEMMA ShiftDown ==
    ASSUME NEW n \in Nat, NEW m \in Nat, NEW g \in Vacant(n, m), NEW t, Knows(g, t), Holed(g),
           NEW v \in Nat, 2 * g.pos <= n, Late(g, SmallerChild(g)) < v
    PROVE  LET new == Shift(g, SmallerChild(g))
           IN  /\ new \in Vacant(n, m) /\ new.pos = SmallerChild(g) /\ g.pos < new.pos
               /\ Knows(new, t) /\ Replaced(g.slots, new.slots)
               /\ Holed(new) /\ Above(new, v)
<1> DEFINE pos == g.pos
           q == SmallerChild(g)
           new == Shift(g, q)
           Old(p) == Late(g, p)
           New(p) == Late(new, p)
<1>1. /\ DOMAIN g.heap = 1 .. n /\ pos \in 1 .. n /\ \A p \in 1 .. n : Old(p) \in Nat
  BY VacantFields
<1>2. Len(g.heap) = n /\ 2 * pos \in 1 .. n
  <2> DEFINE T == 1 .. m
             f == g.heap
  <2>1. f \in [1 .. n -> T]
    BY DEF Vacant
  <2> HIDE DEF T, f
  <2>2. f \in Seq(T)
    BY <2>1, SeqDef
  <2>3. Len(f) = n
    BY <2>1, <2>2, LenProperties
  <2>4. 2 * pos \in 1 .. n
    BY <1>1
  <2> QED BY <2>3, <2>4 DEF f
<1>3. q = IF 2 * pos + 1 <= n /\ Old(2 * pos + 1) < Old(2 * pos) THEN 2 * pos + 1 ELSE 2 * pos
  BY <1>2 DEF SmallerChild, Late
<1> HIDE DEF q
<1>4. q \in 2 .. n /\ q > pos /\ q \div 2 = pos
  <2> HIDE DEF Old
  <2>1. q = 2 * pos \/ (q = 2 * pos + 1 /\ 2 * pos + 1 <= n)
    BY <1>3, Zenon
  <2>2. q \in 2 .. n /\ q > pos /\ q \in Nat /\ pos \in Nat
    <3> HIDE DEF pos
    <3> QED BY <1>1, <1>2, <2>1
  <2> QED BY <2>1, <2>2, Halves
<1>late. Old(q) \in Nat
  BY <1>1, <1>4
<1>5. \A p \in 2 .. n : p \div 2 = pos => Old(q) <= Old(p)
  <2>1. ASSUME NEW p \in 2 .. n, p \div 2 = pos PROVE Old(q) <= Old(p)
    <3>1. p = 2 * pos \/ p = 2 * pos + 1
      <4>1. p \in Nat /\ pos \in Nat
        BY <1>1
      <4> HIDE DEF pos
      <4> QED BY <2>1, <4>1, Halves
    <3>2. Old(p) \in Nat /\ Old(2 * pos) \in Nat
      BY <1>1, <1>2
    <3>3. 2 * pos + 1 <= n \/ p # 2 * pos + 1
      BY <2>1
    <3> DEFINE x == Old(2 * pos)
               y == Old(2 * pos + 1)
    <3>4. /\ q = IF 2 * pos + 1 <= n /\ y < x THEN 2 * pos + 1 ELSE 2 * pos
          /\ Old(p) = x \/ Old(p) = y
          /\ x \in Nat /\ Old(p) \in Nat
      BY <1>3, <3>1, <3>2
    <3>5. CASE q = 2 * pos + 1
      <4>1. Old(q) = y
        BY <3>5
      <4>2. y < x
        <5>1. 2 * pos + 1 # 2 * pos
          BY <1>1
        <5> QED BY <3>4, <3>5, <5>1, Zenon
      <4> HIDE DEF x, y, Old
      <4>3. y \in Nat
        BY <1>1, <1>late, <4>1
      <4> QED BY <3>4, <4>1, <4>2, <4>3
    <3>6. CASE q # 2 * pos + 1
      <4>1. q = 2 * pos /\ ~ (2 * pos + 1 <= n /\ y < x)
        BY <3>4, <3>6, Zenon
      <4>2. Old(q) = x
        BY <4>1
      <4>3. CASE p = 2 * pos
        BY <3>4, <4>2, <4>3
      <4>4. CASE p = 2 * pos + 1
        <5>1. Old(p) = y /\ ~ (y < x)
          BY <3>3, <4>1, <4>4
        <5> HIDE DEF x, y, Old
        <5> QED BY <3>4, <4>2, <5>1
      <4> QED BY <3>1, <4>3, <4>4
    <3> QED BY <3>5, <3>6
  <2> QED BY <2>1
<1>6. /\ new \in Vacant(n, m) /\ new.pos = q /\ Knows(new, t) /\ Replaced(g.slots, new.slots)
      /\ \A p \in 1 .. n : New(p) = IF p = pos THEN Old(q) ELSE Old(p)
  <2>1. q \in 1 .. n /\ q # g.pos
    BY <1>1, <1>4
  <2> QED BY <2>1, ShiftFacts
<1>7. DOMAIN new.heap = 1 .. n
  BY <1>6, VacantFields
<1>8. \A p \in 2 .. n : p \div 2 \in 1 .. n /\ p \div 2 < p
  BY Halves
<1>9. \A p \in 1 .. n \ {1, pos} : p \in 2 .. n /\ (p \div 2 # pos => Old(p \div 2) <= Old(p))
                              /\ (p \div 2 = pos /\ pos > 1 => Old(pos \div 2) <= Old(p))
  <2>1. \A p \in (1 .. n) \ {1, pos} : p \in 2 .. n
    OBVIOUS
  <2>2. \A p \in (1 .. n) \ {1, pos} :
            /\ (p \div 2 # pos => Old(p \div 2) <= Old(p))
            /\ (p \div 2 = pos /\ pos > 1 => Old(pos \div 2) <= Old(p))
    BY <1>1, Zenon DEF Holed
  <2> QED BY <2>1, <2>2, Zenon
<1>10. Old(q) < v
  BY DEF q
<1> HIDE DEF new, pos, Old, New
<1>11. ASSUME NEW p \in 1 .. n \ {1, q}
       PROVE  /\ p \div 2 # q => New(p \div 2) <= New(p)
              /\ p \div 2 = q /\ q > 1 => New(q \div 2) <= New(p)
  <2>0. p \in 2 .. n /\ p \div 2 \in 1 .. n /\ p \div 2 < p
    BY <1>8
  <2>1. CASE p = pos
    <3>1. p \div 2 # q /\ p \div 2 # pos
      BY <1>1, <1>4, <2>0, <2>1
    <3>2. New(p) = Old(q) /\ New(p \div 2) = Old(p \div 2)
      BY <1>6, <2>0, <2>1, <3>1
    <3>3. pos > 1 /\ q \in 1 .. n \ {1, pos}
      BY <1>1, <1>4, <2>0, <2>1
    <3>4. Old(pos \div 2) <= Old(q)
      BY <1>4, <1>9, <3>3
    <3> QED BY <2>1, <3>1, <3>2, <3>4
  <2>2. CASE p # pos /\ p \div 2 = pos
    <3>1. New(p) = Old(p) /\ New(p \div 2) = Old(q) /\ Old(q) <= Old(p)
      BY <1>5, <1>6, <2>0, <2>2
    <3>2. p \div 2 # q
      BY <1>1, <1>4, <2>2
    <3> QED BY <3>1, <3>2
  <2>3. CASE p # pos /\ p \div 2 # pos
    <3>1. /\ New(p) = Old(p) /\ New(p \div 2) = Old(p \div 2) /\ Old(p \div 2) <= Old(p)
      BY <1>6, <1>9, <2>0, <2>3
    <3>2. New(q \div 2) = Old(q)
      BY <1>1, <1>4, <1>6
    <3> QED BY <3>1, <3>2
  <2> QED BY <2>1, <2>2, <2>3
<1>12. Holed(new)
  BY <1>6, <1>7, <1>11 DEF Holed, New
<1>13. Above(new, v)
  <2>1. New(q \div 2) = Old(q)
    BY <1>1, <1>4, <1>6
  <2>2. Old(q) \in Nat
    BY <1>1, <1>4
  <2>3. New(q \div 2) <= v
    BY <1>10, <2>1, <2>2
  <2> QED BY <1>6, <2>3 DEF Above, New
<1> QED BY <1>4, <1>6, <1>12, <1>13 DEF new, pos, q

-----------------------------------------------------------------------------
(* The loops.                                                                *)

LEMMA HeapLength ==
    ASSUME NEW n \in Nat, NEW m \in Nat, NEW g \in Vacant(n, m)
    PROVE  Len(g.heap) = n /\ g.heap \in Seq(1 .. m)
<1> DEFINE T == 1 .. m
           f == g.heap
<1>1. f \in [1 .. n -> T]
  BY DEF Vacant
<1> HIDE DEF T, f
<1>2. f \in Seq(T)
  BY <1>1, SeqDef
<1>3. Len(f) = n
  BY <1>1, <1>2, LenProperties
<1> QED BY <1>2, <1>3 DEF f, T

\* Climbing ends below an earlier parent; where it moved at all, what comes after
\* the vacancy is later.
LEMMA ClimbFacts ==
    ASSUME NEW n \in Nat, NEW m \in Nat, NEW g \in Vacant(n, m), NEW t, Knows(g, t), Holed(g),
           NEW v \in Nat
    PROVE  LET up == Climb(g, v)
           IN  /\ up \in Vacant(n, m) /\ Knows(up, t) /\ Replaced(g.slots, up.slots)
               /\ Holed(up) /\ Above(up, v)
               /\ up = g \/ (up.pos < g.pos /\ Below(up, v))
<1> DEFINE Good(x) == /\ Knows(x, t) /\ Holed(x) /\ Replaced(g.slots, x.slots)
                      /\ x = g \/ (x.pos < g.pos /\ Below(x, v))
           D == {x \in Vacant(n, m) : Good(x)}
           Step == [x \in D |-> OneUp(x, v)]
           rank == [x \in D |-> x.pos - 1]
<1>1. Replaced(g.slots, g.slots)
  BY DEF Replaced
<1>2. g \in D
  BY <1>1
<1>3. ASSUME NEW x \in D
      PROVE  /\ OneUp(x, v) \in D
             /\ (OneUp(x, v) = x /\ Above(x, v)) \/ OneUp(x, v).pos < x.pos
  <2>1. /\ x \in Vacant(n, m) /\ Knows(x, t) /\ Holed(x) /\ Replaced(g.slots, x.slots)
        /\ x = g \/ (x.pos < g.pos /\ Below(x, v))
    OBVIOUS
  <2>2. x.pos \in 1 .. n /\ g.pos \in 1 .. n /\ DOMAIN x.slots = 1 .. m /\ DOMAIN g.slots = 1 .. m
        /\ \A q \in 1 .. n : Late(x, q) \in Nat
    BY <2>1, VacantFields
  <2> DEFINE moves == x.pos > 1 /\ v < Late(x, x.pos \div 2)
             new == Shift(x, x.pos \div 2)
  <2>3. OneUp(x, v) = IF moves THEN new ELSE x
    BY DEF OneUp, Late
  <2>4. CASE moves
    <3>1. /\ new \in Vacant(n, m) /\ new.pos < x.pos /\ new.pos = x.pos \div 2
          /\ Knows(new, t) /\ Replaced(x.slots, new.slots) /\ Holed(new) /\ Below(new, v)
      BY <2>1, <2>4, ShiftUp
    <3> HIDE DEF new
    <3>2. Replaced(g.slots, new.slots)
      BY <2>1, <2>2, <3>1, ReplacedTwice
    <3>3. new.pos \in 1 .. n
      BY <3>1, VacantFields
    <3>4. new.pos < g.pos
      BY <2>1, <2>2, <3>1, <3>3
    <3>5. new \in D
      BY <3>1, <3>2, <3>4
    <3> QED BY <2>3, <2>4, <3>1, <3>5
  <2>5. CASE ~ moves
    <3>1. OneUp(x, v) = x
      BY <2>3, <2>5
    <3>2. Above(x, v)
      <4>1. ASSUME x.pos > 1 PROVE Late(x, x.pos \div 2) <= v
        <5>1. x.pos \div 2 \in 1 .. n
          BY <2>2, <4>1, Halves
        <5>2. Late(x, x.pos \div 2) \in Nat /\ ~ (v < Late(x, x.pos \div 2))
          BY <2>2, <2>5, <4>1, <5>1
        <5> QED BY <5>2
      <4> QED BY <4>1 DEF Above
    <3> QED BY <3>1, <3>2
  <2> QED BY <2>4, <2>5
<1>4. \A x \in D : x.pos \in 1 .. n
  BY VacantFields
<1>5. Step \in [D -> D] /\ \A x \in D : Step[x] = OneUp(x, v)
  <2> HIDE DEF D
  <2> QED BY <1>3
<1>6. rank \in [D -> Nat] /\ \A x \in D : rank[x] = x.pos - 1
  <2> HIDE DEF D
  <2>1. \A x \in D : x.pos - 1 \in Nat
    BY <1>4
  <2> QED BY <2>1
<1>7. n \in Nat /\ rank[g] < n
  BY <1>2, <1>4, <1>6
<1> DEFINE E(f) == f = [k \in 0 .. n |-> IF k = 0 THEN g ELSE OneUp(f[k - 1], v)]
           turn == CHOOSE f : E(f)
<1>8. Climb(g, v) = turn[n]
  <2>1. Len(g.heap) = n
    BY HeapLength
  <2> QED BY <2>1 DEF Climb
<1> HIDE DEF D, Step, rank
<1>9. \A x \in D : Step[x] = x \/ rank[Step[x]] < rank[x]
  <2> TAKE x \in D
  <2>1. Step[x] \in D /\ (Step[x] = x \/ Step[x].pos < x.pos)
    BY <1>3, <1>5
  <2>2. x.pos \in 1 .. n /\ Step[x].pos \in 1 .. n
    BY <1>4, <2>1
  <2> QED BY <1>6, <2>1, <2>2
<1>near. Nearing(D, Step, rank, g, n)
  BY <1>2, <1>5, <1>6, <1>7, <1>9 DEF Nearing
<1>10. \E f : E(f)
  <2>1. PICK f : Turns(f, Step, g, n) /\ \A k \in 0 .. n : f[k] \in D
    BY <1>near, ComesToRest, Zenon
  <2>2. \A k \in 0 .. n : k # 0 => k - 1 \in 0 .. n
    OBVIOUS
  <2>3. \A k \in 0 .. n : k # 0 => Step[f[k - 1]] = OneUp(f[k - 1], v)
    BY <1>5, <2>1, <2>2
  <2> DEFINE h == [k \in 0 .. n |-> IF k = 0 THEN g ELSE OneUp(f[k - 1], v)]
  <2>4. f = h
    BY <2>1, <2>3 DEF Turns
  <2> QED BY <2>4
<1>11. E(turn)
  BY <1>10
<1> HIDE DEF turn
<1>12. turn[0] = g /\ \A k \in 1 .. n : turn[k] = OneUp(turn[k - 1], v)
  <2>1. \A k \in 0 .. n : turn[k] = IF k = 0 THEN g ELSE OneUp(turn[k - 1], v)
    BY <1>11
  <2>2. 0 \in 0 .. n /\ \A k \in 1 .. n : k \in 0 .. n /\ k # 0
    OBVIOUS
  <2> QED BY <2>1, <2>2
<1>13. \A k \in 1 .. n : turn[k - 1] \in D => turn[k] = Step[turn[k - 1]]
  BY <1>5, <1>12
<1>14. turn[n] \in D /\ Step[turn[n]] = turn[n]
  <2>1. Following(turn, D, Step, g, n)
    BY <1>12, <1>13 DEF Following
  <2> QED BY <1>near, <2>1, RestsAnyway
<1>15. Above(turn[n], v)
  <2>1. turn[n].pos \in 1 .. n
    BY <1>4, <1>14
  <2>2. ~ (turn[n].pos < turn[n].pos)
    BY <2>1
  <2> QED BY <1>3, <1>5, <1>14, <2>2
<1> QED BY <1>8, <1>14, <1>15 DEF D

\* Sinking ends above later children, and below what is earlier.
LEMMA SinkFacts ==
    ASSUME NEW n \in Nat, NEW m \in Nat, NEW g \in Vacant(n, m), NEW t, Knows(g, t), Holed(g),
           NEW v \in Nat, Above(g, v)
    PROVE  LET down == Sink(g, v)
           IN  /\ down \in Vacant(n, m) /\ Knows(down, t) /\ Replaced(g.slots, down.slots)
               /\ Holed(down) /\ Above(down, v) /\ Below(down, v)
<1> DEFINE Good(x) == /\ Knows(x, t) /\ Holed(x) /\ Replaced(g.slots, x.slots) /\ Above(x, v)
           D == {x \in Vacant(n, m) : Good(x)}
           Step == [x \in D |-> OneDown(x, v)]
           rank == [x \in D |-> n - x.pos]
<1>1. Replaced(g.slots, g.slots)
  BY DEF Replaced
<1>2. g \in D
  BY <1>1
<1>3. ASSUME NEW x \in D
      PROVE  /\ OneDown(x, v) \in D
             /\ (OneDown(x, v) = x /\ Below(x, v)) \/ OneDown(x, v).pos > x.pos
  <2>1. /\ x \in Vacant(n, m) /\ Knows(x, t) /\ Holed(x) /\ Replaced(g.slots, x.slots)
        /\ Above(x, v)
    OBVIOUS
  <2>2. /\ x.pos \in 1 .. n /\ DOMAIN x.slots = 1 .. m /\ DOMAIN g.slots = 1 .. m
        /\ DOMAIN x.heap = 1 .. n /\ Len(x.heap) = n
        /\ \A q \in 1 .. n : Late(x, q) \in Nat
    BY <2>1, VacantFields, HeapLength
  <2> DEFINE c == SmallerChild(x)
             moves == 2 * x.pos <= n /\ Late(x, c) < v
             new == Shift(x, c)
  <2>3. OneDown(x, v) = IF moves THEN new ELSE x
    BY <2>2 DEF OneDown, Late
  <2>4. CASE moves
    <3>1. /\ new \in Vacant(n, m) /\ x.pos < new.pos
          /\ Knows(new, t) /\ Replaced(x.slots, new.slots) /\ Holed(new) /\ Above(new, v)
      BY <2>1, <2>4, ShiftDown
    <3> HIDE DEF new
    <3>2. Replaced(g.slots, new.slots)
      BY <2>1, <2>2, <3>1, ReplacedTwice
    <3>3. new \in D
      BY <3>1, <3>2
    <3>4. new.pos > x.pos
      <4>1. new.pos \in 1 .. n
        BY <3>1, VacantFields
      <4> QED BY <2>2, <3>1, <4>1
    <3> QED BY <2>3, <2>4, <3>3, <3>4
  <2>5. CASE ~ moves
    <3>1. OneDown(x, v) = x
      BY <2>3, <2>5
    <3>2. Below(x, v)
      <4>1. ASSUME NEW p \in (1 .. n) \ {1}, p \div 2 = x.pos PROVE v <= Late(x, p)
        <5>1. p \in Nat /\ x.pos \in Nat
          BY <2>2
        <5>2. p = 2 * x.pos \/ p = 2 * x.pos + 1
          BY <4>1, <5>1, Halves
        <5>3. 2 * x.pos <= n /\ 2 * x.pos \in 1 .. n
          <6> DEFINE y == x.pos
          <6>1. y \in Nat /\ y >= 1 /\ p <= n /\ n \in Nat /\ (p = 2 * y \/ p = 2 * y + 1)
            BY <2>2, <5>1, <5>2
          <6> HIDE DEF y
          <6>2. 2 * y <= n /\ 2 * y \in 1 .. n
            BY <5>1, <6>1
          <6> QED BY <6>2 DEF y
        <5> DEFINE a == Late(x, 2 * x.pos)
                   b == Late(x, 2 * x.pos + 1)
        <5>4. c = IF 2 * x.pos + 1 <= n /\ b < a THEN 2 * x.pos + 1 ELSE 2 * x.pos
          BY <2>2 DEF SmallerChild, Late
        <5>5. a \in Nat /\ Late(x, p) \in Nat
          BY <2>2, <5>3
        <5>6. ~ (Late(x, c) < v)
          BY <2>5, <5>3
        <5> HIDE DEF c
        <5>7. CASE 2 * x.pos + 1 <= n /\ b < a
          <6>1. c = 2 * x.pos + 1 /\ Late(x, c) = b
            BY <5>4, <5>7
          <6>2. 2 * x.pos + 1 \in 1 .. n
            BY <2>2, <5>7
          <6>3. b \in Nat
            BY <2>2, <6>2
          <6>4. Late(x, p) = a \/ Late(x, p) = b
            BY <5>2
          <6>5. ~ (b < v)
            BY <5>6, <6>1
          <6> HIDE DEF a, b
          <6> QED BY <5>5, <5>7, <6>3, <6>4, <6>5
        <5>8. CASE ~ (2 * x.pos + 1 <= n /\ b < a)
          <6>1. c = 2 * x.pos /\ Late(x, c) = a
            BY <5>4, <5>8
          <6>2. CASE p = 2 * x.pos
            BY <5>5, <5>6, <6>1, <6>2
          <6>3. CASE p = 2 * x.pos + 1
            <7>1. Late(x, p) = b /\ ~ (b < a)
              BY <5>8, <6>3
            <7>2. ~ (a < v)
              BY <5>6, <6>1
            <7> HIDE DEF a, b
            <7> QED BY <5>5, <7>1, <7>2
          <6> QED BY <5>2, <6>2, <6>3
        <5> QED BY <5>7, <5>8
      <4> QED BY <2>2, <4>1 DEF Below
    <3> QED BY <3>1, <3>2
  <2> QED BY <2>4, <2>5
<1>4. \A x \in D : x.pos \in 1 .. n
  BY VacantFields
<1>5. Step \in [D -> D] /\ \A x \in D : Step[x] = OneDown(x, v)
  <2> HIDE DEF D
  <2> QED BY <1>3
<1>6. rank \in [D -> Nat] /\ \A x \in D : rank[x] = n - x.pos
  <2> HIDE DEF D
  <2>1. \A x \in D : n - x.pos \in Nat
    BY <1>4
  <2> QED BY <2>1
<1>7. n \in Nat /\ rank[g] < n
  BY <1>2, <1>4, <1>6
<1> DEFINE E(f) == f = [k \in 0 .. n |-> IF k = 0 THEN g ELSE OneDown(f[k - 1], v)]
           turn == CHOOSE f : E(f)
<1>8. Sink(g, v) = turn[n]
  <2>1. Len(g.heap) = n
    BY HeapLength
  <2> QED BY <2>1 DEF Sink
<1> HIDE DEF D, Step, rank
<1>9. \A x \in D : Step[x] = x \/ rank[Step[x]] < rank[x]
  <2> TAKE x \in D
  <2>1. Step[x] \in D /\ (Step[x] = x \/ Step[x].pos > x.pos)
    BY <1>3, <1>5
  <2>2. x.pos \in 1 .. n /\ Step[x].pos \in 1 .. n
    BY <1>4, <2>1
  <2> QED BY <1>6, <2>1, <2>2
<1>near. Nearing(D, Step, rank, g, n)
  BY <1>2, <1>5, <1>6, <1>7, <1>9 DEF Nearing
<1>10. \E f : E(f)
  <2>1. PICK f : Turns(f, Step, g, n) /\ \A k \in 0 .. n : f[k] \in D
    BY <1>near, ComesToRest, Zenon
  <2>2. \A k \in 0 .. n : k # 0 => k - 1 \in 0 .. n
    OBVIOUS
  <2>3. \A k \in 0 .. n : k # 0 => Step[f[k - 1]] = OneDown(f[k - 1], v)
    BY <1>5, <2>1, <2>2
  <2> DEFINE h == [k \in 0 .. n |-> IF k = 0 THEN g ELSE OneDown(f[k - 1], v)]
  <2>4. f = h
    BY <2>1, <2>3 DEF Turns
  <2> QED BY <2>4
<1>11. E(turn)
  BY <1>10
<1> HIDE DEF turn
<1>12. turn[0] = g /\ \A k \in 1 .. n : turn[k] = OneDown(turn[k - 1], v)
  <2>1. \A k \in 0 .. n : turn[k] = IF k = 0 THEN g ELSE OneDown(turn[k - 1], v)
    BY <1>11
  <2>2. 0 \in 0 .. n /\ \A k \in 1 .. n : k \in 0 .. n /\ k # 0
    OBVIOUS
  <2> QED BY <2>1, <2>2
<1>13. \A k \in 1 .. n : turn[k - 1] \in D => turn[k] = Step[turn[k - 1]]
  BY <1>5, <1>12
<1>14. turn[n] \in D /\ Step[turn[n]] = turn[n]
  <2>1. Following(turn, D, Step, g, n)
    BY <1>12, <1>13 DEF Following
  <2> QED BY <1>near, <2>1, RestsAnyway
<1>15. Below(turn[n], v)
  <2>1. turn[n].pos \in 1 .. n
    BY <1>4, <1>14
  <2>2. ~ (turn[n].pos > turn[n].pos)
    BY <2>1
  <2> QED BY <1>3, <1>5, <1>14, <2>2
<1> QED BY <1>8, <1>14, <1>15 DEF D

-----------------------------------------------------------------------------
(* Inserting and removing.                                                   *)

\* Slots as they were but for their places, and but for slot s, which got one.
Placed(old, new, s) ==
    /\ \A i \in DOMAIN old :
        /\ new[i].deadline = old[i].deadline /\ new[i].seq = old[i].seq
        /\ new[i].callback = old[i].callback
        /\ i # s => (new[i].heapIndex = 0 <=> old[i].heapIndex = 0)
    /\ new[s].heapIndex # 0

\* What goes into the vacancy makes the heap whole, if it fits.
LEMMA PutFacts ==
    ASSUME NEW n \in Nat, NEW m \in Nat, NEW g \in Vacant(n, m), NEW t \in 1 .. m,
           Knows(g, t), Holed(g), Above(g, g.slots[t].deadline), Below(g, g.slots[t].deadline)
    PROVE  LET put == Put(g, t)
           IN  /\ put.heap \in [1 .. n -> 1 .. m] /\ put.slots \in [1 .. m -> Slot]
               /\ Whole(put.heap, put.slots) /\ Placed(g.slots, put.slots, t)
<1> DEFINE pos == g.pos
           x == g.slots[t]
           slot == [x EXCEPT !.heapIndex = pos]
           heap == [g.heap EXCEPT ![pos] = t]
           slots == [g.slots EXCEPT ![t] = slot]
           put == Put(g, t)
           v == x.deadline
<1>1. put.heap = heap /\ put.slots = slots
  BY DEF Put
<1>2. /\ DOMAIN g.heap = 1 .. n /\ DOMAIN g.slots = 1 .. m /\ pos \in 1 .. n
      /\ \A q \in 1 .. n : g.heap[q] \in 1 .. m
      /\ \A q \in 1 .. n : Late(g, q) \in Nat
      /\ g.heap \in [1 .. n -> 1 .. m] /\ g.slots \in [1 .. m -> Slot]
  BY VacantFields DEF Vacant
<1>3. x \in Slot /\ v \in Nat
  BY <1>2 DEF Slot
<1>4. /\ slot \in Slot /\ slot.heapIndex = pos /\ slot.deadline = v
      /\ slot.seq = x.seq /\ slot.callback = x.callback
  <2>1. pos \in Nat
    BY <1>2
  <2> HIDE DEF x, pos
  <2> QED BY <1>3, <2>1 DEF Slot
<1>5. Above(g, v) /\ Below(g, v) /\ Holed(g) /\ Knows(g, t) /\ t \in 1 .. m
  OBVIOUS
<1> HIDE DEF slot, put, pos
<1>6. heap \in [1 .. n -> 1 .. m] /\ heap[pos] = t /\ \A q \in 1 .. n \ {pos} : heap[q] = g.heap[q]
  BY <1>2, <1>5
<1>7. /\ slots \in [1 .. m -> Slot] /\ slots[t] = slot
      /\ \A i \in 1 .. m \ {t} : slots[i] = g.slots[i]
  BY <1>2, <1>4, <1>5
<1>8. \A q \in 1 .. n \ {pos} : g.heap[q] # t /\ g.slots[g.heap[q]].heapIndex = q
  BY <1>2, <1>5 DEF Knows, pos
<1>9. \A i \in 1 .. m \ {t} : g.slots[i].heapIndex # 0 =>
          g.slots[i].heapIndex \in 1 .. n \ {pos} /\ g.heap[g.slots[i].heapIndex] = i
  BY <1>2, <1>5 DEF Knows, pos
<1> HIDE DEF heap, slots
<1> DEFINE New(q) == slots[heap[q]].deadline
<1>10. New(pos) = v /\ \A q \in 1 .. n \ {pos} : New(q) = Late(g, q)
  <2>1. New(pos) = v
    BY <1>4, <1>6, <1>7
  <2>2. ASSUME NEW q \in 1 .. n \ {pos} PROVE New(q) = Late(g, q)
    BY <1>2, <1>6, <1>7, <1>8 DEF Late
  <2> QED BY <2>1, <2>2
<1>11. \A p \in 2 .. n : p \div 2 \in 1 .. n /\ p \div 2 < p
  BY Halves
<1>12. /\ \A p \in 2 .. n : p # pos /\ p \div 2 # pos => Late(g, p \div 2) <= Late(g, p)
       /\ \A p \in 2 .. n : p \div 2 = pos => v <= Late(g, p)
       /\ pos > 1 => Late(g, pos \div 2) <= v
  <2>1. \A p \in 2 .. n : p \in (1 .. n) \ {1} /\ (p # pos => p \in (1 .. n) \ {1, pos})
    OBVIOUS
  <2>2. \A p \in (1 .. n) \ {1, pos} : p \div 2 # pos => Late(g, p \div 2) <= Late(g, p)
    BY <1>2, <1>5, Zenon DEF Holed, pos
  <2>3. \A p \in (1 .. n) \ {1} : p \div 2 = pos => v <= Late(g, p)
    BY <1>2, <1>5, Zenon DEF Below, pos
  <2>4. pos > 1 => Late(g, pos \div 2) <= v
    BY <1>5, Zenon DEF Above, pos
  <2> QED BY <2>1, <2>2, <2>3, <2>4, Zenon
<1> HIDE DEF v, New
<1>13. ASSUME NEW p \in 2 .. n PROVE New(p \div 2) <= New(p)
  <2>0. p \div 2 \in 1 .. n /\ p \div 2 < p /\ p \in 1 .. n /\ p > 1
    BY <1>11
  <2>1. CASE p = pos
    <3>1. New(p) = v /\ New(p \div 2) = Late(g, p \div 2)
      BY <1>10, <2>0, <2>1
    <3> QED BY <1>12, <2>0, <2>1, <3>1
  <2>2. CASE p \div 2 = pos
    <3>1. New(p) = Late(g, p) /\ New(p \div 2) = v
      BY <1>10, <2>0, <2>2
    <3> QED BY <1>12, <2>0, <2>2, <3>1
  <2>3. CASE p # pos /\ p \div 2 # pos
    <3>1. New(p) = Late(g, p) /\ New(p \div 2) = Late(g, p \div 2)
      BY <1>10, <2>0, <2>3
    <3> QED BY <1>12, <2>0, <2>3, <3>1
  <2> QED BY <2>1, <2>2, <2>3
<1>14. \A q \in 1 .. n : slots[heap[q]].heapIndex = q
  <2> TAKE q \in 1 .. n
  <2>1. CASE q = pos
    BY <1>4, <1>6, <1>7, <2>1
  <2>2. CASE q # pos
    <3>1. /\ heap[q] = g.heap[q] /\ g.heap[q] \in 1 .. m /\ g.heap[q] # t
          /\ g.slots[g.heap[q]].heapIndex = q
      BY <1>2, <1>6, <1>8, <2>2
    <3>2. slots[heap[q]] = g.slots[g.heap[q]]
      BY <1>7, <3>1
    <3> QED BY <3>1, <3>2
  <2> QED BY <2>1, <2>2
<1>15. \A i \in 1 .. m : slots[i].heapIndex # 0 =>
          slots[i].heapIndex \in 1 .. n /\ heap[slots[i].heapIndex] = i
  <2> TAKE i \in 1 .. m
  <2>1. CASE i = t
    BY <1>2, <1>4, <1>6, <1>7, <2>1 DEF pos
  <2>2. CASE i # t
    BY <1>6, <1>7, <1>9, <2>2
  <2> QED BY <2>1, <2>2
<1>16. Whole(heap, slots)
  <2>1. DOMAIN heap = 1 .. n /\ DOMAIN slots = 1 .. m
    BY <1>6, <1>7
  <2>2. \A p \in 1 .. n : p > 1 => p \in 2 .. n
    OBVIOUS
  <2>3. \A p \in 1 .. n : p > 1 => slots[heap[p \div 2]].deadline <= slots[heap[p]].deadline
    BY <1>13, <2>2 DEF New
  <2> QED BY <1>14, <1>15, <2>1, <2>3 DEF Whole, HeapInOrder
<1>17. Placed(g.slots, slots, t)
  <2>1. slot.heapIndex # 0
    BY <1>2, <1>4 DEF pos
  <2> QED BY <1>2, <1>4, <1>7, <2>1 DEF Placed, v
<1> QED BY <1>1, <1>6, <1>7, <1>16, <1>17 DEF put
LEMMA HeapFacts ==
    ASSUME NEW m \in Nat, NEW heap \in Seq(1 .. m), NEW slots \in [1 .. m -> Slot],
           Whole(heap, slots)
    PROVE  /\ Len(heap) \in Nat /\ DOMAIN heap = 1 .. Len(heap) /\ DOMAIN slots = 1 .. m
           /\ heap \in [1 .. Len(heap) -> 1 .. m]
           /\ \A q \in 1 .. Len(heap) : heap[q] \in 1 .. m /\ slots[heap[q]].heapIndex = q
           /\ \A p \in 2 .. Len(heap) :
                  /\ p \div 2 \in 1 .. Len(heap)
                  /\ slots[heap[p \div 2]].deadline <= slots[heap[p]].deadline
           /\ \A i \in 1 .. m : slots[i].heapIndex # 0 =>
                  slots[i].heapIndex \in 1 .. Len(heap) /\ heap[slots[i].heapIndex] = i
<1> DEFINE n == Len(heap)
           T == 1 .. m
<1>0. heap \in Seq(T)
  OBVIOUS
<1> HIDE DEF T
<1>1. n \in Nat /\ DOMAIN heap = 1 .. n /\ \A q \in 1 .. n : heap[q] \in T
  BY <1>0, LenProperties, ElementOfSeq
<1>2. heap \in [1 .. n -> T]
  BY <1>0, LenProperties
<1>3. \A q \in 1 .. n : slots[heap[q]].heapIndex = q
  BY <1>1 DEF Whole, HeapInOrder
<1>4. \A p \in 2 .. n : p \in 1 .. n /\ p > 1 /\ p \div 2 \in 1 .. n
  BY <1>1, Halves
<1>5. \A p \in 2 .. n : slots[heap[p \div 2]].deadline <= slots[heap[p]].deadline
  BY <1>1, <1>4 DEF Whole, HeapInOrder
<1>6. \A i \in 1 .. m : slots[i].heapIndex # 0 =>
          slots[i].heapIndex \in 1 .. n /\ heap[slots[i].heapIndex] = i
  BY <1>1 DEF Whole
<1> QED BY <1>1, <1>2, <1>3, <1>4, <1>5, <1>6 DEF T

\* The front of a heap has the earliest deadline.
LEMMA FrontIsFirst ==
    ASSUME NEW m \in Nat, NEW heap \in Seq(1 .. m), NEW slots \in [1 .. m -> Slot],
           Whole(heap, slots)
    PROVE  \A p \in 1 .. Len(heap) : slots[heap[1]].deadline <= slots[heap[p]].deadline
<1> DEFINE n == Len(heap)
           At(p) == slots[heap[p]].deadline
           Bad == {p \in 1 .. n : ~ (At(1) <= At(p))}
<1>1. /\ n \in Nat /\ \A p \in 1 .. n : heap[p] \in 1 .. m
      /\ \A p \in 2 .. n : p \div 2 \in 1 .. n /\ At(p \div 2) <= At(p)
  BY HeapFacts
<1>2. \A p \in 1 .. n : At(p) \in Nat
  BY <1>1 DEF Slot
<1> HIDE DEF n, At
<1>3. Bad = {}
  <2>1. SUFFICES ASSUME Bad # {} PROVE FALSE
    OBVIOUS
  <2>2. PICK p \in Bad : \A q \in Bad : p <= q
    <3>1. Bad \subseteq Nat
      OBVIOUS
    <3> QED BY <2>1, <3>1, LeastNatural
  <2>3. p \in 1 .. n /\ ~ (At(1) <= At(p)) /\ 1 \in 1 .. n
    BY <1>1, <2>2
  <2>4. p # 1
    BY <1>2, <2>3
  <2>5. p \in 2 .. n /\ p \div 2 < p
    BY <2>3, <2>4, Halves
  <2>6. p \div 2 \in 1 .. n /\ At(p \div 2) <= At(p) /\ ~ (p <= p \div 2)
    BY <1>1, <2>5
  <2>7. ~ (At(1) <= At(p \div 2))
    BY <1>2, <2>3, <2>6
  <2> QED BY <2>2, <2>6, <2>7
<1> QED BY <1>3 DEF n, At

\* Insert puts a slot that had no place into the heap.
LEMMA InsertFacts ==
    ASSUME NEW m \in Nat, NEW heap \in Seq(1 .. m), NEW slots \in [1 .. m -> Slot],
           Whole(heap, slots), NEW s \in 1 .. m, slots[s].heapIndex = 0
    PROVE  LET put == Insert(heap, slots, s)
           IN  /\ put.heap \in Seq(1 .. m) /\ Len(put.heap) = Len(heap) + 1
               /\ put.slots \in [1 .. m -> Slot]
               /\ Whole(put.heap, put.slots) /\ Placed(slots, put.slots, s)
<1> DEFINE n == Len(heap)
<1>1. /\ n \in Nat /\ DOMAIN slots = 1 .. m
      /\ \A q \in 1 .. n : heap[q] \in 1 .. m /\ slots[heap[q]].heapIndex = q
      /\ \A p \in 2 .. n : p \div 2 \in 1 .. n
                           /\ slots[heap[p \div 2]].deadline <= slots[heap[p]].deadline
      /\ \A i \in 1 .. m : slots[i].heapIndex # 0 =>
             slots[i].heapIndex \in 1 .. n /\ heap[slots[i].heapIndex] = i
  <2>1. m \in Nat /\ heap \in Seq(1 .. m) /\ slots \in [1 .. m -> Slot] /\ Whole(heap, slots)
    OBVIOUS
  <2> HIDE DEF n
  <2>2. /\ Len(heap) \in Nat /\ DOMAIN slots = 1 .. m
        /\ \A q \in 1 .. Len(heap) : heap[q] \in 1 .. m /\ slots[heap[q]].heapIndex = q
    BY <2>1, HeapFacts
  <2>3. \A p \in 2 .. Len(heap) : p \div 2 \in 1 .. Len(heap)
                             /\ slots[heap[p \div 2]].deadline <= slots[heap[p]].deadline
    BY <2>1, HeapFacts
  <2>4. \A i \in 1 .. m : slots[i].heapIndex # 0 =>
               slots[i].heapIndex \in 1 .. Len(heap) /\ heap[slots[i].heapIndex] = i
    <3>1. DOMAIN heap = 1 .. Len(heap) /\ DOMAIN slots = 1 .. m
      BY <2>1, HeapFacts
    <3> QED BY <2>1, <3>1 DEF Whole
  <2> QED BY <2>2, <2>3, <2>4 DEF n
<1> DEFINE T == 1 .. m
           longer == Append(heap, s)
           end == [heap |-> longer, slots |-> slots, pos |-> n + 1]
           v == slots[s].deadline
           up == Climb(end, v)
           put == Insert(heap, slots, s)
<1>2. put = Put(up, s)
  BY DEF Insert
<1>3. /\ longer \in [1 .. n + 1 -> T] /\ longer[n + 1] = s
      /\ \A q \in 1 .. n : longer[q] = heap[q]
  <2>1. heap \in Seq(T) /\ s \in T
    OBVIOUS
  <2> HIDE DEF T
  <2>2. /\ longer \in Seq(T) /\ Len(longer) = n + 1 /\ longer[n + 1] = s
        /\ \A q \in 1 .. n : longer[q] = heap[q]
    BY <2>1, AppendProperties
  <2>3. longer \in [1 .. n + 1 -> T]
    BY <2>2, LenProperties
  <2> QED BY <2>2, <2>3
<1>4. v \in Nat /\ n + 1 \in Nat
  BY <1>1 DEF Slot
<1>5. end \in Vacant(n + 1, m)
  BY <1>1, <1>3 DEF Vacant
<1>6. \A q \in 1 .. n : heap[q] # s
  BY <1>1
<1>7. DOMAIN end.heap = 1 .. n + 1 /\ end.slots = slots /\ end.pos = n + 1 /\ end.heap = longer
  BY <1>3
<1> HIDE DEF longer, end, n, v
<1>8. Knows(end, s)
  <2>1. (1 .. n + 1) \ {n + 1} = 1 .. n
    BY <1>1
  <2>2. \A q \in 1 .. n : longer[q] # s /\ slots[longer[q]].heapIndex = q
    BY <1>1, <1>3, <1>6
  <2>3. \A i \in 1 .. m : slots[i].heapIndex # 0 =>
            slots[i].heapIndex \in 1 .. n /\ longer[slots[i].heapIndex] = i
    BY <1>1, <1>3
  <2> QED BY <1>1, <1>7, <2>1, <2>2, <2>3 DEF Knows
<1>9. \A p \in 2 .. n + 1 : p \div 2 # n + 1 /\ p \div 2 \in 1 .. n
  <2> TAKE p \in 2 .. n + 1
  <2>1. p \in Nat /\ p >= 2 /\ p <= n + 1
    BY <1>1
  <2>2. p \div 2 >= 1 /\ p \div 2 < p /\ p \div 2 \in Nat
    BY <2>1, Halves
  <2> QED BY <1>1, <2>1, <2>2
<1>10. Holed(end)
  <2>1. \A p \in (1 .. n + 1) \ {1, n + 1} : p \in 2 .. n /\ p \in 1 .. n /\ p \in 2 .. n + 1
    BY <1>1
  <2>2. ASSUME NEW p \in (1 .. n + 1) \ {1, n + 1}
        PROVE  p \div 2 # n + 1 /\ Late(end, p \div 2) <= Late(end, p)
    <3>1. longer[p] = heap[p] /\ longer[p \div 2] = heap[p \div 2] /\ p \div 2 # n + 1
      BY <1>3, <1>9, <2>1
    <3> QED BY <1>1, <1>7, <2>1, <3>1 DEF Late
  <2> QED BY <1>7, <2>2 DEF Holed
<1>11. Below(end, v)
  <2>1. \A p \in (1 .. n + 1) \ {1} : p \in 2 .. n + 1
    BY <1>1
  <2> QED BY <1>7, <1>9, <2>1 DEF Below
<1>12. /\ up \in Vacant(n + 1, m) /\ Knows(up, s) /\ Replaced(slots, up.slots)
       /\ Holed(up) /\ Above(up, v) /\ Below(up, v)
  <2>1. /\ up \in Vacant(n + 1, m) /\ Knows(up, s) /\ Replaced(end.slots, up.slots)
        /\ Holed(up) /\ Above(up, v) /\ (up = end \/ (up.pos < end.pos /\ Below(up, v)))
    BY <1>4, <1>5, <1>8, <1>10, ClimbFacts
  <2> HIDE DEF up
  <2> QED BY <1>7, <1>11, <2>1
<1> HIDE DEF up, put
<1>13. up.slots[s].deadline = v
  BY <1>1, <1>12 DEF Replaced, v
<1>14. /\ put.heap \in [1 .. n + 1 -> T] /\ put.slots \in [1 .. m -> Slot]
       /\ Whole(put.heap, put.slots) /\ Placed(up.slots, put.slots, s)
  BY <1>2, <1>4, <1>12, <1>13, PutFacts
<1>15. Placed(slots, put.slots, s)
  <2>1. DOMAIN up.slots = 1 .. m
    BY <1>4, <1>12, VacantFields
  <2> QED BY <1>1, <1>12, <1>14, <2>1 DEF Placed, Replaced
<1>16. put.heap \in Seq(T) /\ Len(put.heap) = n + 1
  <2> DEFINE k == n + 1
             f == put.heap
  <2>0. k \in Nat /\ f \in [1 .. k -> T]
    BY <1>4, <1>14
  <2> HIDE DEF T, k, f
  <2>1. f \in Seq(T)
    BY <2>0, SeqDef
  <2>2. Len(f) = k
    BY <2>0, <2>1, LenProperties
  <2> QED BY <2>1, <2>2 DEF k, f
<1> QED BY <1>14, <1>15, <1>16 DEF put, n
LEMMA FrontFacts ==
    ASSUME NEW T, NEW s \in Seq(T), Len(s) > 0
    PROVE  /\ Front(s) \in Seq(T) /\ Len(Front(s)) = Len(s) - 1
           /\ \A q \in 1 .. Len(s) - 1 : Front(s)[q] = s[q]
           /\ Last(s) = s[Len(s)] /\ Last(s) \in T
<1> DEFINE n == Len(s)
           f == SubSeq(s, 1, n - 1)
<1>1. n \in Nat /\ n \in 1 .. n
  BY LenProperties
<1>2. f \in Seq(T)
  BY <1>1, ElementOfSeq
<1>3. Len(f) = n - 1 /\ \A q \in 1 .. n - 1 : f[q] = s[q]
  <2>1. s \in Seq(T) /\ 1 \in 1 .. n + 1 /\ n - 1 \in 0 .. n
    BY <1>1
  <2>2. Len(f) = (IF 1 <= n - 1 THEN n - 1 - 1 + 1 ELSE 0) /\ n - 1 \in Nat
    BY <1>1, <2>1, SubSeqProperties
  <2>3. \A q \in 1 .. n - 1 : f[q] = s[q]
    BY <1>1
  <2> HIDE DEF f
  <2>4. Len(f) = n - 1
    <3>1. n \in Nat /\ n >= 1
      BY <1>1
    <3> HIDE DEF n
    <3> QED BY <2>2, <3>1
  <2> QED BY <2>3, <2>4
<1>4. \A q \in 1 .. n - 1 : f[q] = s[q]
  BY <1>3
<1>5. Front(s) = f /\ Last(s) = s[n]
  BY DEF Front, Last
<1>6. s[n] \in T
  BY <1>1, ElementOfSeq
<1> HIDE DEF f
<1> QED BY <1>2, <1>3, <1>4, <1>5, <1>6

\* FillHole takes a slot that has been freed out of the heap.
LEMMA FillHoleFacts ==
    ASSUME NEW m \in Nat, NEW heap \in Seq(1 .. m), NEW was \in [1 .. m -> Slot],
           Whole(heap, was), NEW s \in 1 .. m, was[s].heapIndex # 0,
           NEW x \in Slot, x.heapIndex = 0
    PROVE  LET slots == [was EXCEPT ![s] = x]
               out   == FillHole(heap, slots, was[s].heapIndex)
           IN  /\ out.heap \in Seq(1 .. m) /\ Len(out.heap) = Len(heap) - 1
               /\ out.slots \in [1 .. m -> Slot]
               /\ Whole(out.heap, out.slots) /\ Replaced(slots, out.slots)
<1> DEFINE n == Len(heap)
           pos == was[s].heapIndex
<1>1. m \in Nat /\ heap \in Seq(1 .. m) /\ was \in [1 .. m -> Slot] /\ Whole(heap, was)
  OBVIOUS
<1>2. /\ n \in Nat /\ DOMAIN was = 1 .. m
      /\ \A q \in 1 .. n : heap[q] \in 1 .. m /\ was[heap[q]].heapIndex = q
  BY <1>1, HeapFacts
<1>3. \A p \in 2 .. n : p \div 2 \in 1 .. n /\ was[heap[p \div 2]].deadline <= was[heap[p]].deadline
  BY <1>1, HeapFacts
<1>4. \A i \in 1 .. m : was[i].heapIndex # 0 =>
          was[i].heapIndex \in 1 .. n /\ heap[was[i].heapIndex] = i
  <2> HIDE DEF pos
  <2>1. DOMAIN heap = 1 .. n /\ DOMAIN was = 1 .. m
    BY <1>1, HeapFacts
  <2> QED BY <1>1, <2>1 DEF Whole
<1> DEFINE T == 1 .. m
           slots == [was EXCEPT ![s] = x]
           rest == Front(heap)
           t == heap[n]
           hole == [heap |-> rest, slots |-> slots, pos |-> pos]
           v == slots[t].deadline
           up == Climb(hole, v)
           end == IF up.pos # pos THEN up ELSE Sink(hole, v)
           put == Put(end, t)
           out == FillHole(heap, slots, pos)
           k == n - 1
<1>5. pos \in 1 .. n /\ heap[pos] = s /\ n >= 1 /\ t \in 1 .. m /\ was[t].heapIndex = n
  BY <1>2, <1>4
<1>6. rest \in Seq(T) /\ Len(rest) = k /\ k \in Nat /\ \A q \in 1 .. k : rest[q] = heap[q]
  <2>1. heap \in Seq(T) /\ Len(heap) > 0
    BY <1>1, <1>5
  <2> HIDE DEF T
  <2>2. /\ rest \in Seq(T) /\ Len(rest) = n - 1 /\ \A q \in 1 .. n - 1 : rest[q] = heap[q]
    BY <2>1, FrontFacts
  <2> QED BY <1>2, <1>5, <2>2
<1>7. rest \in [1 .. k -> T] /\ DOMAIN rest = 1 .. k
  <2> HIDE DEF T, rest, k
  <2> QED BY <1>6, LenProperties
<1>8. out = IF pos > k THEN [heap |-> rest, slots |-> slots] ELSE put
  BY <1>6 DEF FillHole
<1>9. slots \in [1 .. m -> Slot] /\ slots[s] = x /\ \A i \in 1 .. m \ {s} : slots[i] = was[i]
  BY <1>1
<1> HIDE DEF slots, rest, pos, n, k
<1>10. k = n - 1 /\ 1 .. k \subseteq 1 .. n /\ n \notin 1 .. k
  BY <1>2 DEF k
<1>11. \A q \in 1 .. k : q # pos => rest[q] # s /\ slots[rest[q]] = was[rest[q]]
  <2> SUFFICES ASSUME NEW q \in 1 .. k, q # pos PROVE rest[q] # s /\ slots[rest[q]] = was[rest[q]]
    OBVIOUS
  <2>1. rest[q] = heap[q] /\ heap[q] \in 1 .. m /\ was[heap[q]].heapIndex = q
    BY <1>2, <1>6, <1>10
  <2>2. rest[q] # s
    BY <2>1 DEF pos
  <2> QED BY <1>9, <2>1, <2>2
<1>12. \A i \in 1 .. m : slots[i].heapIndex # 0 =>
          i # s /\ slots[i] = was[i] /\ was[i].heapIndex \in 1 .. n /\ was[i].heapIndex # pos
          /\ heap[was[i].heapIndex] = i
  BY <1>4, <1>5, <1>9
<1>13. CASE pos > k
  <2>1. pos = n /\ out.heap = rest /\ out.slots = slots
    BY <1>2, <1>5, <1>8, <1>10, <1>13
  <2>2. \A p \in 1 .. k : p > 1 => slots[rest[p \div 2]].deadline <= slots[rest[p]].deadline
    <3> SUFFICES ASSUME NEW p \in 2 .. k
                 PROVE  slots[rest[p \div 2]].deadline <= slots[rest[p]].deadline
      OBVIOUS
    <3>1. p \div 2 \in 1 .. k /\ p \in 1 .. k /\ p \in 2 .. n
      BY <1>6, <1>10, Halves
    <3>2. p # pos /\ p \div 2 # pos
      BY <1>10, <2>1, <3>1
    <3>3. /\ rest[p] = heap[p] /\ rest[p \div 2] = heap[p \div 2]
          /\ slots[rest[p]] = was[rest[p]] /\ slots[rest[p \div 2]] = was[rest[p \div 2]]
      BY <1>6, <1>11, <3>1, <3>2
    <3> QED BY <1>3, <3>1, <3>3
  <2>3. \A p \in 1 .. k : slots[rest[p]].heapIndex = p
    <3> TAKE p \in 1 .. k
    <3>1. p # pos /\ p \in 1 .. n
      BY <1>10, <2>1
    <3>2. slots[rest[p]] = was[heap[p]]
      BY <1>6, <1>11, <3>1
    <3> QED BY <1>2, <3>1, <3>2
  <2>4. ASSUME NEW i \in 1 .. m, slots[i].heapIndex # 0
        PROVE  slots[i].heapIndex \in 1 .. k /\ rest[slots[i].heapIndex] = i
    <3>1. slots[i].heapIndex \in 1 .. n /\ slots[i].heapIndex # n /\ heap[slots[i].heapIndex] = i
      BY <1>12, <2>1, <2>4
    <3>2. slots[i].heapIndex \in 1 .. k
      BY <1>2, <1>10, <3>1
    <3> QED BY <1>6, <3>1, <3>2
  <2>5. DOMAIN slots = 1 .. m
    BY <1>9
  <2>6. Whole(rest, slots)
    BY <1>7, <2>2, <2>3, <2>4, <2>5 DEF Whole, HeapInOrder
  <2>7. Replaced(slots, slots)
    BY DEF Replaced
  <2> QED BY <1>6, <1>9, <2>1, <2>6, <2>7 DEF n, k, pos, slots
<1>14. CASE ~ (pos > k)
  <2>0. n \in Nat
    BY <1>2
  <2>1. pos \in 1 .. k /\ out = put /\ pos # n
    <3> HIDE DEF out, put, t
    <3>1. pos \in 1 .. k /\ pos # n
      BY <1>5, <1>6, <1>10, <1>14, <2>0
    <3>2. out = put
      BY <1>8, <1>14
    <3> QED BY <3>1, <3>2
  <2>2. t # s
    <3>1. was[t].heapIndex = n /\ was[s].heapIndex = pos
      BY <1>5 DEF pos
    <3> HIDE DEF t
    <3> QED BY <2>1, <3>1
  <2>3. hole \in Vacant(k, m)
    BY <1>7, <1>9, <2>1 DEF Vacant
  <2>4. hole.heap = rest /\ hole.slots = slots /\ hole.pos = pos /\ DOMAIN slots = 1 .. m
    BY <1>9
  <2>5. slots[t] \in Slot /\ v \in Nat
    BY <1>5, <1>9 DEF Slot
  <2> HIDE DEF hole, t, v
  <2>6. Knows(hole, t)
    <3>1. ASSUME NEW q \in 1 .. k \ {pos} PROVE rest[q] # t /\ slots[rest[q]].heapIndex = q
      <4>1. rest[q] = heap[q] /\ slots[rest[q]] = was[heap[q]] /\ was[heap[q]].heapIndex = q /\ q # n
        BY <1>2, <1>6, <1>10, <1>11
      <4> QED BY <1>5, <4>1
    <3>2. ASSUME NEW i \in 1 .. m \ {t}, slots[i].heapIndex # 0
          PROVE  slots[i].heapIndex \in 1 .. k \ {pos} /\ rest[slots[i].heapIndex] = i
      <4>1. /\ slots[i].heapIndex \in 1 .. n /\ slots[i].heapIndex # pos
            /\ heap[slots[i].heapIndex] = i
        BY <1>12, <3>2
      <4>2. slots[i].heapIndex # n
        BY <4>1 DEF t
      <4>3. slots[i].heapIndex \in 1 .. k
        BY <1>2, <1>10, <4>1, <4>2
      <4> QED BY <1>6, <4>1, <4>3
    <3> QED BY <1>7, <2>4, <3>1, <3>2 DEF Knows
  <2>7. Holed(hole)
    <3> SUFFICES ASSUME NEW p \in 1 .. k \ {1, pos}
                 PROVE  /\ p \div 2 # pos => Late(hole, p \div 2) <= Late(hole, p)
                        /\ p \div 2 = pos /\ pos > 1 => Late(hole, pos \div 2) <= Late(hole, p)
      BY <1>7, <2>4 DEF Holed
    <3>1. p \in 2 .. n /\ p \in 2 .. k /\ p \div 2 \in 1 .. k
      BY <1>6, <1>10, Halves
    <3>2. Late(hole, p) = was[heap[p]].deadline
      BY <1>6, <1>11, <2>4, <3>1 DEF Late
    <3>3. was[heap[p \div 2]].deadline <= was[heap[p]].deadline
      BY <1>3, <3>1
    <3>4. CASE p \div 2 # pos
      <4>1. Late(hole, p \div 2) = was[heap[p \div 2]].deadline
        BY <1>6, <1>11, <2>4, <3>1, <3>4 DEF Late
      <4> QED BY <3>2, <3>3, <3>4, <4>1
    <3>5. CASE p \div 2 = pos /\ pos > 1
      <4>1. pos \in 2 .. n /\ pos \div 2 \in 1 .. k /\ pos \div 2 # pos
        <5>1. pos \in Nat /\ pos >= 2
          BY <2>1, <3>5
        <5>2. pos \div 2 \in Nat /\ pos \div 2 >= 1 /\ pos \div 2 < pos
          BY <5>1, Halves
        <5> QED BY <1>2, <1>6, <1>10, <2>1, <5>1, <5>2
      <4>2. Late(hole, pos \div 2) = was[heap[pos \div 2]].deadline
        BY <1>6, <1>11, <2>4, <4>1 DEF Late
      <4>3. was[heap[pos \div 2]].deadline <= was[heap[pos]].deadline
        BY <1>3, <4>1
      <4>4. /\ was[heap[pos \div 2]].deadline \in Nat /\ was[heap[pos]].deadline \in Nat
            /\ was[heap[p]].deadline \in Nat
        <5>1. /\ heap[pos \div 2] \in 1 .. m /\ heap[pos] \in 1 .. m /\ heap[p] \in 1 .. m
          BY <1>2, <1>10, <3>1, <4>1
        <5> QED BY <1>1, <5>1 DEF Slot
      <4>5. was[heap[pos]].deadline <= was[heap[p]].deadline
        BY <3>3, <3>5
      <4>6. was[heap[pos \div 2]].deadline <= was[heap[p]].deadline
        <5> DEFINE a == was[heap[pos \div 2]].deadline
                   b == was[heap[pos]].deadline
                   c == was[heap[p]].deadline
        <5>1. a \in Nat /\ b \in Nat /\ c \in Nat /\ a <= b /\ b <= c
          BY <4>3, <4>4, <4>5
        <5> HIDE DEF a, b, c
        <5>2. a <= c
          BY <5>1
        <5> QED BY <5>2 DEF a, c
      <4> QED BY <3>2, <3>5, <4>2, <4>6
    <3> QED BY <3>4, <3>5
  <2>8. /\ up \in Vacant(k, m) /\ Knows(up, t) /\ Replaced(slots, up.slots)
        /\ Holed(up) /\ Above(up, v) /\ (up = hole \/ (up.pos < pos /\ Below(up, v)))
    <3>1. k \in Nat
      BY <1>6
    <3>2. /\ up \in Vacant(k, m) /\ Knows(up, t) /\ Replaced(hole.slots, up.slots)
          /\ Holed(up) /\ Above(up, v) /\ (up = hole \/ (up.pos < hole.pos /\ Below(up, v)))
      BY <2>3, <2>5, <2>6, <2>7, <3>1, ClimbFacts
    <3> HIDE DEF up
    <3> QED BY <2>4, <3>2
  <2>9. /\ end \in Vacant(k, m) /\ Knows(end, t) /\ Replaced(slots, end.slots)
        /\ Holed(end) /\ Above(end, v) /\ Below(end, v)
    <3>1. CASE up.pos # pos
      <4>1. up # hole /\ end = up
        BY <2>4, <3>1
      <4> HIDE DEF up, end
      <4> QED BY <2>8, <4>1
    <3>2. CASE ~ (up.pos # pos)
      <4>1. end = Sink(hole, v)
        BY <3>2
      <4>2. Above(hole, v)
        <5>1. ~ (up.pos < pos)
          BY <2>1, <3>2
        <5> HIDE DEF up
        <5> QED BY <2>8, <5>1
      <4>3. k \in Nat
        BY <1>6
      <4> DEFINE down == Sink(hole, v)
      <4>4. /\ down \in Vacant(k, m) /\ Knows(down, t) /\ Replaced(hole.slots, down.slots)
            /\ Holed(down) /\ Above(down, v) /\ Below(down, v)
        BY <2>3, <2>5, <2>6, <2>7, <4>2, <4>3, SinkFacts
      <4> HIDE DEF down, end
      <4>5. end = down
        BY <4>1 DEF down
      <4> QED BY <2>4, <4>4, <4>5
    <3> QED BY <3>1, <3>2
  <2> HIDE DEF up, end
  <2>10. k \in Nat /\ t \in 1 .. m /\ end.slots[t].deadline = v /\ DOMAIN end.slots = 1 .. m
    <3>1. k \in Nat /\ t \in 1 .. m
      BY <1>5, <1>6
    <3>2. end.slots[t].deadline = v
      BY <2>4, <2>9, <3>1 DEF Replaced, v
    <3>3. DOMAIN end.slots = 1 .. m
      BY <2>9, <3>1, VacantFields
    <3> QED BY <3>1, <3>2, <3>3
  <2>11. /\ put.heap \in [1 .. k -> T] /\ put.slots \in [1 .. m -> Slot]
         /\ Whole(put.heap, put.slots) /\ Placed(end.slots, put.slots, t)
    BY <2>9, <2>10, PutFacts
  <2> HIDE DEF put
  <2>12. slots[t].heapIndex # 0
    BY <1>2, <1>5, <1>9, <2>2
  <2>13. Replaced(slots, put.slots)
    <3> SUFFICES ASSUME NEW i \in 1 .. m
                 PROVE  /\ put.slots[i].deadline = slots[i].deadline
                        /\ put.slots[i].seq = slots[i].seq
                        /\ put.slots[i].callback = slots[i].callback
                        /\ put.slots[i].heapIndex = 0 <=> slots[i].heapIndex = 0
      BY <2>4 DEF Replaced
    <3>1. /\ end.slots[i].deadline = slots[i].deadline /\ end.slots[i].seq = slots[i].seq
          /\ end.slots[i].callback = slots[i].callback
          /\ end.slots[i].heapIndex = 0 <=> slots[i].heapIndex = 0
      BY <2>4, <2>9 DEF Replaced
    <3>2. /\ put.slots[i].deadline = end.slots[i].deadline
          /\ put.slots[i].seq = end.slots[i].seq /\ put.slots[i].callback = end.slots[i].callback
          /\ i # t => (put.slots[i].heapIndex = 0 <=> end.slots[i].heapIndex = 0)
          /\ put.slots[t].heapIndex # 0
      BY <2>10, <2>11 DEF Placed
    <3>3. CASE i = t
      BY <2>12, <3>1, <3>2, <3>3
    <3>4. CASE i # t
      BY <3>1, <3>2, <3>4
    <3> QED BY <3>3, <3>4
  <2>14. put.heap \in Seq(T) /\ Len(put.heap) = k
    <3> DEFINE f == put.heap
    <3>1. k \in Nat /\ f \in [1 .. k -> T]
      BY <2>10, <2>11
    <3> HIDE DEF T, f
    <3>2. f \in Seq(T)
      BY <3>1, SeqDef
    <3>3. Len(f) = k
      BY <3>1, <3>2, LenProperties
    <3> QED BY <3>2, <3>3 DEF f
  <2> HIDE DEF out
  <2>15. /\ out.heap \in Seq(T) /\ Len(out.heap) = n - 1 /\ out.slots \in [1 .. m -> Slot]
         /\ Whole(out.heap, out.slots) /\ Replaced(slots, out.slots)
    BY <1>10, <2>1, <2>11, <2>13, <2>14
  <2> QED BY <2>15 DEF out, n, pos, slots
<1> QED BY <1>13, <1>14
-----------------------------------------------------------------------------
(* The service.                                                              *)

\* Heap, slots and free slots of m slots: a slot is in the heap or free, once.
Sound(m, heap, slots, free) ==
    /\ slots \in [1 .. m -> Slot] /\ heap \in Seq(1 .. m) /\ Whole(heap, slots)
    /\ free \in Seq(1 .. m)
    /\ \A i \in 1 .. m : slots[i].heapIndex = 0 <=> \E k \in 1 .. Len(free) : free[k] = i
    /\ \A j, k \in 1 .. Len(free) : free[j] = free[k] => j = k

\* Deadlines and sequence numbers are bounded, and what waits is some client's.
Bounded(m, slots, total) ==
    \A i \in 1 .. m :
        /\ slots[i].deadline \in Deadlines
        /\ slots[i].seq <= 2 * total
        /\ slots[i].heapIndex # 0 => slots[i].seq + 1 <= 2 * total /\ slots[i].callback \in Clients

\* Tokens: what waits is its client's last request; a token that leads anywhere is
\* not ahead of its slot, and if it still counts, the slot is its client's.
Led(m, slots, tokens, total) ==
    /\ tokens \in [Clients -> [slot : 0 .. m, seq : Nat]]
    /\ \A i \in 1 .. m : slots[i].heapIndex # 0 =>
           tokens[slots[i].callback] = [slot |-> i, seq |-> slots[i].seq]
    /\ \A c \in Clients :
        /\ tokens[c].seq <= 2 * total
        /\ tokens[c].slot # 0 => tokens[c].seq <= slots[tokens[c].slot].seq
        /\ TokenValid(slots, tokens[c]) => slots[tokens[c].slot].callback = c

Simple ==
    /\ now \in 0 .. MaxTime /\ requests \in 0 .. MaxRequests
    /\ timer \in Nat \union {Never} /\ armedFor \in Deadlines /\ raced \in BOOLEAN
    /\ timerCallback \in {"idle", "queueing"} /\ runQueued \in BOOLEAN
    /\ run \in [at : {"idle", "loop", "callback", "rearm"}, t : 0 .. MaxTime, deadline : Deadlines]
    /\ life \in {"alive", "detached", "stopped", "destroyed"}

Kept ==
    /\ Simple
    /\ Len(mSlots) \in Nat
    /\ Sound(Len(mSlots), mHeap, mSlots, mFreeSlots)
    /\ Bounded(Len(mSlots), mSlots, requests)
    /\ Led(Len(mSlots), mSlots, token, requests)
    /\ Len(mSlots) <= Cardinality(Clients) + 1

\* A run that is about to arm the timer does it for the front, or a worker armed it in
\* between, or there is another run to come.
RearmsInTime ==
    mHeap # <<>> /\ life = "alive" /\ run.at = "rearm" =>
        \/ run.deadline <= FrontDeadline \/ raced
        \/ timerCallback = "queueing" \/ runQueued
Arming == ArmedForFront /\ RearmsInTime
\* What slots share with what they were, but for slot s.
Others(m, old, new, s) ==
    \A i \in 1 .. m \ {s} :
        /\ new[i].deadline = old[i].deadline /\ new[i].seq = old[i].seq
        /\ new[i].callback = old[i].callback
        /\ new[i].heapIndex = 0 <=> old[i].heapIndex = 0

\* A slot that is no longer waiting is free.
LEMMA RemovalFacts ==
    ASSUME NEW m \in Nat, NEW heap, NEW slots, NEW free, Sound(m, heap, slots, free),
           NEW s \in 1 .. m, slots[s].heapIndex # 0, NEW x \in Slot, x.heapIndex = 0
    PROVE  LET out == FillHole(heap, [slots EXCEPT ![s] = x], slots[s].heapIndex)
           IN  /\ Sound(m, out.heap, out.slots, Append(free, s)) /\ Others(m, slots, out.slots, s)
               /\ out.slots[s].deadline = x.deadline /\ out.slots[s].seq = x.seq
               /\ out.slots[s].callback = x.callback /\ out.slots[s].heapIndex = 0
<1> DEFINE T == 1 .. m
           emptied == [slots EXCEPT ![s] = x]
           out == FillHole(heap, emptied, slots[s].heapIndex)
           longer == Append(free, s)
           k == Len(free)
<1>1. /\ slots \in [1 .. m -> Slot] /\ heap \in Seq(1 .. m) /\ Whole(heap, slots)
      /\ free \in Seq(T)
  BY DEF Sound
<1>2. \A i \in 1 .. m : slots[i].heapIndex = 0 <=> \E j \in 1 .. k : free[j] = i
  BY DEF Sound
<1>3. \A i, j \in 1 .. k : free[i] = free[j] => i = j
  BY DEF Sound
<1>4. /\ out.heap \in Seq(1 .. m) /\ out.slots \in [1 .. m -> Slot]
      /\ Whole(out.heap, out.slots) /\ Replaced(emptied, out.slots)
  BY <1>1, FillHoleFacts
<1>5. /\ emptied[s] = x /\ DOMAIN emptied = 1 .. m
      /\ \A i \in 1 .. m \ {s} : emptied[i] = slots[i]
  BY <1>1
<1>6. /\ longer \in Seq(T) /\ Len(longer) = k + 1 /\ longer[k + 1] = s /\ k \in Nat
      /\ \A j \in 1 .. k : longer[j] = free[j]
  <2>1. s \in T
    OBVIOUS
  <2> HIDE DEF T
  <2> QED BY <1>1, <2>1, AppendProperties, LenProperties
<1>7. slots[s].heapIndex # 0 /\ x.heapIndex = 0 /\ s \in 1 .. m
  OBVIOUS
<1> HIDE DEF emptied, out, longer, k
<1>8. Others(m, slots, out.slots, s)
  <2> SUFFICES ASSUME NEW i \in 1 .. m \ {s}
               PROVE  /\ out.slots[i].deadline = slots[i].deadline
                      /\ out.slots[i].seq = slots[i].seq
                      /\ out.slots[i].callback = slots[i].callback
                      /\ out.slots[i].heapIndex = 0 <=> slots[i].heapIndex = 0
    BY DEF Others
  <2>1. emptied[i] = slots[i]
    BY <1>5
  <2>2. /\ out.slots[i].deadline = emptied[i].deadline
        /\ out.slots[i].seq = emptied[i].seq
        /\ out.slots[i].callback = emptied[i].callback
        /\ out.slots[i].heapIndex = 0 <=> emptied[i].heapIndex = 0
    BY <1>4, <1>5 DEF Replaced
  <2> QED BY <2>1, <2>2
<1>9. /\ out.slots[s].deadline = x.deadline /\ out.slots[s].seq = x.seq
      /\ out.slots[s].callback = x.callback /\ out.slots[s].heapIndex = 0
  BY <1>4, <1>5, <1>7 DEF Replaced
<1>10. \A j \in 1 .. k : free[j] # s
  BY <1>2, <1>7
<1>11. ASSUME NEW i \in 1 .. m
       PROVE  out.slots[i].heapIndex = 0 <=> \E j \in 1 .. k + 1 : longer[j] = i
  <2>1. CASE i = s
    <3>1. k + 1 \in 1 .. k + 1
      BY <1>6
    <3> QED BY <1>6, <1>9, <2>1, <3>1
  <2>2. CASE i # s
    <3>1. out.slots[i].heapIndex = 0 <=> \E j \in 1 .. k : free[j] = i
      BY <1>2, <1>8, <2>2 DEF Others
    <3>2. (\E j \in 1 .. k : free[j] = i) => \E j \in 1 .. k + 1 : longer[j] = i
      <4> SUFFICES ASSUME NEW j \in 1 .. k, free[j] = i PROVE \E l \in 1 .. k + 1 : longer[l] = i
        OBVIOUS
      <4>1. j \in 1 .. k + 1 /\ longer[j] = i
        BY <1>6
      <4> QED BY <4>1
    <3>3. (\E j \in 1 .. k + 1 : longer[j] = i) => \E j \in 1 .. k : free[j] = i
      <4> SUFFICES ASSUME NEW j \in 1 .. k + 1, longer[j] = i PROVE \E l \in 1 .. k : free[l] = i
        OBVIOUS
      <4>1. j # k + 1
        BY <1>6, <2>2
      <4>2. j \in 1 .. k
        BY <1>6, <4>1
      <4> QED BY <1>6, <4>2
    <3> QED BY <3>1, <3>2, <3>3
  <2> QED BY <2>1, <2>2
<1>12. ASSUME NEW i \in 1 .. k + 1, NEW j \in 1 .. k + 1, longer[i] = longer[j] PROVE i = j
  <2>1. \A l \in 1 .. k + 1 : l \in 1 .. k \/ l = k + 1
    BY <1>6
  <2>2. CASE i \in 1 .. k /\ j \in 1 .. k
    BY <1>3, <1>6, <1>12, <2>2
  <2>3. CASE i = k + 1 /\ j \in 1 .. k
    BY <1>6, <1>10, <1>12, <2>3
  <2>4. CASE i \in 1 .. k /\ j = k + 1
    BY <1>6, <1>10, <1>12, <2>4
  <2>5. CASE i = k + 1 /\ j = k + 1
    BY <2>5
  <2> QED BY <2>1, <2>2, <2>3, <2>4, <2>5
<1>13. Sound(m, out.heap, out.slots, longer)
  BY <1>4, <1>6, <1>11, <1>12 DEF Sound
<1> QED BY <1>8, <1>9, <1>13 DEF out, emptied, longer

\* What waits is not due before the front.
LEMMA NoneBeforeFront ==
    ASSUME NEW m \in Nat, NEW heap \in Seq(1 .. m), NEW slots \in [1 .. m -> Slot],
           Whole(heap, slots), NEW i \in 1 .. m, slots[i].heapIndex # 0
    PROVE  heap # <<>> /\ slots[heap[1]].deadline <= slots[i].deadline
<1> DEFINE q == slots[i].heapIndex
<1>1. DOMAIN heap = 1 .. Len(heap) /\ DOMAIN slots = 1 .. m /\ Len(heap) \in Nat
  BY HeapFacts
<1>2. q \in 1 .. Len(heap) /\ heap[q] = i
  BY <1>1 DEF Whole
<1> HIDE DEF q
<1>3. slots[heap[1]].deadline <= slots[heap[q]].deadline
  BY <1>2, FrontIsFirst
<1>4. heap # <<>>
  BY <1>2
<1> QED BY <1>2, <1>3, <1>4

LEMMA FrontWaits ==
    ASSUME NEW m \in Nat, NEW heap \in Seq(1 .. m), NEW slots \in [1 .. m -> Slot],
           Whole(heap, slots), heap # <<>>
    PROVE  heap[1] \in 1 .. m /\ slots[heap[1]].heapIndex = 1
<1>1. 1 \in 1 .. Len(heap) /\ DOMAIN heap = 1 .. Len(heap)
  BY LenProperties, EmptySeq
<1> QED BY <1>1, HeapFacts
\* What InternalCancel does to the slots.
Stopped(m, old, new, tok) ==
    /\ \A i \in 1 .. m : new[i].deadline = old[i].deadline
    /\ ~ TokenValid(old, tok) => new = old
    /\ TokenValid(old, tok) => /\ Others(m, old, new, tok.slot)
                               /\ new[tok.slot].seq = old[tok.slot].seq + 1
                               /\ new[tok.slot].heapIndex = 0

LEMMA CancelFacts ==
    ASSUME NEW m \in Nat, NEW heap, NEW slots, NEW free, Sound(m, heap, slots, free), NEW tok
    PROVE  LET left == InternalCancel(heap, slots, free, tok)
           IN  Sound(m, left.heap, left.slots, left.free) /\ Stopped(m, slots, left.slots, tok)
<1> DEFINE left == InternalCancel(heap, slots, free, tok)
           s == tok.slot
           x == Freed(slots[s])
           out == FillHole(heap, [slots EXCEPT ![s] = x], slots[s].heapIndex)
<1>1. slots \in [1 .. m -> Slot] /\ DOMAIN slots = 1 .. m
  BY DEF Sound
<1>2. CASE ~ TokenValid(slots, tok)
  <2>1. left.heap = heap /\ left.slots = slots /\ left.free = free
    BY <1>2 DEF InternalCancel
  <2>2. Stopped(m, slots, slots, tok)
    BY <1>2 DEF Stopped
  <2> QED BY <2>1, <2>2
<1>3. CASE TokenValid(slots, tok)
  <2>1. s \in 1 .. m /\ slots[s].heapIndex # 0
    BY <1>1, <1>3 DEF TokenValid
  <2> DEFINE y == slots[s]
  <2>2. y \in Slot
    BY <1>1, <2>1
  <2>3. /\ x \in Slot /\ x.heapIndex = 0 /\ x.seq = y.seq + 1 /\ x.deadline = y.deadline
    <3> DEFINE k == y.seq + 1
    <3>1. x = [y EXCEPT !.heapIndex = 0, !.callback = Null, !.seq = k]
      BY DEF Freed
    <3>2. k \in Nat
      BY <2>2 DEF Slot
    <3> HIDE DEF y, x, k
    <3>3. /\ x \in Slot /\ x.heapIndex = 0 /\ x.seq = k /\ x.deadline = y.deadline
      BY <2>2, <3>1, <3>2 DEF Slot
    <3> QED BY <3>3 DEF k
  <2>4. left.heap = out.heap /\ left.slots = out.slots /\ left.free = Append(free, s)
    <3>1. [slots EXCEPT ![s] = Freed(@)] = [slots EXCEPT ![s] = x]
      OBVIOUS
    <3>2. left = [heap |-> out.heap, slots |-> out.slots, free |-> Append(free, s)]
      BY <1>3, <3>1 DEF InternalCancel
    <3> QED BY <3>2
  <2> HIDE DEF x
  <2>5. /\ Sound(m, out.heap, out.slots, Append(free, s)) /\ Others(m, slots, out.slots, s)
        /\ out.slots[s].deadline = x.deadline /\ out.slots[s].seq = x.seq
        /\ out.slots[s].heapIndex = 0
    <3>1. /\ m \in Nat /\ Sound(m, heap, slots, free) /\ s \in 1 .. m /\ slots[s].heapIndex # 0
          /\ x \in Slot /\ x.heapIndex = 0
      BY <2>1, <2>3
    <3> HIDE DEF s
    <3> QED BY <3>1, RemovalFacts
  <2> HIDE DEF out
  <2>6. \A i \in 1 .. m : out.slots[i].deadline = slots[i].deadline
    <3> TAKE i \in 1 .. m
    <3>1. CASE i = s
      BY <2>3, <2>5, <3>1
    <3>2. CASE i # s
      BY <2>5, <3>2 DEF Others
    <3> QED BY <3>1, <3>2
  <2>7. Stopped(m, slots, out.slots, tok)
    BY <1>3, <2>3, <2>5, <2>6 DEF Stopped
  <2> HIDE DEF left
  <2>8. Sound(m, left.heap, left.slots, left.free) /\ Stopped(m, slots, left.slots, tok)
    BY <2>4, <2>5, <2>7
  <2> QED BY <2>8 DEF left
<1> QED BY <1>2, <1>3

\* Slots that differ in one, which is out of the heap, and may be one more.
DifferInOne(m, n, was, taken, s) ==
    /\ m \in Nat /\ n \in Nat /\ m <= n /\ s \in 1 .. n
    /\ was \in [1 .. m -> Slot] /\ taken \in [1 .. n -> Slot] /\ taken[s].heapIndex = 0
    /\ \A i \in 1 .. n \ {s} : i \in 1 .. m /\ taken[i] = was[i]
    /\ s \in 1 .. m => was[s].heapIndex = 0

\* A slot more, or one that had no place: the heap stays whole.
LEMMA OneMoreSlot ==
    ASSUME NEW m, NEW n, NEW heap, NEW was, NEW taken, NEW s, DifferInOne(m, n, was, taken, s),
           heap \in Seq(1 .. m), Whole(heap, was)
    PROVE  heap \in Seq(1 .. n) /\ Whole(heap, taken)
<1> USE DEF DifferInOne
<1> DEFINE k == Len(heap)
<1>0. m \in Nat /\ heap \in Seq(1 .. m) /\ was \in [1 .. m -> Slot] /\ Whole(heap, was)
  OBVIOUS
<1>1. k \in Nat /\ DOMAIN heap = 1 .. k /\ DOMAIN was = 1 .. m /\ DOMAIN taken = 1 .. n
      /\ \A q \in 1 .. k : heap[q] \in 1 .. m /\ was[heap[q]].heapIndex = q
  BY <1>0, HeapFacts
<1>2. \A q \in 1 .. k : heap[q] # s
  BY <1>1
<1>3. 1 .. m \subseteq 1 .. n
  OBVIOUS
<1>4. heap \in Seq(1 .. n)
  <2> DEFINE T == 1 .. n
             U == 1 .. m
  <2>1. U \subseteq T /\ heap \in Seq(U)
    BY <1>3
  <2> HIDE DEF T, U
  <2>2. heap \in Seq(T)
    BY <2>1, SeqMonotonic
  <2> QED BY <2>2 DEF T
<1>5. \A q \in 1 .. k : taken[heap[q]] = was[heap[q]]
  BY <1>1, <1>2, <1>3
<1>6. \A p \in 2 .. k : p \div 2 \in 1 .. k /\ was[heap[p \div 2]].deadline <= was[heap[p]].deadline
  BY <1>0, HeapFacts
<1>7. \A p \in 1 .. k : p > 1 => p \in 2 .. k
  OBVIOUS
<1>8. \A p \in 1 .. k : p > 1 => taken[heap[p \div 2]].deadline <= taken[heap[p]].deadline
  BY <1>5, <1>6, <1>7
<1>9. \A p \in 1 .. k : taken[heap[p]].heapIndex = p
  BY <1>1, <1>5
<1>10. ASSUME NEW i \in 1 .. n, taken[i].heapIndex # 0
       PROVE  taken[i].heapIndex \in 1 .. k /\ heap[taken[i].heapIndex] = i
  <2>1. i \in 1 .. m /\ taken[i] = was[i]
    BY <1>10
  <2> QED BY <1>0, <1>1, <1>10, <2>1 DEF Whole
<1>11. HeapInOrder(heap, taken)
  BY <1>1, <1>8, <1>9 DEF HeapInOrder
<1>12. Whole(heap, taken)
  BY <1>1, <1>10, <1>11 DEF Whole
<1> QED BY <1>4, <1>12

\* Tokens once the new token of client c is made out and the old one is cancelled.
LEMMA NewToken ==
    ASSUME NEW m \in Nat, NEW slots \in [1 .. m -> Slot], NEW new \in [1 .. m -> Slot],
           NEW total \in Nat, NEW tokens \in [Clients -> [slot : 0 .. m, seq : Nat]],
           NEW c \in Clients, NEW tok \in [slot : 0 .. m, seq : Nat], tok.seq <= 2 * total,
           \A i \in 1 .. m : slots[i].heapIndex # 0 => slots[i].callback \in Clients,
           \A i \in 1 .. m : slots[i].heapIndex # 0 /\ i # tok.slot =>
               tokens[slots[i].callback] = [slot |-> i, seq |-> slots[i].seq],
           \A d \in Clients : 
               /\ tokens[d].seq <= 2 * total
               /\ tokens[d].slot # 0 => tokens[d].seq <= slots[tokens[d].slot].seq
               /\ TokenValid(slots, tokens[d]) => slots[tokens[d].slot].callback = d,
           tok.slot # 0 =>
               /\ slots[tok.slot].heapIndex # 0 /\ slots[tok.slot].callback = c
               /\ slots[tok.slot].seq = tok.seq,
           Stopped(m, slots, new, tokens[c])
    PROVE  Led(m, new, [tokens EXCEPT ![c] = tok], total)
<1> DEFINE after == [tokens EXCEPT ![c] = tok]
           old == tokens[c]
<1>1. /\ after \in [Clients -> [slot : 0 .. m, seq : Nat]] /\ after[c] = tok
      /\ \A d \in Clients \ {c} : after[d] = tokens[d]
  OBVIOUS
<1>2. DOMAIN slots = 1 .. m /\ DOMAIN new = 1 .. m /\ old \in [slot : 0 .. m, seq : Nat]
  OBVIOUS
<1> HIDE DEF after
<1>3. ASSUME NEW i \in 1 .. m
      PROVE  /\ new[i].heapIndex # 0 =>
                    /\ slots[i].heapIndex # 0 /\ new[i].callback = slots[i].callback
                    /\ new[i].seq = slots[i].seq /\ (i = old.slot => ~ TokenValid(slots, old))
             /\ slots[i].seq <= new[i].seq
  <2>1. slots[i].seq \in Nat
    BY DEF Slot
  <2>2. CASE ~ TokenValid(slots, old)
    BY <2>1, <2>2 DEF Stopped
  <2>3. CASE TokenValid(slots, old) /\ i = old.slot
    BY <2>1, <2>3 DEF Stopped
  <2>4. CASE TokenValid(slots, old) /\ i # old.slot
    BY <2>1, <2>4 DEF Stopped, Others
  <2> QED BY <2>2, <2>3, <2>4
<1> HIDE DEF old
<1>4. ASSUME NEW i \in 1 .. m, new[i].heapIndex # 0
      PROVE  after[new[i].callback] = [slot |-> i, seq |-> new[i].seq]
  <2>1. /\ slots[i].heapIndex # 0 /\ new[i].callback = slots[i].callback
        /\ new[i].seq = slots[i].seq /\ (i = old.slot => ~ TokenValid(slots, old))
        /\ slots[i].callback \in Clients
    BY <1>3, <1>4
  <2>2. CASE i = tok.slot
    <3>1. slots[i].callback = c /\ slots[i].seq = tok.seq
      BY <2>2
    <3>2. tok = [slot |-> tok.slot, seq |-> tok.seq]
      OBVIOUS
    <3> QED BY <1>1, <2>1, <2>2, <3>1, <3>2
  <2>3. CASE i # tok.slot
    <3>1. tokens[slots[i].callback] = [slot |-> i, seq |-> slots[i].seq]
      BY <2>1, <2>3
    <3>2. slots[i].callback # c
      <4>1. SUFFICES ASSUME slots[i].callback = c PROVE FALSE
        OBVIOUS
      <4>2. old.slot = i /\ old.seq = slots[i].seq
        BY <3>1, <4>1 DEF old
      <4>3. TokenValid(slots, old)
        BY <1>2, <2>1, <4>2 DEF TokenValid
      <4> QED BY <2>1, <4>2, <4>3
    <3> QED BY <1>1, <2>1, <3>1, <3>2
  <2> QED BY <2>2, <2>3
<1>5. ASSUME NEW d \in Clients
      PROVE  /\ after[d].seq <= 2 * total
             /\ after[d].slot # 0 => after[d].seq <= new[after[d].slot].seq
             /\ TokenValid(new, after[d]) => new[after[d].slot].callback = d
  <2>1. after[d] \in [slot : 0 .. m, seq : Nat] /\ after[d].slot \in 0 .. m /\ after[d].seq \in Nat
    BY <1>1
  <2> DEFINE i == after[d].slot
  <2>2. after[d].seq <= 2 * total /\ (i # 0 => after[d].seq <= slots[i].seq)
    <3>1. CASE d = c
      <4>1. tok.slot # 0 => tok.slot \in 1 .. m /\ slots[tok.slot].seq = tok.seq
        OBVIOUS
      <4> QED BY <1>1, <2>1, <3>1, <4>1
    <3>2. CASE d # c
      BY <1>1, <3>2
    <3> QED BY <3>1, <3>2
  <2>3. i # 0 => after[d].seq <= new[i].seq
    <3> SUFFICES ASSUME i # 0 PROVE after[d].seq <= new[i].seq
      OBVIOUS
    <3>1. i \in 1 .. m
      BY <2>1
    <3>2. slots[i].seq <= new[i].seq /\ after[d].seq <= slots[i].seq
      BY <1>3, <2>2, <3>1
    <3>3. slots[i].seq \in Nat /\ new[i].seq \in Nat /\ after[d].seq \in Nat
      BY <2>1, <3>1 DEF Slot
    <3> DEFINE x == after[d].seq
               y == slots[i].seq
               z == new[i].seq
    <3>4. x \in Nat /\ y \in Nat /\ z \in Nat /\ x <= y /\ y <= z
      BY <3>2, <3>3
    <3> HIDE DEF x, y, z
    <3>5. x <= z
      BY <3>4
    <3> QED BY <3>5 DEF x, z
  <2>4. ASSUME TokenValid(new, after[d]) PROVE new[i].callback = d
    <3>1. i \in 1 .. m /\ new[i].heapIndex # 0 /\ new[i].seq = after[d].seq
      BY <1>2, <2>4 DEF TokenValid
    <3>2. /\ slots[i].heapIndex # 0 /\ new[i].callback = slots[i].callback
          /\ new[i].seq = slots[i].seq
      BY <1>3, <3>1
    <3>3. CASE d = c
      <4>1. tok.slot = i /\ tok.slot # 0
        BY <1>1, <3>1, <3>3
      <4>2. slots[tok.slot].callback = c
        BY <4>1
      <4> QED BY <3>2, <3>3, <4>1, <4>2
    <3>4. CASE d # c
      <4>1. after[d] = tokens[d]
        BY <1>1, <3>4
      <4>2. TokenValid(slots, tokens[d])
        BY <1>2, <3>1, <3>2, <4>1 DEF TokenValid
      <4>3. slots[tokens[d].slot].callback = d
        BY <4>2
      <4> QED BY <3>2, <4>1, <4>3
    <3> QED BY <3>3, <3>4
  <2> QED BY <2>2, <2>3, <2>4
<1>6. Led(m, new, after, total)
  BY <1>1, <1>4, <1>5 DEF Led
<1> QED BY <1>6 DEF after
\* What Request has done when slot s, of n, is in the heap: it was free, or is new.
PutFor(n, s, put, free, deadline, c, seq) ==
    /\ n \in Nat /\ (n = Len(mSlots) \/ (n = Len(mSlots) + 1 /\ mFreeSlots = <<>>))
    /\ s \in 1 .. n /\ \A i \in 1 .. n \ {s} : i \in 1 .. Len(mSlots)
    /\ Sound(n, put.heap, put.slots, free)
    /\ Others(n, mSlots, put.slots, s)
    /\ put.slots[s].deadline = deadline /\ put.slots[s].callback = c
    /\ put.slots[s].seq = seq /\ put.slots[s].heapIndex # 0
    /\ IF s \in 1 .. Len(mSlots) THEN seq = mSlots[s].seq + 1 /\ mSlots[s].heapIndex = 0
                                 ELSE seq = 1

LEMMA OccupiedFields ==
    ASSUME NEW slot \in Slot, NEW deadline \in Nat, NEW c \in Clients
    PROVE  LET x == Occupied(slot, deadline, c)
           IN  /\ x \in Slot /\ x.deadline = deadline /\ x.seq = slot.seq + 1
               /\ x.heapIndex = slot.heapIndex /\ x.callback = c
<1> DEFINE k == slot.seq + 1
           x == Occupied(slot, deadline, c)
<1>1. x = [slot EXCEPT !.deadline = deadline, !.callback = c, !.seq = k]
  BY DEF Occupied
<1>2. k \in Nat
  BY DEF Slot
<1> HIDE DEF x, k
<1>3. /\ x \in Slot /\ x.deadline = deadline /\ x.seq = k
      /\ x.heapIndex = slot.heapIndex /\ x.callback = c
  BY <1>1, <1>2 DEF Slot
<1> QED BY <1>3 DEF x, k

LEMMA RequestPuts ==
    ASSUME Len(mSlots) \in Nat, Sound(Len(mSlots), mHeap, mSlots, mFreeSlots),
           NEW deadline \in Nat, NEW c \in Clients
    PROVE  LET s     == SlotFor
               slots == IF mFreeSlots = <<>> THEN Append(mSlots, NewSlot) ELSE mSlots
               taken == [slots EXCEPT ![s] = Occupied(@, deadline, c)]
               put   == Insert(mHeap, taken, s)
               free  == IF mFreeSlots = <<>> THEN <<>> ELSE Front(mFreeSlots)
           IN  \E n : PutFor(n, s, put, free, deadline, c, taken[s].seq)
<1> DEFINE m == Len(mSlots)
           T == 1 .. m
           k == Len(mFreeSlots)
           s == SlotFor
           slots == IF mFreeSlots = <<>> THEN Append(mSlots, NewSlot) ELSE mSlots
           taken == [slots EXCEPT ![s] = Occupied(@, deadline, c)]
           put == Insert(mHeap, taken, s)
           free == IF mFreeSlots = <<>> THEN <<>> ELSE Front(mFreeSlots)
           n == IF mFreeSlots = <<>> THEN m + 1 ELSE m
<1>1. /\ m \in Nat /\ mSlots \in [1 .. m -> Slot] /\ mHeap \in Seq(1 .. m) /\ Whole(mHeap, mSlots)
      /\ mFreeSlots \in Seq(T)
  BY DEF Sound
<1>2. \A i \in 1 .. m : mSlots[i].heapIndex = 0 <=> \E j \in 1 .. k : mFreeSlots[j] = i
  BY DEF Sound
<1>3. \A i, j \in 1 .. k : mFreeSlots[i] = mFreeSlots[j] => i = j
  BY DEF Sound
<1>4. k \in Nat /\ \A j \in 1 .. k : mFreeSlots[j] \in T
  BY <1>1, LenProperties, ElementOfSeq
<1>5. mSlots \in Seq(Slot)
  <2> HIDE DEF m
  <2> QED BY <1>1, SeqDef
<1>6. NewSlot \in Slot /\ NewSlot.seq = 0 /\ NewSlot.heapIndex = 0
  BY DEF NewSlot, Slot
<1>7. /\ n \in Nat /\ (n = m \/ (n = m + 1 /\ mFreeSlots = <<>>)) /\ m <= n /\ s \in 1 .. n
      /\ \A i \in 1 .. n \ {s} : i \in 1 .. m
      /\ slots \in [1 .. n -> Slot] /\ slots[s].heapIndex = 0
      /\ \A i \in 1 .. n \ {s} : slots[i] = mSlots[i]
      /\ slots[s].seq = (IF s \in 1 .. m THEN mSlots[s].seq ELSE 0)
      /\ s \in 1 .. m => mSlots[s].heapIndex = 0
  <2>1. CASE mFreeSlots = <<>>
    <3>1. n = m + 1 /\ s = m + 1 /\ slots = Append(mSlots, NewSlot)
      BY <2>1 DEF SlotFor
    <3> DEFINE f == Append(mSlots, NewSlot)
    <3>2. /\ f \in Seq(Slot) /\ Len(f) = m + 1 /\ f[m + 1] = NewSlot
          /\ \A i \in 1 .. m : f[i] = mSlots[i]
      BY <1>5, <1>6, AppendProperties
    <3>3. f \in [1 .. m + 1 -> Slot]
      BY <3>2, LenProperties
    <3> HIDE DEF f, slots, n, s, m
    <3>4. slots = f
      BY <3>1 DEF f
    <3>5. n \in Nat /\ m <= n /\ s \in 1 .. n /\ s \notin 1 .. m /\ \A i \in 1 .. n \ {s} : i \in 1 .. m
      BY <1>1, <3>1
    <3> QED BY <1>6, <2>1, <3>1, <3>2, <3>3, <3>4, <3>5
  <2>2. CASE mFreeSlots # <<>>
    <3>1. n = m /\ s = Last(mFreeSlots) /\ slots = mSlots
      BY <2>2 DEF SlotFor
    <3>2. k \in 1 .. k /\ s = mFreeSlots[k]
      BY <1>1, <1>4, <2>2, <3>1, EmptySeq DEF Last
    <3>3. s \in 1 .. m /\ mSlots[s].heapIndex = 0
      BY <1>2, <1>4, <3>2
    <3> HIDE DEF slots, n, s, m
    <3> QED BY <1>1, <3>1, <3>3
  <2> QED BY <2>1, <2>2
<1>8. /\ free \in Seq(T)
      /\ \A i \in 1 .. m \ {s} : mSlots[i].heapIndex = 0 <=> \E j \in 1 .. Len(free) : free[j] = i
      /\ \A j \in 1 .. Len(free) : free[j] # s
      /\ \A i, j \in 1 .. Len(free) : free[i] = free[j] => i = j
  <2>1. CASE mFreeSlots = <<>>
    <3>1. free = <<>> /\ Len(free) = 0 /\ k = 0
      BY <2>1
    <3>2. 1 .. k = {} /\ 1 .. Len(free) = {}
      <4> HIDE DEF k, free
      <4> QED BY <3>1
    <3>3. free \in Seq(T)
      BY <3>1
    <3> HIDE DEF k, free, s, m, T
    <3>4. \A i \in 1 .. m : mSlots[i].heapIndex = 0 <=> \E j \in 1 .. Len(free) : free[j] = i
      BY <1>2, <3>2
    <3> QED BY <3>2, <3>3, <3>4
  <2>2. CASE mFreeSlots # <<>>
    <3>1. k > 0 /\ s = mFreeSlots[k] /\ k \in 1 .. k
      BY <1>1, <1>4, <2>2, EmptySeq DEF SlotFor, Last
    <3>2. free = Front(mFreeSlots)
      BY <2>2
    <3>9. mFreeSlots \in Seq(T) /\ Len(mFreeSlots) > 0
      BY <1>1, <3>1
    <3> HIDE DEF T, free, s, m
    <3>8. /\ Front(mFreeSlots) \in Seq(T) /\ Len(Front(mFreeSlots)) = Len(mFreeSlots) - 1
          /\ \A j \in 1 .. Len(mFreeSlots) - 1 : Front(mFreeSlots)[j] = mFreeSlots[j]
      BY <3>9, FrontFacts
    <3>3. /\ free \in Seq(T) /\ Len(free) = k - 1
          /\ \A j \in 1 .. k - 1 : free[j] = mFreeSlots[j]
      BY <3>2, <3>8
    <3> HIDE DEF free, k, s
    <3>4. \A j \in 1 .. k - 1 : j \in 1 .. k /\ j # k
      BY <1>4
    <3>5. \A j \in 1 .. k - 1 : free[j] # s
      BY <1>3, <3>1, <3>3, <3>4
    <3>6. \A i, j \in 1 .. k - 1 : free[i] = free[j] => i = j
      BY <1>3, <3>3, <3>4
    <3>7. ASSUME NEW i \in 1 .. m \ {s}
          PROVE  mSlots[i].heapIndex = 0 <=> \E j \in 1 .. k - 1 : free[j] = i
      <4>1. \A j \in 1 .. k : mFreeSlots[j] = i => j \in 1 .. k - 1 /\ free[j] = i
        <5> TAKE j \in 1 .. k
        <5> HAVE mFreeSlots[j] = i
        <5>1. j # k
          BY <3>1
        <5>2. j \in 1 .. k - 1
          BY <1>4, <5>1
        <5> QED BY <3>3, <5>2
      <4>2. \A j \in 1 .. k - 1 : free[j] = i => j \in 1 .. k /\ mFreeSlots[j] = i
        BY <3>3, <3>4
      <4> QED BY <1>2, <4>1, <4>2
    <3> QED BY <3>3, <3>5, <3>6, <3>7
  <2> QED BY <2>1, <2>2
<1> DEFINE x == Occupied(slots[s], deadline, c)
<1>9. /\ x \in Slot /\ x.deadline = deadline /\ x.seq = slots[s].seq + 1
      /\ x.heapIndex = 0 /\ x.callback = c
  <2>1. slots[s] \in Slot /\ slots[s].heapIndex = 0
    <3> HIDE DEF slots, n, s, m
    <3> QED BY <1>7
  <2> HIDE DEF slots, s
  <2> QED BY <2>1, OccupiedFields
<1>10. /\ taken \in [1 .. n -> Slot] /\ taken[s] = x
       /\ \A i \in 1 .. n \ {s} : taken[i] = mSlots[i]
  <2>1. taken = [slots EXCEPT ![s] = x]
    OBVIOUS
  <2> HIDE DEF x, slots, n, s, m, taken
  <2> QED BY <1>7, <1>9, <2>1
<1> HIDE DEF x, slots, n, s, m, k, free, taken, T
<1>11. mHeap \in Seq(1 .. n) /\ Whole(mHeap, taken)
  <2>1. /\ m \in Nat /\ n \in Nat /\ m <= n /\ mHeap \in Seq(1 .. m) /\ mSlots \in [1 .. m -> Slot]
        /\ Whole(mHeap, mSlots) /\ taken \in [1 .. n -> Slot] /\ s \in 1 .. n
        /\ taken[s].heapIndex = 0 /\ (s \in 1 .. m => mSlots[s].heapIndex = 0)
    BY <1>1, <1>7, <1>9, <1>10
  <2>2. \A i \in 1 .. n \ {s} : i \in 1 .. m /\ taken[i] = mSlots[i]
    BY <1>7, <1>10
  <2>3. DifferInOne(m, n, mSlots, taken, s)
    BY <2>1, <2>2 DEF DifferInOne
  <2> QED BY <2>1, <2>3, OneMoreSlot
<1>12. /\ put.heap \in Seq(1 .. n) /\ put.slots \in [1 .. n -> Slot]
       /\ Whole(put.heap, put.slots) /\ Placed(taken, put.slots, s)
  <2>1. n \in Nat /\ s \in 1 .. n /\ taken[s].heapIndex = 0
    BY <1>7, <1>9, <1>10
  <2> QED BY <1>10, <1>11, <2>1, InsertFacts
<1> HIDE DEF put
<1>13. /\ Others(n, mSlots, put.slots, s)
       /\ put.slots[s].deadline = deadline /\ put.slots[s].callback = c
       /\ put.slots[s].seq = taken[s].seq /\ put.slots[s].heapIndex # 0
  <2>1. DOMAIN taken = 1 .. n /\ s \in 1 .. n
    BY <1>7, <1>10
  <2>2. /\ put.slots[s].deadline = deadline /\ put.slots[s].callback = c
        /\ put.slots[s].seq = taken[s].seq /\ put.slots[s].heapIndex # 0
    BY <1>9, <1>10, <1>12, <2>1 DEF Placed
  <2>3. ASSUME NEW i \in 1 .. n \ {s}
        PROVE  /\ put.slots[i].deadline = mSlots[i].deadline
               /\ put.slots[i].seq = mSlots[i].seq
               /\ put.slots[i].callback = mSlots[i].callback
               /\ put.slots[i].heapIndex = 0 <=> mSlots[i].heapIndex = 0
    <3>1. taken[i] = mSlots[i]
      BY <1>10
    <3>2. /\ put.slots[i].deadline = taken[i].deadline
          /\ put.slots[i].seq = taken[i].seq
          /\ put.slots[i].callback = taken[i].callback
          /\ put.slots[i].heapIndex = 0 <=> taken[i].heapIndex = 0
      BY <1>12, <2>1 DEF Placed
    <3> QED BY <3>1, <3>2
  <2> QED BY <2>2, <2>3 DEF Others
<1>14. Sound(n, put.heap, put.slots, free)
  <2>1. free \in Seq(1 .. n)
    <3> DEFINE U == 1 .. n
    <3>1. T \subseteq U
      BY <1>1, <1>7 DEF T
    <3> HIDE DEF U
    <3>2. free \in Seq(U)
      BY <1>8, <3>1, SeqMonotonic
    <3> QED BY <3>2 DEF U
  <2>2. ASSUME NEW i \in 1 .. n
        PROVE  put.slots[i].heapIndex = 0 <=> \E j \in 1 .. Len(free) : free[j] = i
    <3>1. CASE i = s
      BY <1>8, <1>13, <3>1
    <3>2. CASE i # s
      <4>1. put.slots[i].heapIndex = 0 <=> mSlots[i].heapIndex = 0
        BY <1>13, <3>2 DEF Others
      <4>2. i \in 1 .. m \ {s}
        BY <1>7, <3>2
      <4> QED BY <1>8, <4>1, <4>2
    <3> QED BY <3>1, <3>2
  <2>3. \A i, j \in 1 .. Len(free) : free[i] = free[j] => i = j
    BY <1>8
  <2> QED BY <1>12, <2>1, <2>2, <2>3 DEF Sound
<1>15. IF s \in 1 .. m THEN taken[s].seq = mSlots[s].seq + 1 /\ mSlots[s].heapIndex = 0
                       ELSE taken[s].seq = 1
  BY <1>7, <1>9, <1>10
<1>16. PutFor(n, s, put, free, deadline, c, taken[s].seq)
  BY <1>7, <1>13, <1>14, <1>15 DEF PutFor, m
<1> QED BY <1>16 DEF put, free, taken, slots, s
LEMMA Quotients ==
    ASSUME NEW a \in Nat, NEW b \in Nat, NEW q \in Nat \ {0}, a <= b
    PROVE  a \div q \in Nat /\ b \div q \in Nat /\ a \div q <= b \div q
<1> DEFINE x == a \div q
           y == b \div q
<1>1. x \in Nat /\ y \in Nat
  OBVIOUS
<1>2. x * q <= a /\ b < (y + 1) * q
  OBVIOUS
<1> HIDE DEF x, y
<1>3. SUFFICES ASSUME y + 1 <= x PROVE FALSE
  BY <1>1 DEF x, y
<1>4. (y + 1) * q <= x * q
  BY <1>1, <1>3
<1> QED BY <1>1, <1>2, <1>4

\* When no slot is free, each is waiting for a client of its own.
LEMMA NoMoreSlotsThanClients ==
    ASSUME Kept, mFreeSlots = <<>>
    PROVE  Len(mSlots) <= Cardinality(Clients)
<1> DEFINE m == Len(mSlots)
           f == [i \in 1 .. m |-> mSlots[i].callback]
<1>1. IsFiniteSet(Clients)
  BY TimerAssumption
<1>2. m \in Nat
  BY DEF Kept
<1>3. \A i \in 1 .. m : mSlots[i].heapIndex # 0
  <2>1. 1 .. Len(mFreeSlots) = {}
    OBVIOUS
  <2> QED BY <2>1 DEF Kept, Sound
<1>4. \A i \in 1 .. m : mSlots[i].callback \in Clients
  BY <1>3 DEF Kept, Bounded
<1>5. \A i \in 1 .. m : token[mSlots[i].callback].slot = i
  <2> TAKE i \in 1 .. m
  <2>1. token[mSlots[i].callback] = [slot |-> i, seq |-> mSlots[i].seq]
    BY <1>3 DEF Kept, Led
  <2> QED BY <2>1
<1>6. f \in Injection(1 .. m, Clients)
  <2>1. f \in [1 .. m -> Clients]
    BY <1>4
  <2>2. \A i, j \in 1 .. m : f[i] = f[j] => i = j
    BY <1>5
  <2> HIDE DEF f
  <2> QED BY <2>1, <2>2 DEF Injection, IsInjective
<1>7. IsFiniteSet(1 .. m) /\ Cardinality(1 .. m) = m
  <2>1. 1 \in Int /\ m \in Int
    BY <1>2
  <2>2. Cardinality(1 .. m) = (IF 1 > m THEN 0 ELSE m - 1 + 1) /\ IsFiniteSet(1 .. m)
    BY <2>1, FS_Interval
  <2> HIDE DEF m
  <2> QED BY <1>2, <2>2
<1> HIDE DEF f
<1>8. Cardinality(1 .. m) <= Cardinality(Clients)
  BY <1>1, <1>6, <1>7, FS_Injection
<1> QED BY <1>7, <1>8

\* The steps of Request.
LEMMA RequestSteps ==
    ASSUME Kept, NEW c \in Clients, NEW delay \in Delays, Request(c, delay)
    PROVE  \E n, s, put, free, seq : \E deadline \in Deadlines :
               /\ PutFor(n, s, put, free, deadline, c, seq)
               /\ Sound(n, mHeap', mSlots', mFreeSlots')
               /\ Stopped(n, put.slots, mSlots', token[c])
               /\ token' = [token EXCEPT ![c] = [slot |-> s, seq |-> seq]]
               /\ IF put.heap[1] = s THEN Rearm(now, deadline) /\ raced' = (run.at = "rearm")
                                     ELSE UNCHANGED timers
<1> DEFINE deadline == (now + delay) \div Quantum
           s     == SlotFor
           slots == IF mFreeSlots = <<>> THEN Append(mSlots, NewSlot) ELSE mSlots
           taken == [slots EXCEPT ![s] = Occupied(@, deadline, c)]
           put   == Insert(mHeap, taken, s)
           free  == IF mFreeSlots = <<>> THEN <<>> ELSE Front(mFreeSlots)
           left  == InternalCancel(put.heap, put.slots, free, token[c])
           seq   == taken[s].seq
<1>1. deadline \in Deadlines /\ deadline \in Nat
  <2>1. now + delay \in Nat /\ MaxTime \in Nat /\ now + delay <= MaxTime
    <3>1. now \in Nat /\ LastRequest \in Nat /\ delay \in Nat /\ MaxTime \in Nat
          /\ LastRequest + delay <= MaxTime /\ now <= LastRequest
      BY TimerAssumption DEF Kept, Simple, Request
    <3> QED BY <3>1
  <2>2. Quantum \in Nat \ {0}
    BY TimerAssumption
  <2> DEFINE a == now + delay
  <2> HIDE DEF a
  <2>3. a \div Quantum \in Nat /\ MaxTime \div Quantum \in Nat /\ a \div Quantum <= MaxTime \div Quantum
    BY <2>1, <2>2, Quotients DEF a
  <2> QED BY <2>3 DEF Deadlines, a
<1>2. /\ mHeap' = left.heap /\ mSlots' = left.slots /\ mFreeSlots' = left.free
      /\ token' = [token EXCEPT ![c] = [slot |-> s, seq |-> seq]]
      /\ IF put.heap[1] = s THEN Rearm(now, deadline) /\ raced' = (run.at = "rearm")
                            ELSE UNCHANGED timers
  BY DEF Request
<1> HIDE DEF deadline
<1>3. \E n : PutFor(n, s, put, free, deadline, c, seq)
  <2>1. Len(mSlots) \in Nat /\ Sound(Len(mSlots), mHeap, mSlots, mFreeSlots)
    BY DEF Kept
  <2> QED BY <1>1, <2>1, RequestPuts
<1> HIDE DEF put, free, seq
<1>4. PICK n : PutFor(n, s, put, free, deadline, c, seq)
  BY <1>3
<1>5. n \in Nat /\ Sound(n, put.heap, put.slots, free)
  BY <1>4 DEF PutFor
<1>6. Sound(n, left.heap, left.slots, left.free) /\ Stopped(n, put.slots, left.slots, token[c])
  BY <1>5, CancelFacts
<1> HIDE DEF left, s
<1>7. /\ PutFor(n, s, put, free, deadline, c, seq)
      /\ Sound(n, mHeap', mSlots', mFreeSlots')
      /\ Stopped(n, put.slots, mSlots', token[c])
      /\ token' = [token EXCEPT ![c] = [slot |-> s, seq |-> seq]]
      /\ IF put.heap[1] = s THEN Rearm(now, deadline) /\ raced' = (run.at = "rearm")
                            ELSE UNCHANGED timers
  BY <1>2, <1>4, <1>6
<1> QED BY <1>1, <1>7
LEMMA SlotsLength ==
    ASSUME NEW n \in Nat, NEW slots \in [1 .. n -> Slot]
    PROVE  Len(slots) = n
<1>1. slots \in Seq(Slot)
  BY SeqDef
<1> QED BY <1>1, LenProperties

LEMMA RequestKept ==
    ASSUME Kept, NEW c \in Clients, NEW delay \in Delays, Request(c, delay)
    PROVE  Kept'
<1> DEFINE m == Len(mSlots)
<1>1. PICK n, s, put, free, seq : \E deadline \in Deadlines :
          /\ PutFor(n, s, put, free, deadline, c, seq)
          /\ Sound(n, mHeap', mSlots', mFreeSlots')
          /\ Stopped(n, put.slots, mSlots', token[c])
          /\ token' = [token EXCEPT ![c] = [slot |-> s, seq |-> seq]]
          /\ IF put.heap[1] = s THEN Rearm(now, deadline) /\ raced' = (run.at = "rearm")
                                ELSE UNCHANGED timers
  BY RequestSteps
<1>2. PICK deadline \in Deadlines :
          /\ PutFor(n, s, put, free, deadline, c, seq)
          /\ Sound(n, mHeap', mSlots', mFreeSlots')
          /\ Stopped(n, put.slots, mSlots', token[c])
          /\ token' = [token EXCEPT ![c] = [slot |-> s, seq |-> seq]]
          /\ IF put.heap[1] = s THEN Rearm(now, deadline) /\ raced' = (run.at = "rearm")
                                ELSE UNCHANGED timers
  BY <1>1
<1> DEFINE tok == [slot |-> s, seq |-> seq]
           slots == put.slots
           old == token[c]
<1>3. /\ requests \in 0 .. MaxRequests /\ requests' = requests + 1 /\ requests < MaxRequests
      /\ requests \in Nat /\ MaxRequests \in Nat /\ m \in Nat
  BY TimerAssumption DEF Kept, Simple, Request
<1>4. requests' \in 0 .. MaxRequests
  BY <1>3
<1>5. Simple'
  <2>1. /\ now' = now /\ timerCallback' = timerCallback /\ runQueued' = runQueued
        /\ run' = run /\ life' = life
    BY DEF Request
  <2>2. /\ timer' \in Nat \union {Never} /\ armedFor' \in Deadlines /\ raced' \in BOOLEAN
    <3>1. CASE put.heap[1] = s
      <4>1. Rearm(now, deadline) /\ raced' = (run.at = "rearm")
        BY <1>2, <3>1
      <4>2. deadline \in Nat /\ now \in Nat /\ Quantum \in Nat
        BY TimerAssumption DEF Deadlines, Kept, Simple
      <4> DEFINE x == deadline * Quantum
      <4>3. x \in Nat
        BY <4>2
      <4>4. timer' = now + (IF x > now THEN x - now ELSE 0) /\ armedFor' = deadline
        BY <4>1 DEF Rearm
      <4> HIDE DEF x
      <4>5. timer' \in Nat
        BY <4>2, <4>3, <4>4
      <4>6. raced' \in BOOLEAN
        BY <4>1
      <4> QED BY <4>4, <4>5, <4>6
    <3>2. CASE put.heap[1] # s
      BY <1>2, <3>2 DEF timers, Kept, Simple
    <3> QED BY <3>1, <3>2
  <2> QED BY <1>4, <2>1, <2>2 DEF Kept, Simple
<1>6. /\ n \in Nat /\ s \in 1 .. n /\ (n = m \/ (n = m + 1 /\ mFreeSlots = <<>>))
      /\ \A i \in 1 .. n \ {s} : i \in 1 .. m
      /\ Sound(n, put.heap, slots, free) /\ slots \in [1 .. n -> Slot]
  BY <1>2 DEF PutFor, Sound
<1>7. /\ slots[s].deadline = deadline /\ slots[s].callback = c /\ slots[s].seq = seq
      /\ slots[s].heapIndex # 0
  BY <1>2 DEF PutFor
<1>8. \A i \in 1 .. n \ {s} :
          /\ slots[i].deadline = mSlots[i].deadline /\ slots[i].seq = mSlots[i].seq
          /\ slots[i].callback = mSlots[i].callback
          /\ slots[i].heapIndex = 0 <=> mSlots[i].heapIndex = 0
  BY <1>2 DEF PutFor, Others
<1>9. IF s \in 1 .. m THEN seq = mSlots[s].seq + 1 /\ mSlots[s].heapIndex = 0 ELSE seq = 1
  BY <1>2 DEF PutFor
<1>10. mSlots' \in [1 .. n -> Slot] /\ Stopped(n, slots, mSlots', old)
  BY <1>2 DEF Sound
<1>11. mSlots \in [1 .. m -> Slot] /\ Bounded(m, mSlots, requests) /\ Led(m, mSlots, token, requests)
  BY DEF Kept, Sound
<1>12. \A i \in 1 .. m : mSlots[i].seq \in Nat
  BY <1>11 DEF Slot
<1>13. seq \in Nat /\ seq <= 2 * (requests + 1) /\ seq + 1 <= 2 * (requests + 1)
  <2>1. CASE s \in 1 .. m
    <3>1. mSlots[s].seq <= 2 * requests /\ mSlots[s].seq \in Nat /\ seq = mSlots[s].seq + 1
      BY <1>9, <1>11, <1>12, <2>1 DEF Bounded
    <3> QED BY <1>3, <3>1
  <2>2. CASE s \notin 1 .. m
    BY <1>3, <1>9, <2>2
  <2> QED BY <2>1, <2>2
<1>14. 0 .. m \subseteq 0 .. n /\ tok \in [slot : 0 .. n, seq : Nat]
  BY <1>3, <1>6, <1>13
<1>15. /\ token \in [Clients -> [slot : 0 .. m, seq : Nat]]
       /\ \A d \in Clients : /\ token[d].seq <= 2 * requests
                             /\ token[d].slot # 0 => token[d].seq <= mSlots[token[d].slot].seq
                             /\ TokenValid(mSlots, token[d]) => mSlots[token[d].slot].callback = d
       /\ \A i \in 1 .. m : mSlots[i].heapIndex # 0 =>
              token[mSlots[i].callback] = [slot |-> i, seq |-> mSlots[i].seq]
  BY <1>11 DEF Led
<1>16. token \in [Clients -> [slot : 0 .. n, seq : Nat]]
  BY <1>14, <1>15
<1>17. \A d \in Clients : token[d].slot \in 0 .. m /\ token[d].seq \in Nat
  BY <1>15
\* The slot's sequence number is ahead of all tokens.
<1>18. ASSUME NEW d \in Clients, token[d].slot = s PROVE token[d].seq < seq
  <2>1. s \in 1 .. m
    BY <1>6, <1>17, <1>18
  <2>2. token[d].seq <= mSlots[s].seq /\ seq = mSlots[s].seq + 1
    BY <1>9, <1>15, <1>18, <2>1
  <2> QED BY <1>12, <1>17, <2>1, <2>2
<1>19. DOMAIN slots = 1 .. n /\ DOMAIN mSlots = 1 .. m
  BY <1>6, <1>11
<1> HIDE DEF m, slots
<1>near. ASSUME NEW d \in Clients, TokenValid(slots, token[d])
       PROVE  token[d].slot \in 1 .. n \ {s} /\ TokenValid(mSlots, token[d])
  <2>1. /\ token[d].slot \in 1 .. n /\ slots[token[d].slot].seq = token[d].seq
        /\ slots[token[d].slot].heapIndex # 0
    BY <1>19, <1>near DEF TokenValid
  <2>2. token[d].slot # s
    BY <1>7, <1>13, <1>17, <1>18, <2>1
  <2>3. token[d].slot \in 1 .. m
    BY <1>6, <2>1, <2>2
  <2> QED BY <1>8, <1>19, <2>1, <2>2, <2>3 DEF TokenValid
<1>21. ASSUME NEW i \in 1 .. n, slots[i].heapIndex # 0 PROVE slots[i].callback \in Clients
  <2>1. CASE i = s
    BY <1>7, <2>1
  <2>2. CASE i # s
    <3>1. mSlots[i].heapIndex # 0 /\ i \in 1 .. m /\ slots[i].callback = mSlots[i].callback
      BY <1>6, <1>8, <1>21, <2>2
    <3> QED BY <1>11, <3>1 DEF Bounded
  <2> QED BY <2>1, <2>2
<1>22. Led(n, mSlots', token', requests')
  <2>1. ASSUME NEW i \in 1 .. n, slots[i].heapIndex # 0 /\ i # tok.slot
        PROVE  token[slots[i].callback] = [slot |-> i, seq |-> slots[i].seq]
    <3>1. /\ mSlots[i].heapIndex # 0 /\ i \in 1 .. m /\ slots[i].callback = mSlots[i].callback
          /\ slots[i].seq = mSlots[i].seq
      BY <1>6, <1>8, <2>1
    <3> QED BY <1>15, <3>1
  <2>2. ASSUME NEW d \in Clients
        PROVE  /\ token[d].seq <= 2 * requests'
               /\ token[d].slot # 0 => token[d].seq <= slots[token[d].slot].seq
               /\ TokenValid(slots, token[d]) => slots[token[d].slot].callback = d
    <3>1. token[d].seq <= 2 * requests'
      <4>1. token[d].seq \in Nat /\ token[d].seq <= 2 * requests
        BY <1>15, <1>17
      <4> QED BY <1>3, <4>1
    <3>2. ASSUME token[d].slot # 0 PROVE token[d].seq <= slots[token[d].slot].seq
      <4>1. CASE token[d].slot = s
        BY <1>7, <1>13, <1>17, <1>18, <4>1
      <4>2. CASE token[d].slot # s
        <5>1. token[d].slot \in 1 .. n \ {s}
          BY <1>3, <1>6, <1>17, <3>2, <4>2
        <5>2. slots[token[d].slot].seq = mSlots[token[d].slot].seq
          BY <1>8, <5>1
        <5> QED BY <1>15, <3>2, <5>2
      <4> QED BY <4>1, <4>2
    <3>3. ASSUME TokenValid(slots, token[d]) PROVE slots[token[d].slot].callback = d
      <4>1. token[d].slot \in 1 .. n \ {s} /\ TokenValid(mSlots, token[d])
        BY <1>near, <3>3
      <4> QED BY <1>8, <1>15, <4>1
    <3> QED BY <3>1, <3>2, <3>3
  <2> DEFINE new == mSlots'
             total == requests'
  <2>3. /\ slots \in [1 .. n -> Slot] /\ new \in [1 .. n -> Slot] /\ total \in Nat
        /\ tok.seq <= 2 * total /\ Stopped(n, slots, new, token[c]) /\ n \in Nat
        /\ (tok.slot # 0 => /\ slots[tok.slot].heapIndex # 0 /\ slots[tok.slot].callback = c
                            /\ slots[tok.slot].seq = tok.seq)
    BY <1>3, <1>6, <1>7, <1>10, <1>13 DEF slots
  <2>4. tok \in [slot : 0 .. n, seq : Nat]
    BY <1>14
  <2> HIDE DEF new, total, tok
  <2>5. Led(n, new, [token EXCEPT ![c] = tok], total)
    BY <1>16, <1>21, <2>1, <2>2, <2>3, <2>4, NewToken DEF total
  <2>6. token' = [token EXCEPT ![c] = tok]
    BY <1>2 DEF tok
  <2> QED BY <2>5, <2>6 DEF new, total
<1>23. Bounded(n, mSlots', requests')
  <2> SUFFICES ASSUME NEW i \in 1 .. n
               PROVE  /\ mSlots'[i].deadline \in Deadlines
                      /\ mSlots'[i].seq <= 2 * requests'
                      /\ mSlots'[i].heapIndex # 0 =>
                            /\ mSlots'[i].seq + 1 <= 2 * requests'
                            /\ mSlots'[i].callback \in Clients
    BY DEF Bounded
  <2> DEFINE new == mSlots'
  <2>0. new[i].seq \in Nat /\ slots[i].seq \in Nat
    BY <1>6, <1>10 DEF Slot, slots
  <2> HIDE DEF new
  <2>1. /\ slots[i].deadline \in Deadlines
        /\ slots[i].heapIndex # 0 => slots[i].seq + 1 <= 2 * requests'
        /\ slots[i].seq <= 2 * requests'
        /\ slots[i].heapIndex # 0 /\ i # s => slots[i].seq + 1 <= 2 * requests
    <3>1. CASE i = s
      BY <1>3, <1>7, <1>13, <3>1
    <3>2. CASE i # s
      <4>1. /\ i \in 1 .. m /\ slots[i].deadline = mSlots[i].deadline
            /\ slots[i].seq = mSlots[i].seq /\ (slots[i].heapIndex = 0 <=> mSlots[i].heapIndex = 0)
        BY <1>6, <1>8, <3>2
      <4>2. /\ mSlots[i].deadline \in Deadlines /\ mSlots[i].seq <= 2 * requests
            /\ (mSlots[i].heapIndex # 0 => mSlots[i].seq + 1 <= 2 * requests)
        BY <1>11, <4>1 DEF Bounded
      <4>3. slots[i].deadline \in Deadlines /\ slots[i].seq <= 2 * requests
        BY <4>1, <4>2
      <4>4. slots[i].heapIndex # 0 => slots[i].seq + 1 <= 2 * requests
        BY <4>1, <4>2
      <4>5. slots[i].seq <= 2 * requests'
        BY <1>3, <2>0, <4>3
      <4>6. slots[i].seq + 1 <= 2 * requests => slots[i].seq + 1 <= 2 * requests'
        BY <1>3, <2>0
      <4> QED BY <4>3, <4>4, <4>5, <4>6
    <3> QED BY <3>1, <3>2
  <2>2. Stopped(n, slots, new, old) /\ new[i].deadline = slots[i].deadline
    BY <1>10 DEF Stopped, new
  <2> HIDE DEF old
  <2>3. CASE ~ TokenValid(slots, old)
    <3>1. new = slots
      BY <2>2, <2>3 DEF Stopped
    <3> QED BY <1>21, <2>1, <3>1 DEF new
  <2>4. CASE TokenValid(slots, old) /\ i # old.slot
    <3>1. /\ new[i].seq = slots[i].seq /\ new[i].callback = slots[i].callback
          /\ new[i].heapIndex = 0 <=> slots[i].heapIndex = 0
      BY <2>2, <2>4 DEF Stopped, Others
    <3> QED BY <1>21, <2>1, <2>2, <3>1 DEF new
  <2>5. CASE TokenValid(slots, old) /\ i = old.slot
    <3>1. new[i].seq = slots[i].seq + 1 /\ new[i].heapIndex = 0
      BY <2>2, <2>5 DEF Stopped
    <3>2. i # s /\ slots[i].heapIndex # 0
      BY <1>near, <2>5 DEF old, TokenValid
    <3>3. slots[i].seq + 1 <= 2 * requests
      BY <2>1, <3>2
    <3>4. new[i].seq <= 2 * requests'
      BY <1>3, <2>0, <3>1, <3>3
    <3> QED BY <2>1, <2>2, <3>1, <3>4 DEF new
  <2> QED BY <2>3, <2>4, <2>5
<1>24. Len(mSlots') = n
  <2> DEFINE new == mSlots'
  <2>1. new \in [1 .. n -> Slot]
    BY <1>10
  <2> HIDE DEF new
  <2>2. Len(new) = n
    BY <1>6, <2>1, SlotsLength
  <2> QED BY <2>2 DEF new
<1>25. n <= Cardinality(Clients) + 1
  <2>1. Cardinality(Clients) \in Nat
    BY TimerAssumption, FS_CardinalityType
  <2>2. m <= Cardinality(Clients) + 1
    BY DEF Kept, m
  <2>3. mFreeSlots = <<>> => m <= Cardinality(Clients)
    BY NoMoreSlotsThanClients DEF m
  <2> HIDE DEF m
  <2> QED BY <1>3, <1>6, <2>1, <2>2, <2>3
<1> QED BY <1>2, <1>5, <1>6, <1>22, <1>23, <1>24, <1>25 DEF Kept
LEMMA CancelKept ==
    ASSUME Kept, NEW c \in Clients, Cancel(c)
    PROVE  /\ Kept'
           /\ \E n \in Nat : /\ n = Len(mSlots) /\ n = Len(mSlots')
                             /\ Stopped(n, mSlots, mSlots', token[c])
<1> DEFINE m == Len(mSlots)
           left == InternalCancel(mHeap, mSlots, mFreeSlots, token[c])
           new == mSlots'
           after == [token EXCEPT ![c] = NoToken]
<1>1. /\ mHeap' = left.heap /\ mSlots' = left.slots /\ mFreeSlots' = left.free /\ token' = after
      /\ UNCHANGED <<now, timers, timerCallback, runQueued, run, life, requests>>
  BY DEF Cancel
<1>2. /\ m \in Nat /\ Sound(m, mHeap, mSlots, mFreeSlots) /\ Bounded(m, mSlots, requests)
      /\ Led(m, mSlots, token, requests) /\ m <= Cardinality(Clients) + 1
      /\ requests \in Nat /\ Simple
  BY TimerAssumption DEF Kept, Simple
<1>3. Sound(m, left.heap, left.slots, left.free) /\ Stopped(m, mSlots, left.slots, token[c])
  BY <1>2, CancelFacts
<1> HIDE DEF left
<1>4. Sound(m, mHeap', new, mFreeSlots') /\ Stopped(m, mSlots, new, token[c])
  BY <1>1, <1>3
<1>5. mSlots \in [1 .. m -> Slot] /\ new \in [1 .. m -> Slot]
  BY <1>2, <1>4 DEF Sound
<1> HIDE DEF m, new
<1>6. NoToken \in [slot : 0 .. m, seq : Nat] /\ NoToken.seq <= 2 * requests /\ NoToken.slot = 0
  BY <1>2 DEF NoToken
<1>7. Led(m, new, after, requests)
  <2> DEFINE tok == NoToken
  <2>1. token \in [Clients -> [slot : 0 .. m, seq : Nat]]
    BY <1>2 DEF Led
  <2>2. \A i \in 1 .. m : mSlots[i].heapIndex # 0 => mSlots[i].callback \in Clients
    BY <1>2 DEF Bounded
  <2>3. \A i \in 1 .. m : mSlots[i].heapIndex # 0 /\ i # tok.slot =>
            token[mSlots[i].callback] = [slot |-> i, seq |-> mSlots[i].seq]
    BY <1>2 DEF Led
  <2>4. \A d \in Clients :
            /\ token[d].seq <= 2 * requests
            /\ token[d].slot # 0 => token[d].seq <= mSlots[token[d].slot].seq
            /\ TokenValid(mSlots, token[d]) => mSlots[token[d].slot].callback = d
    BY <1>2 DEF Led
  <2>5. /\ tok \in [slot : 0 .. m, seq : Nat] /\ tok.seq <= 2 * requests
        /\ (tok.slot # 0 => /\ mSlots[tok.slot].heapIndex # 0 /\ mSlots[tok.slot].callback = c
                            /\ mSlots[tok.slot].seq = tok.seq)
    BY <1>6
  <2>6. after = [token EXCEPT ![c] = tok]
    OBVIOUS
  <2> HIDE DEF tok, after
  <2>7. Led(m, new, [token EXCEPT ![c] = tok], requests)
    BY <1>2, <1>4, <1>5, <2>1, <2>2, <2>3, <2>4, <2>5, NewToken
  <2> QED BY <2>6, <2>7
<1>8. Bounded(m, new, requests)
  <2> SUFFICES ASSUME NEW i \in 1 .. m
               PROVE  /\ new[i].deadline \in Deadlines
                      /\ new[i].seq <= 2 * requests
                      /\ new[i].heapIndex # 0 => /\ new[i].seq + 1 <= 2 * requests
                                                 /\ new[i].callback \in Clients
    BY DEF Bounded
  <2> DEFINE old == token[c]
  <2>1. /\ mSlots[i].deadline \in Deadlines /\ mSlots[i].seq <= 2 * requests
        /\ mSlots[i].heapIndex # 0 => mSlots[i].seq + 1 <= 2 * requests
                                      /\ mSlots[i].callback \in Clients
    BY <1>2 DEF Bounded
  <2>2. Stopped(m, mSlots, new, old) /\ new[i].deadline = mSlots[i].deadline
    BY <1>4 DEF Stopped
  <2> HIDE DEF old
  <2>3. CASE ~ TokenValid(mSlots, old)
    <3>1. new = mSlots
      BY <2>2, <2>3 DEF Stopped
    <3> QED BY <2>1, <3>1
  <2>4. CASE TokenValid(mSlots, old) /\ i # old.slot
    <3>1. /\ new[i].seq = mSlots[i].seq /\ new[i].callback = mSlots[i].callback
          /\ new[i].heapIndex = 0 <=> mSlots[i].heapIndex = 0
      BY <2>2, <2>4 DEF Stopped, Others
    <3> QED BY <2>1, <2>2, <3>1
  <2>5. CASE TokenValid(mSlots, old) /\ i = old.slot
    <3>1. new[i].seq = mSlots[i].seq + 1 /\ new[i].heapIndex = 0 /\ mSlots[i].heapIndex # 0
      BY <2>2, <2>5 DEF Stopped, TokenValid
    <3> QED BY <2>1, <2>2, <3>1
  <2> QED BY <2>3, <2>4, <2>5
<1>9. Len(new) = m
  BY <1>2, <1>5, SlotsLength
<1>10. Simple'
  BY <1>1, <1>2 DEF Simple, timers
<1>11. requests' = requests
  BY <1>1
<1>12. Kept'
  BY <1>1, <1>2, <1>4, <1>7, <1>8, <1>9, <1>10, <1>11 DEF Kept, new
<1>13. m \in Nat /\ m = Len(mSlots) /\ m = Len(mSlots') /\ Stopped(m, mSlots, mSlots', token[c])
  BY <1>2, <1>4, <1>9 DEF m, new
<1> QED BY <1>12, <1>13

LEMMA RunFrontKept ==
    ASSUME Kept, RunFront
    PROVE  Kept'
<1> DEFINE m == Len(mSlots)
           s == mHeap[1]
           y == mSlots[s]
           x == [y EXCEPT !.heapIndex = 0, !.callback = Null]
           out == FillHole(mHeap, [mSlots EXCEPT ![s] = x], 1)
           new == mSlots'
<1>1. /\ mHeap' = out.heap /\ mSlots' = out.slots /\ mFreeSlots' = Append(mFreeSlots, s)
      /\ run' = [run EXCEPT !.at = "callback"]
      /\ UNCHANGED <<now, token, requests, timers, timerCallback, runQueued, life>>
      /\ mHeap # <<>>
  BY DEF RunFront, FrontDue
<1>2. /\ m \in Nat /\ Sound(m, mHeap, mSlots, mFreeSlots) /\ Bounded(m, mSlots, requests)
      /\ Led(m, mSlots, token, requests) /\ m <= Cardinality(Clients) + 1
      /\ requests \in Nat /\ Simple
  BY TimerAssumption DEF Kept, Simple
<1>3. mSlots \in [1 .. m -> Slot] /\ mHeap \in Seq(1 .. m) /\ Whole(mHeap, mSlots)
  BY <1>2 DEF Sound
<1>4. s \in 1 .. m /\ y.heapIndex = 1 /\ y \in Slot
  <2>1. s \in 1 .. m /\ mSlots[s].heapIndex = 1
    BY <1>1, <1>2, <1>3, FrontWaits
  <2> QED BY <1>3, <2>1
<1>5. x \in Slot /\ x.heapIndex = 0 /\ x.deadline = y.deadline /\ x.seq = y.seq
  <2> HIDE DEF y
  <2> QED BY <1>4 DEF Slot
<1> HIDE DEF out, x
<1>6. /\ Sound(m, out.heap, out.slots, Append(mFreeSlots, s)) /\ Others(m, mSlots, out.slots, s)
      /\ out.slots[s].deadline = x.deadline /\ out.slots[s].seq = x.seq
      /\ out.slots[s].heapIndex = 0
  <2> DEFINE filled == FillHole(mHeap, [mSlots EXCEPT ![s] = x], mSlots[s].heapIndex)
  <2>1. /\ m \in Nat /\ Sound(m, mHeap, mSlots, mFreeSlots) /\ s \in 1 .. m
        /\ mSlots[s].heapIndex # 0 /\ x \in Slot /\ x.heapIndex = 0
    BY <1>2, <1>4, <1>5
  <2>2. /\ Sound(m, filled.heap, filled.slots, Append(mFreeSlots, s))
        /\ Others(m, mSlots, filled.slots, s)
        /\ filled.slots[s].deadline = x.deadline /\ filled.slots[s].seq = x.seq
        /\ filled.slots[s].heapIndex = 0
    <3> HIDE DEF s
    <3> QED BY <2>1, RemovalFacts
  <2>3. filled = out
    BY <1>4 DEF out
  <2> HIDE DEF filled
  <2> QED BY <2>2, <2>3
<1>7. /\ Sound(m, mHeap', new, mFreeSlots') /\ Others(m, mSlots, new, s)
      /\ new[s].deadline = y.deadline /\ new[s].seq = y.seq /\ new[s].heapIndex = 0
  BY <1>1, <1>5, <1>6
<1>8. new \in [1 .. m -> Slot]
  BY <1>7 DEF Sound
<1> HIDE DEF m, s, new
<1>9. \A i \in 1 .. m :
          /\ new[i].deadline = mSlots[i].deadline /\ new[i].seq = mSlots[i].seq
          /\ new[i].heapIndex # 0 => /\ i # s /\ mSlots[i].heapIndex # 0
                                     /\ new[i].callback = mSlots[i].callback
  <2> TAKE i \in 1 .. m
  <2>1. CASE i = s
    BY <1>7, <2>1
  <2>2. CASE i # s
    BY <1>7, <2>2 DEF Others
  <2> QED BY <2>1, <2>2
<1>10. Bounded(m, new, requests)
  <2> SUFFICES ASSUME NEW i \in 1 .. m
               PROVE  /\ new[i].deadline \in Deadlines
                      /\ new[i].seq <= 2 * requests
                      /\ new[i].heapIndex # 0 => /\ new[i].seq + 1 <= 2 * requests
                                                 /\ new[i].callback \in Clients
    BY DEF Bounded
  <2>1. /\ mSlots[i].deadline \in Deadlines /\ mSlots[i].seq <= 2 * requests
        /\ mSlots[i].heapIndex # 0 => mSlots[i].seq + 1 <= 2 * requests
                                      /\ mSlots[i].callback \in Clients
    BY <1>2 DEF Bounded
  <2> QED BY <1>9, <2>1
<1>11. Led(m, new, token, requests)
  <2>1. /\ token \in [Clients -> [slot : 0 .. m, seq : Nat]]
        /\ \A d \in Clients : token[d].seq <= 2 * requests
    BY <1>2 DEF Led
  <2>2. ASSUME NEW i \in 1 .. m, new[i].heapIndex # 0
        PROVE  token[new[i].callback] = [slot |-> i, seq |-> new[i].seq]
    <3>1. /\ mSlots[i].heapIndex # 0 /\ new[i].callback = mSlots[i].callback
          /\ new[i].seq = mSlots[i].seq
      BY <1>9, <2>2
    <3>2. token[mSlots[i].callback] = [slot |-> i, seq |-> mSlots[i].seq]
      BY <1>2, <3>1 DEF Led
    <3> QED BY <3>1, <3>2
  <2>3. ASSUME NEW d \in Clients
        PROVE  /\ token[d].slot # 0 => token[d].seq <= new[token[d].slot].seq
               /\ TokenValid(new, token[d]) => new[token[d].slot].callback = d
    <3>1. /\ token[d].slot # 0 => token[d].seq <= mSlots[token[d].slot].seq
          /\ TokenValid(mSlots, token[d]) => mSlots[token[d].slot].callback = d
          /\ token[d].slot \in 0 .. m
      BY <1>2 DEF Led
    <3>2. token[d].slot # 0 => token[d].slot \in 1 .. m
      BY <3>1
    <3>3. token[d].slot # 0 => token[d].seq <= new[token[d].slot].seq
      BY <1>9, <3>1, <3>2
    <3>4. ASSUME TokenValid(new, token[d]) PROVE new[token[d].slot].callback = d
      <4>1. /\ token[d].slot \in 1 .. m /\ new[token[d].slot].seq = token[d].seq
            /\ new[token[d].slot].heapIndex # 0
        BY <1>8, <3>4 DEF TokenValid
      <4>2. /\ mSlots[token[d].slot].seq = token[d].seq /\ mSlots[token[d].slot].heapIndex # 0
            /\ new[token[d].slot].callback = mSlots[token[d].slot].callback
        BY <1>9, <4>1
      <4>3. TokenValid(mSlots, token[d])
        BY <1>3, <4>1, <4>2 DEF TokenValid
      <4> QED BY <3>1, <4>2, <4>3
    <3> QED BY <3>3, <3>4
  <2> QED BY <2>1, <2>2, <2>3 DEF Led
<1>12. Len(new) = m
  BY <1>2, <1>8, SlotsLength
<1>13. Simple'
  BY <1>1, <1>2 DEF Simple, timers
<1> QED BY <1>1, <1>2, <1>7, <1>10, <1>11, <1>12, <1>13 DEF Kept, new
-----------------------------------------------------------------------------
(* The theorems.                                                             *)

LEMMA KeptInit == Init => Kept
<1> SUFFICES ASSUME Init PROVE Kept
  OBVIOUS
<1> USE DEF Init
<1>1. Simple
  <2>1. 0 \in Deadlines /\ 0 \in 0 .. MaxTime /\ 0 \in 0 .. MaxRequests
    <3>1. MaxTime \in Nat /\ Quantum \in Nat \ {0} /\ MaxRequests \in Nat
      BY TimerAssumption
    <3>2. MaxTime \div Quantum \in Nat
      BY <3>1
    <3> QED BY <3>1, <3>2 DEF Deadlines
  <2> QED BY <2>1 DEF Simple, NotRunning
<1>2. Len(mSlots) = 0 /\ 1 .. 0 = {}
  OBVIOUS
<1>3. Sound(0, mHeap, mSlots, mFreeSlots)
  <2>1. mSlots \in [1 .. 0 -> Slot]
    BY <1>2
  <2>2. mHeap \in Seq(1 .. 0) /\ mFreeSlots \in Seq(1 .. 0) /\ DOMAIN mHeap = {} /\ DOMAIN mSlots = {}
    OBVIOUS
  <2>3. Whole(mHeap, mSlots)
    BY <2>2 DEF Whole, HeapInOrder
  <2>4. 1 .. Len(mFreeSlots) = {}
    OBVIOUS
  <2> QED BY <1>2, <2>1, <2>2, <2>3, <2>4 DEF Sound
<1>4. Bounded(0, mSlots, requests)
  BY <1>2 DEF Bounded
<1>5. Led(0, mSlots, token, requests)
  <2>1. token \in [Clients -> [slot : 0 .. 0, seq : Nat]]
    BY DEF NoToken
  <2>2. \A c \in Clients : token[c].seq <= 2 * requests /\ token[c].slot = 0
    BY DEF NoToken
  <2>3. DOMAIN mSlots = {}
    OBVIOUS
  <2> QED BY <1>2, <2>1, <2>2, <2>3 DEF Led, TokenValid
<1>6. 0 <= Cardinality(Clients) + 1
  BY TimerAssumption, FS_CardinalityType
<1> QED BY <1>1, <1>2, <1>3, <1>4, <1>5, <1>6 DEF Kept

\* A step that leaves the data alone.
LEMMA DataKept ==
    ASSUME Kept, UNCHANGED data, Simple'
    PROVE  Kept'
  BY DEF Kept, data

LEMMA RearmFacts ==
    ASSUME Kept, NEW t \in 0 .. MaxTime, NEW deadline \in Deadlines, Rearm(t, deadline)
    PROVE  timer' \in Nat /\ armedFor' = deadline
<1>1. deadline \in Nat /\ t \in Nat /\ now \in Nat /\ Quantum \in Nat
  BY TimerAssumption DEF Deadlines, Kept, Simple
<1> DEFINE x == deadline * Quantum
<1>2. x \in Nat
  BY <1>1
<1>3. timer' = now + (IF x > t THEN x - t ELSE 0) /\ armedFor' = deadline
  BY DEF Rearm
<1> HIDE DEF x
<1> QED BY <1>1, <1>2, <1>3

\* The deadline of the front is one.
LEMMA FrontDeadlineFacts ==
    ASSUME Kept, mHeap # <<>>
    PROVE  FrontDeadline \in Deadlines /\ FrontDeadline \in Nat
<1> DEFINE m == Len(mSlots)
<1>1. m \in Nat /\ mHeap \in Seq(1 .. m) /\ mSlots \in [1 .. m -> Slot] /\ Whole(mHeap, mSlots)
  BY DEF Kept, Sound
<1>2. mHeap[1] \in 1 .. m
  <2> HIDE DEF m
  <2> QED BY <1>1, FrontWaits
<1> QED BY <1>1, <1>2 DEF Kept, Bounded, FrontDeadline, Deadlines

LEMMA KeptNext == Kept /\ [Next]_vars => Kept'
<1> SUFFICES ASSUME Kept, [Next]_vars PROVE Kept'
  OBVIOUS
<1>0. Simple /\ now \in Nat /\ MaxTime \in Nat /\ 0 \in Deadlines
  <2>1. MaxTime \in Nat /\ Quantum \in Nat \ {0}
    BY TimerAssumption
  <2>2. MaxTime \div Quantum \in Nat
    BY <2>1
  <2> QED BY <2>1, <2>2 DEF Kept, Simple, Deadlines
<1>1. ASSUME NEW c \in Clients, NEW delay \in Delays, Request(c, delay) PROVE Kept'
  BY <1>1, RequestKept
<1>2. ASSUME NEW c \in Clients, Cancel(c) PROVE Kept'
  BY <1>2, CancelKept
<1>3. CASE ClockTick
  <2>1. now' \in 0 .. MaxTime
    BY <1>0, <1>3 DEF ClockTick
  <2>2. Simple' /\ UNCHANGED data
    BY <1>0, <1>3, <2>1 DEF ClockTick, Simple, timers, data
  <2> QED BY <2>2, DataKept
<1>4. CASE TimerFires
  <2>1. Simple' /\ UNCHANGED data
    BY <1>0, <1>4 DEF TimerFires, Simple, data
  <2> QED BY <2>1, DataKept
<1>5. CASE QueueRun
  <2>1. Simple' /\ UNCHANGED data
    BY <1>0, <1>5 DEF QueueRun, Simple, timers, data
  <2> QED BY <2>1, DataKept
<1>6. CASE BeginRun
  <2>1. Simple' /\ UNCHANGED data
    BY <1>0, <1>6 DEF BeginRun, Simple, timers, data
  <2> QED BY <2>1, DataKept
<1>7. CASE RunFront
  BY <1>7, RunFrontKept
<1>8. CASE CallbackReturns
  <2>1. Simple' /\ UNCHANGED data
    BY <1>0, <1>8 DEF CallbackReturns, Simple, timers, data
  <2> QED BY <2>1, DataKept
<1>9. CASE LeaveLoop
  <2>1. run' \in [at : {"idle", "loop", "callback", "rearm"}, t : 0 .. MaxTime, deadline : Deadlines]
    <3>1. CASE mHeap = <<>>
      BY <1>0, <1>9, <3>1 DEF LeaveLoop, NotRunning
    <3>2. CASE mHeap # <<>>
      <4>1. FrontDeadline \in Deadlines
        BY <3>2, FrontDeadlineFacts
      <4> DEFINE f == FrontDeadline
      <4>2. run' = [run EXCEPT !.at = "rearm", !.deadline = f] /\ f \in Deadlines
        BY <1>9, <3>2, <4>1 DEF LeaveLoop
      <4> HIDE DEF f
      <4> QED BY <1>0, <4>2 DEF Simple
    <3> QED BY <3>1, <3>2
  <2>2. Simple' /\ UNCHANGED data
    BY <1>0, <1>9, <2>1 DEF LeaveLoop, Simple, timers, data
  <2> QED BY <2>2, DataKept
<1>10. CASE RearmAfterRun
  <2>1. Rearm(run.t, run.deadline) /\ run.t \in 0 .. MaxTime /\ run.deadline \in Deadlines
    BY <1>0, <1>10 DEF RearmAfterRun, Simple
  <2>2. timer' \in Nat /\ armedFor' \in Deadlines
    <3> DEFINE t == run.t
               d == run.deadline
    <3>1. Rearm(t, d) /\ t \in 0 .. MaxTime /\ d \in Deadlines
      BY <2>1
    <3> HIDE DEF t, d
    <3> QED BY <3>1, RearmFacts
  <2>3. Simple' /\ UNCHANGED data
    BY <1>0, <1>10, <2>2 DEF RearmAfterRun, Simple, data, NotRunning
  <2> QED BY <2>3, DataKept
<1>11. CASE Detach
  <2>1. Simple' /\ UNCHANGED data
    BY <1>0, <1>11 DEF Detach, Simple, timers, data
  <2> QED BY <2>1, DataKept
<1>12. CASE StopTimer
  <2>1. Simple' /\ UNCHANGED data
    BY <1>0, <1>12 DEF StopTimer, Simple, data
  <2> QED BY <2>1, DataKept
<1>13. CASE CancelRun
  <2>1. Simple' /\ UNCHANGED data
    BY <1>0, <1>13 DEF CancelRun, Simple, timers, data
  <2> QED BY <2>1, DataKept
<1>14. CASE UNCHANGED vars
  <2>1. Simple' /\ UNCHANGED data
    BY <1>0, <1>14 DEF vars, Simple, timers, data
  <2> QED BY <2>1, DataKept
<1> QED
  BY <1>1, <1>2, <1>3, <1>4, <1>5, <1>6, <1>7, <1>8, <1>9, <1>10, <1>11, <1>12, <1>13,
     <1>14 DEF Next

LEMMA KeptTypes == Kept => TypeOK
<1> SUFFICES ASSUME Kept PROVE TypeOK
  OBVIOUS
<1> DEFINE m == Len(mSlots)
<1>1. /\ m \in Nat /\ Sound(m, mHeap, mSlots, mFreeSlots) /\ Bounded(m, mSlots, requests)
      /\ Led(m, mSlots, token, requests) /\ Simple /\ m <= Cardinality(Clients) + 1
      /\ requests \in Nat /\ requests <= MaxRequests /\ MaxRequests \in Nat
  BY TimerAssumption DEF Kept, Simple
<1>2. /\ mSlots \in [1 .. m -> Slot] /\ DOMAIN mSlots = 1 .. m
      /\ mHeap \in Seq(1 .. m) /\ mFreeSlots \in Seq(1 .. m) /\ Whole(mHeap, mSlots)
  BY <1>1 DEF Sound
<1>3. DOMAIN mHeap = 1 .. Len(mHeap) /\ Len(mHeap) \in Nat
  BY <1>2, LenProperties
<1> HIDE DEF m
<1>4. \A x \in Nat : x <= 2 * requests => x \in Seqs
  BY <1>1 DEF Seqs
<1>5. ASSUME NEW i \in 1 .. m
      PROVE  mSlots[i] \in [deadline : Deadlines, seq : Seqs, heapIndex : 0 .. Len(mHeap),
                            callback : Clients \union {Null}]
  <2> DEFINE y == mSlots[i]
  <2>1. y \in Slot /\ y.deadline \in Deadlines /\ y.seq <= 2 * requests
    BY <1>1, <1>2 DEF Bounded
  <2>2. y.heapIndex # 0 => y.heapIndex \in 1 .. Len(mHeap)
    BY <1>2, <1>3 DEF Whole
  <2> HIDE DEF y
  <2>3. y.heapIndex \in 0 .. Len(mHeap) /\ y.seq \in Seqs
    BY <1>3, <1>4, <2>1, <2>2 DEF Slot
  <2>4. y \in [deadline : Deadlines, seq : Seqs, heapIndex : 0 .. Len(mHeap),
               callback : Clients \union {Null}]
    BY <2>1, <2>3 DEF Slot
  <2> QED BY <2>4 DEF y
<1>6. token \in [Clients -> [slot : 0 .. m, seq : Seqs]]
  <2>1. token \in [Clients -> [slot : 0 .. m, seq : Nat]]
    BY <1>1 DEF Led
  <2>2. \A c \in Clients : token[c].seq \in Seqs
    BY <1>1, <1>4, <2>1 DEF Led
  <2>3. \A c \in Clients : token[c] \in [slot : 0 .. m, seq : Seqs]
    BY <2>1, <2>2
  <2> QED BY <2>1, <2>3
<1> QED BY <1>1, <1>2, <1>5, <1>6 DEF TypeOK, Simple, m

\* The service keeps to its types for any clients and times: slots are not more than
\* clients, and one; sequence numbers are bounded by the requests made; heap and free
\* slots name slots there are.
THEOREM TypeCorrect == Spec => []TypeOK
<1> QED BY KeptInit, KeptNext, KeptTypes, PTL DEF Spec

\* However often slots are recycled, what waits is what its client requested last, and
\* the client's token leads to it; a token that has run out leads to nothing, so Cancel
\* cancels no one else's callback (InternalCancel's comparison of sequence numbers).
THEOREM TokensLead == Spec => []TokensLeadToSlots
<1>1. Kept => TokensLeadToSlots
  <2> SUFFICES ASSUME Kept PROVE TokensLeadToSlots
    OBVIOUS
  <2>1. DOMAIN mSlots = 1 .. Len(mSlots)
    BY DEF Kept, Sound
  <2> QED BY <2>1 DEF Kept, Led, TokensLeadToSlots
<1> QED BY <1>1, KeptInit, KeptNext, PTL DEF Spec
\* Each stage of the destructor closes one way in, and it stays closed: no run is
\* under way once the pointer to the dispatcher is nulled; neither the timer nor
\* its callback is left once they are stopped; no run waits once it is cancelled.
WaysClosed ==
    /\ life \in {"alive", "detached", "stopped", "destroyed"}
    /\ life # "alive" => run.at = "idle"
    /\ life \in {"stopped", "destroyed"} => timer = Never /\ timerCallback = "idle"
    /\ life = "destroyed" => ~ runQueued

LEMMA WaysClosedInit == Init => WaysClosed
BY DEF Init, WaysClosed, NotRunning

LEMMA WaysClosedNext == WaysClosed /\ [Next]_vars => WaysClosed'
<1> SUFFICES ASSUME WaysClosed, [Next]_vars PROVE WaysClosed'
    OBVIOUS
<1> USE DEF WaysClosed
<1>1. ASSUME NEW c \in Clients, NEW delay \in Delays, Request(c, delay) PROVE WaysClosed'
    BY <1>1 DEF Request, MayCall
<1>2. ASSUME NEW c \in Clients, Cancel(c) PROVE WaysClosed'
    BY <1>2 DEF Cancel, MayCall, timers
<1>3. CASE ClockTick
    BY <1>3 DEF ClockTick, timers
<1>4. CASE TimerFires
    BY <1>4 DEF TimerFires
<1>5. CASE QueueRun
    BY <1>5 DEF QueueRun, timers
<1>6. CASE BeginRun
    BY <1>6 DEF BeginRun, timers
<1>7. CASE RunFront
    <2>1. life = "alive"
        BY <1>7 DEF RunFront
    <2> QED BY <1>7, <2>1 DEF RunFront
<1>8. CASE CallbackReturns
    <2>1. life = "alive"
        BY <1>8 DEF CallbackReturns
    <2> QED BY <1>8, <2>1 DEF CallbackReturns
<1>9. CASE LeaveLoop
    <2>1. life = "alive"
        BY <1>9 DEF LeaveLoop
    <2> QED BY <1>9, <2>1 DEF LeaveLoop
<1>10. CASE RearmAfterRun
    <2>1. life = "alive"
        BY <1>10 DEF RearmAfterRun
    <2> QED BY <1>10, <2>1 DEF RearmAfterRun
<1>11. CASE Detach
    BY <1>11 DEF Detach, timers
<1>12. CASE StopTimer
    BY <1>12 DEF StopTimer
<1>13. CASE CancelRun
    BY <1>13 DEF CancelRun, timers
<1>14. CASE UNCHANGED vars
    BY <1>14 DEF vars, timers
<1> QED
    BY <1>1, <1>2, <1>3, <1>4, <1>5, <1>6, <1>7, <1>8, <1>9, <1>10, <1>11, <1>12, <1>13,
       <1>14 DEF Next

\* Once the destructor of ATTimerService has returned, neither the timer, nor its
\* callback, nor a queued run is left to call into the object, whatever the two
\* threads were doing when it began.
THEOREM DestructionSafety == Spec => []NothingAfterDestruction
<1>1. WaysClosed => NothingAfterDestruction
    BY DEF WaysClosed, NothingAfterDestruction
<1> QED BY <1>1, WaysClosedInit, WaysClosedNext, PTL DEF Spec

\* Removing never brings an earlier deadline to the front.
LEMMA FrontRises ==
    ASSUME NEW m \in Nat, NEW heap, NEW slots, NEW free, Sound(m, heap, slots, free),
           NEW n \in Nat, NEW less, NEW left, NEW freed, Sound(n, less, left, freed), less # <<>>,
           \A i \in 1 .. n : left[i].heapIndex # 0 =>
               i \in 1 .. m /\ slots[i].heapIndex # 0 /\ left[i].deadline = slots[i].deadline
    PROVE  heap # <<>> /\ slots[heap[1]].deadline <= left[less[1]].deadline
<1>1. /\ heap \in Seq(1 .. m) /\ slots \in [1 .. m -> Slot] /\ Whole(heap, slots)
      /\ less \in Seq(1 .. n) /\ left \in [1 .. n -> Slot] /\ Whole(less, left)
  BY DEF Sound
<1> DEFINE i == less[1]
<1>2. i \in 1 .. n /\ left[i].heapIndex = 1
  BY <1>1, FrontWaits
<1>3. i \in 1 .. m /\ slots[i].heapIndex # 0 /\ left[i].deadline = slots[i].deadline
  BY <1>2
<1> HIDE DEF i
<1>4. heap # <<>> /\ slots[heap[1]].deadline <= slots[i].deadline
  BY <1>1, <1>3, NoneBeforeFront
<1> QED BY <1>3, <1>4 DEF i

LEMMA RequestArms ==
    ASSUME Kept, Arming, NEW c \in Clients, NEW delay \in Delays, Request(c, delay)
    PROVE  Arming'
<1>0. Kept'
  BY RequestKept
<1>1. PICK n, s, put, free, seq : \E deadline \in Deadlines :
          /\ PutFor(n, s, put, free, deadline, c, seq)
          /\ Sound(n, mHeap', mSlots', mFreeSlots')
          /\ Stopped(n, put.slots, mSlots', token[c])
          /\ token' = [token EXCEPT ![c] = [slot |-> s, seq |-> seq]]
          /\ IF put.heap[1] = s THEN Rearm(now, deadline) /\ raced' = (run.at = "rearm")
                                ELSE UNCHANGED timers
  BY RequestSteps
<1>2. PICK deadline \in Deadlines :
          /\ PutFor(n, s, put, free, deadline, c, seq)
          /\ Sound(n, mHeap', mSlots', mFreeSlots')
          /\ Stopped(n, put.slots, mSlots', token[c])
          /\ token' = [token EXCEPT ![c] = [slot |-> s, seq |-> seq]]
          /\ IF put.heap[1] = s THEN Rearm(now, deadline) /\ raced' = (run.at = "rearm")
                                ELSE UNCHANGED timers
  BY <1>1
<1>3. /\ timerCallback' = timerCallback /\ runQueued' = runQueued /\ run' = run /\ life' = life
      /\ now \in 0 .. MaxTime
  BY DEF Request, Kept, Simple
<1> SUFFICES ASSUME mHeap' # <<>>, life = "alive" PROVE Arming'
  BY <1>3 DEF Arming, ArmedForFront, TimelyIf, RearmsInTime
<1> DEFINE slots == put.slots
           new == mSlots'
           less == mHeap'
<1>4. /\ n \in Nat /\ s \in 1 .. n /\ Sound(n, put.heap, slots, free)
      /\ slots[s].deadline = deadline /\ slots[s].heapIndex # 0
      /\ \A i \in 1 .. n \ {s} : i \in 1 .. Len(mSlots)
      /\ \A i \in 1 .. n \ {s} : /\ slots[i].deadline = mSlots[i].deadline
                                 /\ slots[i].heapIndex = 0 <=> mSlots[i].heapIndex = 0
  BY <1>2 DEF PutFor, Others
<1>5. ASSUME NEW i \in 1 .. n, new[i].heapIndex # 0
      PROVE  i \in 1 .. n /\ slots[i].heapIndex # 0 /\ new[i].deadline = slots[i].deadline
  <2> DEFINE old == token[c]
  <2>1. Stopped(n, slots, new, old) /\ new[i].deadline = slots[i].deadline
    BY <1>2 DEF Stopped
  <2> HIDE DEF old, slots, new
  <2>2. CASE ~ TokenValid(slots, old)
    BY <1>5, <2>1, <2>2 DEF Stopped
  <2>3. CASE TokenValid(slots, old) /\ i # old.slot
    BY <1>5, <2>1, <2>3 DEF Stopped, Others
  <2>4. CASE TokenValid(slots, old) /\ i = old.slot
    BY <1>5, <2>1, <2>4 DEF Stopped
  <2> QED BY <2>2, <2>3, <2>4
<1>6. slots[put.heap[1]].deadline <= new[less[1]].deadline
  <2> DEFINE heap == put.heap
             freed == mFreeSlots'
  <2>1. Sound(n, heap, slots, free) /\ Sound(n, less, new, freed) /\ less # <<>> /\ n \in Nat
    BY <1>2, <1>4
  <2> HIDE DEF heap, freed, slots, new, less
  <2>2. slots[heap[1]].deadline <= new[less[1]].deadline
    BY <1>5, <2>1, FrontRises
  <2> QED BY <2>2 DEF heap
<1>7. FrontDeadline' = new[less[1]].deadline
  BY DEF FrontDeadline
<1>8. FrontDeadline' \in Nat
  <2>1. mHeap' \in Seq(1 .. n) /\ mSlots' \in [1 .. n -> Slot] /\ Whole(mHeap', mSlots')
    BY <1>2 DEF Sound
  <2> HIDE DEF new, less
  <2>2. less \in Seq(1 .. n) /\ new \in [1 .. n -> Slot] /\ Whole(less, new) /\ less # <<>>
    BY <2>1 DEF new, less
  <2>3. less[1] \in 1 .. n
    BY <1>4, <2>2, FrontWaits
  <2> QED BY <1>7, <2>2, <2>3 DEF Slot
<1> HIDE DEF slots, new, less
<1>9. CASE put.heap[1] = s
  <2>1. Rearm(now, deadline) /\ raced' = (run.at = "rearm")
    BY <1>2, <1>9
  <2>2. timer' \in Nat /\ armedFor' = deadline
    BY <1>3, <2>1, RearmFacts
  <2>3. timer' # Never
    BY <2>2, TimerAssumption
  <2>4. armedFor' <= FrontDeadline'
    BY <1>4, <1>6, <1>7, <1>9, <2>2
  <2>5. ArmedForFront'
    BY <2>3, <2>4 DEF ArmedForFront, TimelyIf
  <2>6. RearmsInTime'
    BY <1>3, <2>1 DEF RearmsInTime
  <2> QED BY <2>5, <2>6 DEF Arming
<1>10. CASE put.heap[1] # s
  <2>1. timer' = timer /\ armedFor' = armedFor /\ raced' = raced
    BY <1>2, <1>10 DEF timers
  <2> DEFINE i == put.heap[1]
             heap == put.heap
  <2>2. heap \in Seq(1 .. n) /\ slots \in [1 .. n -> Slot] /\ Whole(heap, slots)
    BY <1>4 DEF Sound
  <2> HIDE DEF heap
  <2>3. heap # <<>>
    BY <1>4, <2>2, NoneBeforeFront
  <2>4. i \in 1 .. n /\ slots[i].heapIndex = 1
    <3>1. heap[1] \in 1 .. n /\ slots[heap[1]].heapIndex = 1
      BY <1>4, <2>2, <2>3, FrontWaits
    <3> QED BY <3>1 DEF heap
  <2> DEFINE m == Len(mSlots)
  <2>5. i \in 1 .. m /\ mSlots[i].heapIndex # 0 /\ slots[i].deadline = mSlots[i].deadline
    BY <1>4, <1>10, <2>4
  <2>6. /\ m \in Nat /\ mHeap \in Seq(1 .. m) /\ mSlots \in [1 .. m -> Slot]
        /\ Whole(mHeap, mSlots)
    BY DEF Kept, Sound
  <2>7. slots[i].deadline <= FrontDeadline'
    BY <1>6, <1>7
  <2>10. slots[i].deadline \in Nat
    BY <2>2, <2>4 DEF Slot
  <2> HIDE DEF i, m
  <2>8. mHeap # <<>> /\ FrontDeadline <= mSlots[i].deadline
    BY <2>5, <2>6, NoneBeforeFront DEF FrontDeadline
  <2>9. FrontDeadline \in Nat /\ FrontDeadline <= FrontDeadline'
    <3>1. FrontDeadline \in Nat
      BY <2>8, FrontDeadlineFacts
    <3>2. FrontDeadline <= slots[i].deadline
      BY <2>5, <2>8
    <3> HIDE DEF FrontDeadline
    <3> QED BY <1>8, <2>7, <2>10, <3>1, <3>2
  <2>11. armedFor \in Nat /\ (armedFor <= FrontDeadline => armedFor <= FrontDeadline')
    <3>1. armedFor \in Nat
      BY DEF Kept, Simple, Deadlines
    <3> QED BY <1>8, <2>9, <3>1
  <2>12. run.deadline <= FrontDeadline => run.deadline <= FrontDeadline'
    <3>1. run.deadline \in Nat
      BY DEF Kept, Simple, Deadlines
    <3> QED BY <1>8, <2>9, <3>1
  <2>13. ArmedForFront'
    BY <1>3, <2>1, <2>8, <2>11, <2>12, Zenon DEF Arming, ArmedForFront, TimelyIf
  <2>14. RearmsInTime'
    BY <1>3, <2>1, <2>8, <2>12, Zenon DEF Arming, RearmsInTime
  <2> QED BY <2>13, <2>14 DEF Arming
<1> QED BY <1>9, <1>10

LEMMA CancelArms ==
    ASSUME Kept, Arming, NEW c \in Clients, Cancel(c)
    PROVE  Arming'
<1> DEFINE new == mSlots'
           less == mHeap'
           freed == mFreeSlots'
           old == token[c]
<1>1. PICK n \in Nat : n = Len(mSlots) /\ n = Len(mSlots') /\ Stopped(n, mSlots, mSlots', token[c])
  BY CancelKept
<1>2. Kept'
  BY CancelKept
<1>3. UNCHANGED <<timers, timerCallback, runQueued, run, life>>
  BY DEF Cancel
<1> SUFFICES ASSUME mHeap' # <<>> PROVE Arming'
  BY DEF Arming, ArmedForFront, TimelyIf, RearmsInTime
<1>4. Sound(n, mHeap, mSlots, mFreeSlots) /\ Sound(n, less, new, freed) /\ less # <<>>
  BY <1>1, <1>2 DEF Kept
<1>5. Stopped(n, mSlots, new, old)
  BY <1>1
<1>6. FrontDeadline' = new[less[1]].deadline
  BY DEF FrontDeadline
<1> HIDE DEF new, less, freed, old
<1>7. ASSUME NEW i \in 1 .. n, new[i].heapIndex # 0
      PROVE  i \in 1 .. n /\ mSlots[i].heapIndex # 0 /\ new[i].deadline = mSlots[i].deadline
  <2>1. new[i].deadline = mSlots[i].deadline
    BY <1>5 DEF Stopped
  <2>2. CASE ~ TokenValid(mSlots, old)
    BY <1>5, <1>7, <2>1, <2>2 DEF Stopped
  <2>3. CASE TokenValid(mSlots, old) /\ i # old.slot
    BY <1>5, <1>7, <2>1, <2>3 DEF Stopped, Others
  <2>4. CASE TokenValid(mSlots, old) /\ i = old.slot
    BY <1>5, <1>7, <2>4 DEF Stopped
  <2> QED BY <2>2, <2>3, <2>4
<1>8. mHeap # <<>> /\ FrontDeadline <= FrontDeadline'
  BY <1>4, <1>6, <1>7, FrontRises DEF FrontDeadline
<1>9. FrontDeadline \in Nat /\ FrontDeadline' \in Nat
  <2>1. FrontDeadline \in Nat
    BY <1>8, FrontDeadlineFacts
  <2>2. n \in Nat /\ less \in Seq(1 .. n) /\ new \in [1 .. n -> Slot] /\ Whole(less, new)
    BY <1>4 DEF Sound
  <2>3. less[1] \in 1 .. n
    BY <1>4, <2>2, FrontWaits
  <2>4. new[less[1]].deadline \in Nat
    BY <2>2, <2>3 DEF Slot
  <2> QED BY <1>6, <2>1, <2>4
<1> DEFINE a == armedFor
           d == run.deadline
<1>10. /\ a <= FrontDeadline => a <= FrontDeadline'
       /\ d <= FrontDeadline => d <= FrontDeadline'
  <2>1. a \in Nat /\ d \in Nat
    BY DEF Kept, Simple, Deadlines
  <2> HIDE DEF a, d
  <2> QED BY <1>8, <1>9, <2>1
<1>11. /\ timer' = timer /\ armedFor' = armedFor /\ raced' = raced /\ run' = run
       /\ timerCallback' = timerCallback /\ runQueued' = runQueued /\ life' = life
  BY <1>3 DEF timers
<1>12. ArmedForFront'
  BY <1>8, <1>10, <1>11, Zenon DEF Arming, ArmedForFront, TimelyIf
<1>13. RearmsInTime'
  BY <1>8, <1>10, <1>11, Zenon DEF Arming, RearmsInTime
<1> QED BY <1>12, <1>13 DEF Arming

LEMMA ArmingInit == Init => Arming
  BY DEF Init, Arming, ArmedForFront, TimelyIf, RearmsInTime

LEMMA ArmingNext == Kept /\ WaysClosed /\ Arming /\ [Next]_vars => Arming'
<1> SUFFICES ASSUME Kept, WaysClosed, Arming, [Next]_vars PROVE Arming'
  OBVIOUS
<1> USE DEF Arming, ArmedForFront, TimelyIf, RearmsInTime
\* In the other steps the front is what it was.
<1>0. UNCHANGED <<mHeap, mSlots>> => FrontDeadline' = FrontDeadline /\ mHeap' = mHeap
  BY DEF FrontDeadline
<1>1. ASSUME NEW c \in Clients, NEW delay \in Delays, Request(c, delay) PROVE Arming'
  BY <1>1, RequestArms
<1>2. ASSUME NEW c \in Clients, Cancel(c) PROVE Arming'
  BY <1>2, CancelArms
<1>3. CASE ClockTick
  BY <1>0, <1>3 DEF ClockTick, timers, data
<1>4. CASE TimerFires
  BY <1>0, <1>4 DEF TimerFires, data
<1>5. CASE QueueRun
  BY <1>0, <1>5 DEF QueueRun, timers, data
<1>6. CASE BeginRun
  <2>1. run'.at = "loop"
    BY <1>6 DEF BeginRun
  <2> QED BY <1>0, <1>6, <2>1 DEF BeginRun, timers, data
<1>7. CASE RunFront
  <2>1. run' = [run EXCEPT !.at = "callback"] /\ run.at = "loop"
    BY <1>7 DEF RunFront
  <2>2. run'.at = "callback"
    BY <2>1 DEF Kept, Simple
  <2> QED BY <2>2
<1>8. CASE CallbackReturns
  <2>1. run' = [run EXCEPT !.at = "loop"]
    BY <1>8 DEF CallbackReturns
  <2>2. run'.at = "loop"
    BY <2>1 DEF Kept, Simple
  <2> QED BY <2>2
<1>9. CASE LeaveLoop
  <2>1. CASE mHeap = <<>>
    BY <1>0, <1>9, <2>1 DEF LeaveLoop, data
  <2>2. CASE mHeap # <<>>
    <3> DEFINE f == FrontDeadline
    <3>1. run' = [run EXCEPT !.at = "rearm", !.deadline = f] /\ f \in Nat
      BY <1>9, <2>2, FrontDeadlineFacts DEF LeaveLoop
    <3> HIDE DEF f
    <3>2. run'.at = "rearm" /\ run'.deadline = f
      BY <3>1 DEF Kept, Simple
    <3>3. FrontDeadline' = f
      BY <1>0, <1>9 DEF LeaveLoop, data, f
    <3>4. run'.deadline <= FrontDeadline'
      BY <3>1, <3>2, <3>3
    <3> QED BY <3>2, <3>4
  <2> QED BY <2>1, <2>2
<1>10. CASE RearmAfterRun
  <2>1. Rearm(run.t, run.deadline) /\ run.t \in 0 .. MaxTime /\ run.deadline \in Deadlines
    BY <1>10 DEF RearmAfterRun, Kept, Simple
  <2>2. timer' \in Nat /\ armedFor' = run.deadline
    <3> DEFINE t == run.t
               d == run.deadline
    <3>1. Rearm(t, d) /\ t \in 0 .. MaxTime /\ d \in Deadlines
      BY <2>1
    <3> HIDE DEF t, d
    <3>2. timer' \in Nat /\ armedFor' = d
      BY <3>1, RearmFacts
    <3> QED BY <3>2 DEF d
  <2>3. timer' # Never
    BY <2>2, TimerAssumption
  <2>4. /\ UNCHANGED <<mHeap, mSlots>> /\ raced' = raced /\ timerCallback' = timerCallback
        /\ runQueued' = runQueued /\ life' = life /\ run'.at = "idle" /\ run.at = "rearm"
    BY <1>10 DEF RearmAfterRun, data, NotRunning
  <2> QED BY <1>0, <2>2, <2>3, <2>4, Zenon
<1>11. CASE Detach
  BY <1>11 DEF Detach
<1>12. CASE StopTimer
  BY <1>12 DEF StopTimer
<1>13. CASE CancelRun
  BY <1>13 DEF CancelRun
<1>14. CASE UNCHANGED vars
  BY <1>0, <1>14 DEF vars, timers, data
<1> QED
  BY <1>1, <1>2, <1>3, <1>4, <1>5, <1>6, <1>7, <1>8, <1>9, <1>10, <1>11, <1>12, <1>13,
     <1>14 DEF Next

\* While something waits, the system timer is armed for a deadline no later than the
\* first (or, when a worker's request fell between the last two steps of a run, armed),
\* or a run that will read the heap again is under way or on its way: no order of the
\* threads leaves what waits without a timer (Request, RunCallbacks).
THEOREM TimerIsArmed == Spec => []ArmedForFront
<1>1. Arming => ArmedForFront
  BY DEF Arming
<1> QED BY <1>1, KeptInit, KeptNext, WaysClosedInit, WaysClosedNext, ArmingInit, ArmingNext,
           PTL DEF Spec
=============================================================================
