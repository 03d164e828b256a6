------------------------ MODULE SimEventManagerProofs ------------------------
(***************************************************************************)
(* That the lists of ATSimulatorEventManager stay whole, that an id leads   *)
(* to its owner's node and that no pass is led astray, however many nodes,  *)
(* clients, events and passes inside passes there are.                      *)
(***************************************************************************)
EXTENDS SimEventManager, FiniteSetTheorems, SequenceTheorems, NaturalsInduction,
        WellFoundedInduction, Integers, TLAPS

\* Element k of q, and the null link behind the last one.
At(q, k) == IF k \in DOMAIN q THEN q[k] ELSE 0

\* The list that begins at node i has the nodes q, each once.
IsPath(nodes, i, q) ==
    /\ q \in Seq(DOMAIN nodes) /\ IsInjective(q)
    /\ i = At(q, 1)
    /\ \A k \in DOMAIN q : nodes[q[k]].next = At(q, k + 1)

Nodes == [next : Nat, id : [generation : 0 .. Generations - 1, event : Events \union {0}, index : Nat],
          fn : Clients \union {Null}]
Live(i) == mEventCallbackTable[i].fn # Null

\* The free list and the list of each event are paths, and a node is on the one
\* its function and its id tell.
Linked ==
    /\ mEventCallbackTable \in Seq(Nodes)
    /\ IsPath(mEventCallbackTable, mECFreeList, Chain(mECFreeList))
    /\ mEventCallbackLists \in [Events -> Nat]
    /\ \A ev \in Events :
          IsPath(mEventCallbackTable, mEventCallbackLists[ev], Chain(mEventCallbackLists[ev]))
Placed ==
    \A i \in DOMAIN mEventCallbackTable :
        /\ Contains(Chain(mECFreeList), i) <=> ~ Live(i)
        /\ \A ev \in Events :
              Contains(Chain(mEventCallbackLists[ev]), i)
                  <=> Live(i) /\ mEventCallbackTable[i].id.event = ev
        /\ mEventCallbackTable[i].id.index = i
        /\ mEventCallbackTable[i].id.event = 0 <=> ~ Live(i)

\* Clients and live nodes know each other.
Owned ==
    /\ ids = [c \in Clients |-> ids[c]]
    /\ IdsNameTheirOwner
    /\ \A i \in DOMAIN mEventCallbackTable :
          Live(i) => ids[mEventCallbackTable[i].fn] = mEventCallbackTable[i].id

Passes == [event : Events, calling : BOOLEAN, globalIdx : Nat, globalSize : Nat, eventIdx : Nat,
           globalTodo : Seq(Globals), eventTodo : Seq(Nat)]

\* Function f tells the nodes of the list after each number of steps.
IsSteps(f, nodes, i, size) ==
    f = [n \in 0 .. size |-> IF n = 0 THEN <<>> ELSE OneMore(nodes, i, f[n - 1])]

\* What a pass has to call yet is a path through live nodes of its event.
EventPass(pass) ==
    /\ IsPath(mEventCallbackTable, pass.eventIdx, pass.eventTodo)
    /\ \A k \in DOMAIN pass.eventTodo :
          LET node == mEventCallbackTable[pass.eventTodo[k]]
          IN  node.fn # Null /\ node.id.event = pass.event
EventPasses == \A p \in DOMAIN passes : EventPass(passes[p])

\* The size that a pass has captured, and with RemoveBehind FALSE its position and
\* what it has to call yet, when cbs are the global callbacks.
GlobalPass(cbs, pass) ==
    /\ pass.globalSize <= Len(cbs)
    /\ pass.globalIdx <= Cardinality(Globals)
    /\ ~ RemoveBehind =>
          /\ pass.globalIdx <= pass.globalSize
          /\ pass.globalTodo = SubSeq(cbs, pass.globalIdx + 1, pass.globalSize)
GlobalPasses ==
    /\ mCallbacks \in Seq(Globals) /\ IsInjective(mCallbacks)
    /\ \A p \in DOMAIN passes : GlobalPass(mCallbacks, passes[p])

Typed == passes \in Seq(Passes) /\ Len(passes) <= MaxDepth

\* The table grows only when every client but the new one has a node.
Small == Len(mEventCallbackTable) <= Cardinality(Clients)

TableInv == Linked /\ Placed /\ Owned /\ Small
EventInv == Typed /\ TableInv /\ EventPasses
Inv == EventInv /\ GlobalPasses

-----------------------------------------------------------------------------
(* Sequences.                                                                *)

\* A set of natural numbers that is not empty has a least one.
LEMMA LeastNatural ==
    ASSUME NEW S, S \subseteq Nat, S # {}
    PROVE  \E n \in S : \A m \in S : n <= m
<1>1. PICK n \in S : \A m \in S : ~ (<<m, n>> \in OpToRel(<, Nat))
  BY NatLessThanWellFounded, WFMin, Zenon
<1>2. ASSUME NEW m \in S PROVE ~ (m < n)
  BY <1>1, Zenon DEF OpToRel
<1>3. \A m \in S : n <= m
  BY <1>2
<1> QED BY <1>3

\* What part of a sequence is made of.
LEMMA SliceFacts ==
    ASSUME NEW T, NEW s \in Seq(T), NEW i \in Nat, NEW n \in Int, i <= n, n <= Len(s)
    PROVE  /\ SubSeq(s, i + 1, n) \in Seq(T) /\ Len(SubSeq(s, i + 1, n)) = n - i
           /\ \A k \in 1 .. n - i : SubSeq(s, i + 1, n)[k] = s[i + k]
<1>1. Len(s) \in Nat /\ \A k \in i + 1 .. n : s[k] \in T
  <2>1. ASSUME NEW k \in i + 1 .. n PROVE s[k] \in T
    <3>1. k \in 1 .. Len(s)
      OBVIOUS
    <3> QED BY <3>1, ElementOfSeq
  <2> QED BY <2>1
<1>2. i + 1 \in Int
  OBVIOUS
<1> DEFINE part == SubSeq(s, i + 1, n)
<1>3. /\ part \in Seq(T) /\ Len(part) = IF i + 1 <= n THEN n - (i + 1) + 1 ELSE 0
      /\ \A k \in 1 .. n - (i + 1) + 1 : part[k] = s[(i + 1) + k - 1]
  BY <1>1, <1>2, SubSeqProperties
<1> HIDE DEF part
<1>4. Len(part) = n - i
  BY <1>3
<1>5. ASSUME NEW k \in 1 .. n - i PROVE part[k] = s[i + k]
  <2>1. k \in 1 .. n - (i + 1) + 1 /\ (i + 1) + k - 1 = i + k
    OBVIOUS
  <2> QED BY <1>3, <2>1
<1> QED BY <1>3, <1>4, <1>5 DEF part

\* A sequence that is made of the same is that part.
LEMMA IsSlice ==
    ASSUME NEW T, NEW s \in Seq(T), NEW i \in Nat, NEW n \in Int, i <= n, n <= Len(s),
           NEW t \in Seq(T), Len(t) = n - i, \A k \in 1 .. n - i : t[k] = s[i + k]
    PROVE  t = SubSeq(s, i + 1, n)
<1> DEFINE part == SubSeq(s, i + 1, n)
<1>1. /\ part \in Seq(T) /\ Len(part) = n - i /\ \A k \in 1 .. n - i : part[k] = s[i + k]
  BY SliceFacts
<1> HIDE DEF part
<1>2. \A k \in 1 .. Len(t) : t[k] = part[k]
  BY <1>1
<1>3. t = part
  BY <1>1, <1>2, SeqEqual
<1> QED BY <1>3 DEF part

LEMMA RemoveAtFacts ==
    ASSUME NEW T, NEW s \in Seq(T), NEW i \in 1 .. Len(s)
    PROVE  /\ RemoveAt(s, i) \in Seq(T) /\ Len(RemoveAt(s, i)) = Len(s) - 1
           /\ \A j \in 1 .. Len(s) - 1 :
                 RemoveAt(s, i)[j] = IF j < i THEN s[j] ELSE s[j + 1]
<1> DEFINE a == SubSeq(s, 1, i - 1)
           b == SubSeq(s, i + 1, Len(s))
<1>1. Len(s) \in Nat /\ i \in Nat /\ 1 <= i /\ i <= Len(s) /\ i - 1 \in Nat
  OBVIOUS
<1>2. a \in Seq(T) /\ Len(a) = i - 1 /\ \A j \in 1 .. i - 1 : a[j] = s[j]
  <2>1. /\ SubSeq(s, 0 + 1, i - 1) \in Seq(T) /\ Len(SubSeq(s, 0 + 1, i - 1)) = (i - 1) - 0
        /\ \A k \in 1 .. (i - 1) - 0 : SubSeq(s, 0 + 1, i - 1)[k] = s[0 + k]
    BY <1>1, SliceFacts
  <2> QED BY <1>1, <2>1
<1>3. b \in Seq(T) /\ Len(b) = Len(s) - i /\ \A j \in 1 .. Len(s) - i : b[j] = s[i + j]
  BY <1>1, SliceFacts
<1> HIDE DEF a, b
<1>4. /\ a \o b \in Seq(T) /\ Len(a \o b) = Len(a) + Len(b)
      /\ \A j \in 1 .. Len(a) + Len(b) : (a \o b)[j] = IF j <= Len(a) THEN a[j] ELSE b[j - Len(a)]
  BY <1>2, <1>3, ConcatProperties
<1>5. Len(a \o b) = Len(s) - 1
  BY <1>1, <1>2, <1>3, <1>4
<1>6. ASSUME NEW j \in 1 .. Len(s) - 1 PROVE (a \o b)[j] = IF j < i THEN s[j] ELSE s[j + 1]
  <2>1. j \in 1 .. Len(a) + Len(b)
    BY <1>1, <1>2, <1>3
  <2>2. CASE j < i
    <3>1. j <= Len(a) /\ j \in 1 .. i - 1
      BY <1>1, <1>2, <2>2
    <3> QED BY <1>2, <1>4, <2>1, <2>2, <3>1
  <2>3. CASE ~ (j < i)
    <3>1. ~ (j <= Len(a)) /\ j - Len(a) \in 1 .. Len(s) - i /\ i + (j - Len(a)) = j + 1
      BY <1>1, <1>2, <2>3
    <3> QED BY <1>3, <1>4, <2>1, <2>3, <3>1
  <2> QED BY <2>2, <2>3
<1>7. RemoveAt(s, i) = a \o b
  BY DEF RemoveAt, a, b
<1> QED BY <1>4, <1>5, <1>6, <1>7

\* RemoveFirst, of what is in the sequence at one place, or nowhere.
LEMMA RemoveFirstFacts ==
    ASSUME NEW T, NEW s \in Seq(T), NEW e
    PROVE  /\ RemoveFirst(s, e) \in Seq(T)
           /\ (\A j \in 1 .. Len(s) : s[j] # e) => RemoveFirst(s, e) = s
           /\ \A i \in 1 .. Len(s) :
                 s[i] = e /\ (\A j \in 1 .. Len(s) : s[j] = e => j = i)
                     => RemoveFirst(s, e) = RemoveAt(s, i)
<1> DEFINE I == {j \in 1 .. Len(s) : s[j] = e}
<1>1. RemoveFirst(s, e) = IF \E j \in 1 .. Len(s) : s[j] = e
                          THEN RemoveAt(s, IF I # {} THEN Min(I) ELSE 0) ELSE s
  BY DEF RemoveFirst, SelectInSeq
<1>2. Len(s) \in Nat /\ I \subseteq Nat
  OBVIOUS
<1>3. CASE I = {}
  BY <1>1, <1>3
<1>4. CASE I # {}
  <2>1. PICK i \in I : \A m \in I : i <= m
    BY <1>2, <1>4, LeastNatural
  <2>2. Min(I) \in I
    BY <2>1 DEF Min
  <2>3. RemoveFirst(s, e) = RemoveAt(s, Min(I)) /\ Min(I) \in 1 .. Len(s) /\ s[Min(I)] = e
    BY <1>1, <1>4, <2>2
  <2>4. RemoveFirst(s, e) \in Seq(T)
    BY <2>3, RemoveAtFacts
  <2> QED BY <2>3, <2>4
<1> QED BY <1>3, <1>4

\* The beginning of a sequence.
LEMMA PrefixFacts ==
    ASSUME NEW T, NEW s \in Seq(T), NEW m \in 0 .. Len(s)
    PROVE  /\ SubSeq(s, 1, m) \in Seq(T) /\ Len(SubSeq(s, 1, m)) = m
           /\ \A k \in 1 .. m : SubSeq(s, 1, m)[k] = s[k]
<1>1. Len(s) \in Nat /\ 0 \in Nat /\ m \in Int /\ 0 <= m /\ m <= Len(s)
  OBVIOUS
<1>2. /\ SubSeq(s, 0 + 1, m) \in Seq(T) /\ Len(SubSeq(s, 0 + 1, m)) = m - 0
      /\ \A k \in 1 .. m - 0 : SubSeq(s, 0 + 1, m)[k] = s[0 + k]
  BY <1>1, SliceFacts
<1> QED BY <1>1, <1>2

LEMMA PrefixExtended ==
    ASSUME NEW T, NEW s \in Seq(T), NEW m \in 0 .. Len(s) - 1
    PROVE  Append(SubSeq(s, 1, m), s[m + 1]) = SubSeq(s, 1, m + 1)
<1>1. Len(s) \in Nat /\ m \in 0 .. Len(s) /\ m + 1 \in 0 .. Len(s) /\ m + 1 \in 1 .. Len(s)
  OBVIOUS
<1> DEFINE a == SubSeq(s, 1, m)
           b == SubSeq(s, 1, m + 1)
           x == s[m + 1]
<1>2. a \in Seq(T) /\ Len(a) = m /\ \A k \in 1 .. m : a[k] = s[k]
  BY <1>1, PrefixFacts
<1>3. b \in Seq(T) /\ Len(b) = m + 1 /\ \A k \in 1 .. m + 1 : b[k] = s[k]
  BY <1>1, PrefixFacts
<1>4. x \in T
  BY <1>1, ElementOfSeq
<1> HIDE DEF a, b
<1>5. /\ Append(a, x) \in Seq(T) /\ Len(Append(a, x)) = Len(a) + 1
      /\ \A k \in 1 .. Len(a) : Append(a, x)[k] = a[k]
      /\ Append(a, x)[Len(a) + 1] = x
  BY <1>2, <1>4, AppendProperties
<1>6. \A k \in 1 .. Len(b) : Append(a, x)[k] = b[k]
  <2>1. ASSUME NEW k \in 1 .. m + 1 PROVE Append(a, x)[k] = b[k]
    <3>1. CASE k = m + 1
      BY <1>2, <1>3, <1>5, <3>1
    <3>2. CASE k # m + 1
      <4>1. k \in 1 .. m /\ k \in 1 .. Len(a)
        BY <1>1, <1>2, <3>2
      <4> QED BY <1>2, <1>3, <1>5, <4>1
    <3> QED BY <3>1, <3>2
  <2> QED BY <1>3, <2>1
<1>7. Append(a, x) = b
  BY <1>2, <1>3, <1>5, <1>6, SeqEqual
<1> QED BY <1>7 DEF a, b

\* An injective sequence of positions is no longer than there are positions.
LEMMA InjectiveIsShort ==
    ASSUME NEW n \in Nat, NEW q \in Seq(1 .. n), IsInjective(q)
    PROVE  Len(q) <= n
<1>1. Len(q) \in Nat /\ DOMAIN q = 1 .. Len(q) /\ q \in [1 .. Len(q) -> 1 .. n]
  OBVIOUS
<1>2. q \in Injection(1 .. Len(q), 1 .. n)
  BY <1>1 DEF Injection, IsInjective
<1>3. IsFiniteSet(1 .. n) /\ Cardinality(1 .. n) = n /\ Cardinality(1 .. Len(q)) = Len(q)
  <2>1. IsFiniteSet(1 .. n) /\ Cardinality(1 .. n) = IF 1 > n THEN 0 ELSE n - 1 + 1
    BY FS_Interval
  <2>2. Cardinality(1 .. Len(q)) = IF 1 > Len(q) THEN 0 ELSE Len(q) - 1 + 1
    <3> DEFINE len == Len(q)
    <3>1. len \in Int /\ 1 \in Int
      BY <1>1
    <3> HIDE DEF len
    <3>2. Cardinality(1 .. len) = IF 1 > len THEN 0 ELSE len - 1 + 1
      BY <3>1, FS_Interval
    <3> QED BY <3>2 DEF len
  <2> QED BY <1>1, <2>1, <2>2
<1>4. Cardinality(1 .. Len(q)) <= Cardinality(1 .. n)
  BY <1>2, <1>3, FS_Injection
<1> QED BY <1>3, <1>4

-----------------------------------------------------------------------------
(* Following a list.                                                         *)

\* The nodes of a list after n steps: there is a function that tells them.
LEMMA StepsExist ==
    ASSUME NEW nodes, NEW i, NEW size \in Nat
    PROVE  \E f : IsSteps(f, nodes, i, size)
<1> DEFINE Good(m) ==
        \E f : f = [n \in 0 .. m |-> IF n = 0 THEN <<>> ELSE OneMore(nodes, i, f[n - 1])]
           Bad == {m \in Nat : ~ Good(m)}
<1>1. Good(0)
  <2> DEFINE f == [n \in 0 .. 0 |-> <<>>]
  <2>1. f = [n \in 0 .. 0 |-> IF n = 0 THEN <<>> ELSE OneMore(nodes, i, f[n - 1])]
    OBVIOUS
  <2> QED BY <2>1
<1>2. ASSUME NEW m \in Nat, Good(m) PROVE Good(m + 1)
  <2>1. PICK g : g = [n \in 0 .. m |-> IF n = 0 THEN <<>> ELSE OneMore(nodes, i, g[n - 1])]
    BY <1>2
  <2> DEFINE f == [n \in 0 .. m + 1 |-> IF n = 0 THEN <<>> ELSE OneMore(nodes, i, g[n - 1])]
  <2>2. \A n \in 0 .. m : f[n] = g[n]
    <3>1. \A n \in 0 .. m : g[n] = IF n = 0 THEN <<>> ELSE OneMore(nodes, i, g[n - 1])
      BY <2>1
    <3>2. \A n \in 0 .. m : n \in 0 .. m + 1
      OBVIOUS
    <3>3. \A n \in 0 .. m : f[n] = IF n = 0 THEN <<>> ELSE OneMore(nodes, i, g[n - 1])
      BY <3>2
    <3> QED BY <3>1, <3>3
  <2>3. \A n \in 0 .. m + 1 : n # 0 => n - 1 \in 0 .. m
    OBVIOUS
  <2>4. f = [n \in 0 .. m + 1 |-> IF n = 0 THEN <<>> ELSE OneMore(nodes, i, f[n - 1])]
    BY <2>2, <2>3
  <2> HIDE DEF f
  <2> QED BY <2>4
<1> HIDE DEF Good
<1>3. Bad = {}
  <2>1. SUFFICES ASSUME Bad # {} PROVE FALSE
    OBVIOUS
  <2>2. PICK m \in Bad : \A k \in Bad : m <= k
    BY <2>1, LeastNatural
  <2>3. m \in Nat /\ ~ Good(m) /\ m # 0
    BY <1>1, <2>2
  <2>4. m - 1 \in Nat /\ (m - 1) + 1 = m /\ ~ (m <= m - 1)
    BY <2>3
  <2>5. Good(m - 1)
    BY <2>2, <2>4
  <2>6. Good((m - 1) + 1)
    BY <1>2, <2>4, <2>5
  <2> QED BY <2>3, <2>4, <2>6
<1>4. Good(size)
  BY <1>3
<1> QED BY <1>4 DEF Good, IsSteps

\* One more node of a path, or none.
LEMMA OneMoreOfPath ==
    ASSUME NEW n \in Nat, NEW nodes, DOMAIN nodes = 1 .. n, NEW i, NEW q, IsPath(nodes, i, q),
           NEW m \in 0 .. Len(q)
    PROVE  OneMore(nodes, i, SubSeq(q, 1, m)) =
               IF m < Len(q) THEN SubSeq(q, 1, m + 1) ELSE SubSeq(q, 1, m)
<1> DEFINE part == SubSeq(q, 1, m)
           j == IF part = <<>> THEN i ELSE nodes[Last(part)].next
<1>1. q \in Seq(1 .. n) /\ DOMAIN q = 1 .. Len(q) /\ Len(q) \in Nat
  BY DEF IsPath
<1>2. part \in Seq(1 .. n) /\ Len(part) = m /\ \A k \in 1 .. m : part[k] = q[k]
  BY <1>1, PrefixFacts
<1>3. j = At(q, m + 1)
  <2>1. CASE m = 0
    <3>1. part = <<>>
      BY <1>2, <2>1
    <3> QED BY <2>1, <3>1 DEF IsPath
  <2>2. CASE m # 0
    <3>1. part # <<>> /\ m \in 1 .. m /\ m \in DOMAIN q
      BY <1>1, <1>2, <2>2
    <3>2. Last(part) = q[m]
      BY <1>2, <3>1 DEF Last
    <3> QED BY <3>1, <3>2 DEF IsPath
  <2> QED BY <2>1, <2>2
<1>4. OneMore(nodes, i, part) = IF j = 0 THEN part ELSE Append(part, j)
  BY DEF OneMore
<1> HIDE DEF j
<1>5. CASE m < Len(q)
  <2>1. m + 1 \in DOMAIN q /\ m \in 0 .. Len(q) - 1
    BY <1>1, <1>5
  <2>2. q[m + 1] \in 1 .. n
    BY <1>1, <2>1, ElementOfSeq
  <2>3. j = q[m + 1] /\ j # 0
    BY <1>3, <2>1, <2>2 DEF At
  <2>4. Append(part, j) = SubSeq(q, 1, m + 1)
    BY <1>1, <2>1, <2>3, PrefixExtended
  <2> QED BY <1>4, <1>5, <2>3, <2>4
<1>6. CASE ~ (m < Len(q))
  <2>1. m + 1 \notin DOMAIN q
    BY <1>1, <1>6
  <2>2. j = 0
    BY <1>3, <2>1 DEF At
  <2> QED BY <1>4, <1>6, <2>2
<1> QED BY <1>5, <1>6

\* What is found along the links is the path.
LEMMA ChainIsPath ==
    ASSUME NEW T, NEW nodes \in Seq(T), NEW i, NEW q, IsPath(nodes, i, q)
    PROVE  ChainIn(nodes, i) = q
<1> DEFINE size == Len(nodes)
<1>1. size \in Nat /\ DOMAIN nodes = 1 .. size
  OBVIOUS
<1>2. q \in Seq(1 .. size) /\ IsInjective(q) /\ Len(q) \in Nat
  BY <1>1 DEF IsPath
<1>3. Len(q) <= size
  BY <1>1, <1>2, InjectiveIsShort
<1> DEFINE path == CHOOSE f : IsSteps(f, nodes, i, size)
<1>4. path = [n \in 0 .. size |-> IF n = 0 THEN <<>> ELSE OneMore(nodes, i, path[n - 1])]
  <2>1. \E f : IsSteps(f, nodes, i, size)
    BY <1>1, StepsExist
  <2>2. IsSteps(path, nodes, i, size)
    BY <2>1, Zenon
  <2> QED BY <2>2 DEF IsSteps
<1>5. ChainIn(nodes, i) = path[size]
  BY DEF ChainIn, IsSteps
<1> HIDE DEF path
<1>6. \A n \in 0 .. size : path[n] = IF n = 0 THEN <<>> ELSE OneMore(nodes, i, path[n - 1])
  BY <1>4
<1> DEFINE Cut(n) == IF n < Len(q) THEN n ELSE Len(q)
           Bad == {n \in 0 .. size : path[n] # SubSeq(q, 1, Cut(n))}
<1> HIDE DEF size
<1>7. Bad = {}
  <2>1. SUFFICES ASSUME Bad # {} PROVE FALSE
    OBVIOUS
  <2>2. Bad \subseteq Nat
    BY <1>1
  <2>3. PICK n \in Bad : \A k \in Bad : n <= k
    BY <2>1, <2>2, LeastNatural
  <2>4. n \in 0 .. size /\ n \in Nat
    BY <1>1, <2>3
  <2>5. CASE n = 0
    <3>1. Cut(n) = 0
      BY <1>2, <2>5
    <3>2. SubSeq(q, 1, 0) = <<>>
      BY SubSeqEmpty
    <3>3. path[n] = <<>>
      BY <1>6, <2>4, <2>5
    <3> QED BY <2>3, <3>1, <3>2, <3>3
  <2>6. CASE n # 0
    <3>1. n - 1 \in 0 .. size /\ ~ (n <= n - 1)
      BY <2>4, <2>6, <1>1
    <3>2. path[n - 1] = SubSeq(q, 1, Cut(n - 1))
      <4>1. n - 1 \notin Bad
        BY <2>3, <3>1
      <4> QED BY <3>1, <4>1
    <3>3. path[n] = OneMore(nodes, i, SubSeq(q, 1, Cut(n - 1)))
      BY <1>6, <2>4, <2>6, <3>2
    <3> DEFINE m == Cut(n - 1)
    <3>4. m \in 0 .. Len(q) /\ (m < Len(q) => Cut(n) = m + 1) /\ (~ (m < Len(q)) => Cut(n) = m)
      BY <1>2, <2>4, <3>1
    <3> HIDE DEF m, Cut
    <3>5. OneMore(nodes, i, SubSeq(q, 1, m)) =
              IF m < Len(q) THEN SubSeq(q, 1, m + 1) ELSE SubSeq(q, 1, m)
      BY <1>1, <3>4, OneMoreOfPath
    <3>6. path[n] = SubSeq(q, 1, Cut(n))
      BY <3>3, <3>4, <3>5 DEF m
    <3> QED BY <2>3, <3>6
  <2> QED BY <2>5, <2>6
<1>8. path[size] = SubSeq(q, 1, Len(q))
  <2>1. size \in 0 .. size /\ Cut(size) = Len(q)
    BY <1>1, <1>2, <1>3
  <2> QED BY <1>7, <2>1
<1>9. SubSeq(q, 1, Len(q)) = q
  BY <1>2, SubSeqFull
<1> QED BY <1>5, <1>8, <1>9 DEF size

-----------------------------------------------------------------------------
(* Changes to a list.                                                        *)

LEMMA PathFacts ==
    ASSUME NEW nodes, 0 \notin DOMAIN nodes, NEW i, NEW q, IsPath(nodes, i, q)
    PROVE  /\ q \in Seq(DOMAIN nodes) /\ DOMAIN q = 1 .. Len(q) /\ Len(q) \in Nat
           /\ \A k \in 1 .. Len(q) : q[k] \in DOMAIN nodes /\ q[k] # 0
           /\ i = 0 <=> q = <<>>
           /\ i # 0 => q[1] = i /\ 1 \in DOMAIN q /\ i \in DOMAIN nodes
<1>1. /\ q \in Seq(DOMAIN nodes) /\ DOMAIN q = 1 .. Len(q) /\ Len(q) \in Nat
  BY DEF IsPath
<1>2. \A k \in 1 .. Len(q) : q[k] \in DOMAIN nodes /\ q[k] # 0
  BY <1>1
<1>3. CASE q = <<>>
  <2>1. Len(q) = 0 /\ 1 \notin DOMAIN q
    BY <1>1, <1>3
  <2>2. i = 0
    BY <2>1 DEF IsPath, At
  <2> QED BY <1>1, <1>2, <1>3, <2>2
<1>4. CASE q # <<>>
  <2>1. 1 \in DOMAIN q /\ 1 \in 1 .. Len(q)
    BY <1>1, <1>4
  <2>2. i = q[1]
    BY <2>1 DEF IsPath, At
  <2> QED BY <1>1, <1>2, <1>4, <2>1, <2>2
<1> QED BY <1>3, <1>4

\* Its links are left as they are.
LEMMA FrameKeepsPath ==
    ASSUME NEW nodes, NEW new, DOMAIN nodes \subseteq DOMAIN new, NEW i, NEW q, IsPath(nodes, i, q),
           \A k \in DOMAIN q : new[q[k]].next = nodes[q[k]].next
    PROVE  IsPath(new, i, q)
<1>1. q \in Seq(DOMAIN new)
  BY DEF IsPath
<1> QED BY <1>1 DEF IsPath

\* A node is put in front.
LEMMA PushKeepsPath ==
    ASSUME NEW nodes, 0 \notin DOMAIN nodes, NEW i, NEW q, IsPath(nodes, i, q),
           NEW j \in DOMAIN nodes, ~ Contains(q, j), nodes[j].next = i
    PROVE  /\ IsPath(nodes, j, <<j>> \o q)
           /\ \A x : Contains(<<j>> \o q, x) <=> x = j \/ Contains(q, x)
<1> DEFINE one == <<j>>
           r == one \o q
           n == Len(q)
<1>1. /\ q \in Seq(DOMAIN nodes) /\ DOMAIN q = 1 .. n /\ n \in Nat
      /\ \A k \in 1 .. n : q[k] \in DOMAIN nodes
  BY PathFacts
<1>2. one \in Seq(DOMAIN nodes) /\ Len(one) = 1 /\ one[1] = j
  OBVIOUS
<1> HIDE DEF one
<1>3. /\ r \in Seq(DOMAIN nodes) /\ Len(r) = Len(one) + Len(q)
      /\ \A k \in 1 .. Len(one) + Len(q) : r[k] = IF k <= Len(one) THEN one[k] ELSE q[k - Len(one)]
  BY <1>1, <1>2, ConcatProperties
<1> HIDE DEF r
<1>4. Len(r) = n + 1 /\ DOMAIN r = 1 .. n + 1
  BY <1>1, <1>2, <1>3
<1>5. r[1] = j /\ \A k \in 1 .. n : r[k + 1] = q[k]
  <2>1. 1 \in 1 .. Len(one) + Len(q) /\ 1 <= Len(one)
    BY <1>1, <1>2
  <2>2. ASSUME NEW k \in 1 .. n PROVE r[k + 1] = q[k]
    <3>1. k + 1 \in 1 .. Len(one) + Len(q) /\ ~ (k + 1 <= Len(one)) /\ (k + 1) - Len(one) = k
      BY <1>1, <1>2
    <3> QED BY <1>3, <3>1
  <2> QED BY <1>2, <1>3, <2>1, <2>2
<1>6. \A k \in 1 .. n + 1 : k = 1 \/ (k - 1 \in 1 .. n /\ (k - 1) + 1 = k /\ r[k] = q[k - 1])
  <2>1. ASSUME NEW k \in 1 .. n + 1, k # 1
        PROVE  k - 1 \in 1 .. n /\ (k - 1) + 1 = k /\ r[k] = q[k - 1]
    <3>1. k - 1 \in 1 .. n /\ (k - 1) + 1 = k
      BY <1>1, <2>1
    <3> QED BY <1>5, <3>1
  <2> QED BY <2>1
<1>7. \A k \in 1 .. n : q[k] # j
  BY DEF Contains
<1>8. IsInjective(r)
  <2>1. ASSUME NEW a \in 1 .. n + 1, NEW b \in 1 .. n + 1, r[a] = r[b] PROVE a = b
    <3>1. CASE a = 1 \/ b = 1
      BY <1>5, <1>6, <1>7, <2>1, <3>1
    <3>2. CASE a # 1 /\ b # 1
      <4>1. q[a - 1] = q[b - 1] /\ a - 1 \in DOMAIN q /\ b - 1 \in DOMAIN q
        BY <1>1, <1>6, <2>1, <3>2
      <4>2. a - 1 = b - 1
        BY <4>1 DEF IsPath, IsInjective
      <4> QED BY <4>2
    <3> QED BY <3>1, <3>2
  <2> QED BY <1>4, <2>1 DEF IsInjective
<1>9. At(r, 1) = j /\ \A k \in 1 .. n + 1 : At(r, k + 1) = At(q, k)
  <2>1. At(r, 1) = j
    BY <1>1, <1>4, <1>5 DEF At
  <2>2. ASSUME NEW k \in 1 .. n + 1 PROVE At(r, k + 1) = At(q, k)
    <3>1. CASE k \in 1 .. n
      BY <1>1, <1>4, <1>5, <3>1 DEF At
    <3>2. CASE k \notin 1 .. n
      <4>1. k + 1 \notin 1 .. n + 1
        BY <1>1, <3>2
      <4> QED BY <1>1, <1>4, <3>2, <4>1 DEF At
    <3> QED BY <3>1, <3>2
  <2> QED BY <2>1, <2>2
<1>10. ASSUME NEW k \in 1 .. n + 1 PROVE nodes[r[k]].next = At(r, k + 1)
  <2>1. CASE k = 1
    <3>1. i = At(q, 1)
      BY DEF IsPath
    <3> QED BY <1>1, <1>5, <1>9, <2>1, <3>1
  <2>2. CASE k # 1
    <3>1. k - 1 \in DOMAIN q /\ (k - 1) + 1 = k /\ r[k] = q[k - 1]
      BY <1>1, <1>6, <2>2
    <3>2. nodes[q[k - 1]].next = At(q, k)
      BY <3>1 DEF IsPath
    <3> QED BY <1>9, <3>1, <3>2
  <2> QED BY <2>1, <2>2
<1>11. IsPath(nodes, j, r)
  BY <1>3, <1>4, <1>8, <1>9, <1>10 DEF IsPath
<1>12. ASSUME NEW x PROVE Contains(r, x) <=> x = j \/ Contains(q, x)
  <2>1. ASSUME Contains(r, x) PROVE x = j \/ Contains(q, x)
    <3>1. PICK k \in 1 .. n + 1 : r[k] = x
      BY <1>4, <2>1 DEF Contains
    <3> QED BY <1>5, <1>6, <3>1 DEF Contains
  <2>2. ASSUME x = j PROVE Contains(r, x)
    BY <1>1, <1>4, <1>5, <2>2 DEF Contains
  <2>3. ASSUME Contains(q, x) PROVE Contains(r, x)
    <3>1. PICK k \in 1 .. n : q[k] = x
      BY <2>3 DEF Contains
    <3>2. k + 1 \in 1 .. Len(r) /\ r[k + 1] = x
      BY <1>1, <1>4, <1>5, <3>1
    <3> QED BY <3>2 DEF Contains
  <2> QED BY <2>1, <2>2, <2>3
<1> QED BY <1>11, <1>12 DEF r, one

\* The first node is taken.
LEMMA PopKeepsPath ==
    ASSUME NEW nodes, 0 \notin DOMAIN nodes, NEW i, NEW q, IsPath(nodes, i, q), i # 0
    PROVE  /\ IsPath(nodes, nodes[i].next, Tail(q))
           /\ \A x : Contains(Tail(q), x) <=> x # i /\ Contains(q, x)
<1> DEFINE r == Tail(q)
           n == Len(q)
<1>1. /\ q \in Seq(DOMAIN nodes) /\ DOMAIN q = 1 .. n /\ n \in Nat
      /\ \A k \in 1 .. n : q[k] \in DOMAIN nodes
      /\ q[1] = i /\ 1 \in DOMAIN q /\ q # <<>>
  BY PathFacts
<1>2. r \in Seq(DOMAIN nodes) /\ Len(r) = n - 1 /\ \A k \in 1 .. n - 1 : r[k] = q[k + 1]
  BY <1>1, HeadTailProperties
<1> HIDE DEF r
<1>3. DOMAIN r = 1 .. n - 1
  BY <1>1, <1>2
<1>4. \A a, b \in 1 .. n : q[a] = q[b] => a = b
  BY <1>1 DEF IsPath, IsInjective
<1>5. IsInjective(r)
  <2>1. ASSUME NEW a \in 1 .. n - 1, NEW b \in 1 .. n - 1, r[a] = r[b] PROVE a = b
    <3>1. a + 1 \in 1 .. n /\ b + 1 \in 1 .. n
      BY <1>1
    <3>2. a + 1 = b + 1
      BY <1>2, <1>4, <2>1, <3>1
    <3> QED BY <3>2
  <2> QED BY <1>3, <2>1 DEF IsInjective
<1>6. ASSUME NEW k \in 1 .. n PROVE At(r, k) = At(q, k + 1)
  <2>1. CASE k = n
    <3>1. k \notin DOMAIN r /\ k + 1 \notin DOMAIN q
      BY <1>1, <1>3, <2>1
    <3> QED BY <3>1 DEF At
  <2>2. CASE k # n
    <3>1. k \in 1 .. n - 1 /\ k + 1 \in 1 .. n
      <4>1. n \in Nat
        BY <1>1
      <4> HIDE DEF n
      <4> QED BY <2>2, <4>1
    <3> QED BY <1>1, <1>2, <1>3, <3>1 DEF At
  <2> QED BY <2>1, <2>2
<1>7. nodes[i].next = At(r, 1)
  <2>1. nodes[q[1]].next = At(q, 1 + 1)
    BY <1>1 DEF IsPath
  <2> QED BY <1>1, <1>6, <2>1
<1>8. ASSUME NEW k \in 1 .. n - 1 PROVE nodes[r[k]].next = At(r, k + 1)
  <2>1. k + 1 \in 1 .. n /\ k + 1 \in DOMAIN q
    BY <1>1
  <2>2. nodes[q[k + 1]].next = At(q, (k + 1) + 1)
    BY <2>1 DEF IsPath
  <2> QED BY <1>2, <1>6, <2>1, <2>2
<1>9. IsPath(nodes, nodes[i].next, r)
  BY <1>2, <1>3, <1>5, <1>7, <1>8 DEF IsPath
<1>10. ASSUME NEW x PROVE Contains(r, x) <=> x # i /\ Contains(q, x)
  <2>1. ASSUME Contains(r, x) PROVE x # i /\ Contains(q, x)
    <3>1. PICK k \in 1 .. n - 1 : r[k] = x
      BY <1>2, <2>1 DEF Contains
    <3>2. k + 1 \in 1 .. n /\ k + 1 # 1 /\ q[k + 1] = x
      BY <1>1, <1>2, <3>1
    <3>3. x # q[1]
      BY <1>1, <1>4, <3>2
    <3> QED BY <1>1, <3>2, <3>3 DEF Contains
  <2>2. ASSUME x # i, Contains(q, x) PROVE Contains(r, x)
    <3>1. PICK k \in 1 .. n : q[k] = x
      BY <2>2 DEF Contains
    <3>2. k # 1
      BY <1>1, <2>2, <3>1
    <3>3. k - 1 \in 1 .. n - 1 /\ (k - 1) + 1 = k
      BY <1>1, <3>2
    <3>4. r[k - 1] = x
      BY <1>2, <3>1, <3>3
    <3> QED BY <1>2, <3>3, <3>4 DEF Contains
  <2> QED BY <2>1, <2>2
<1> QED BY <1>9, <1>10 DEF r

\* Node j is bypassed: what led to it leads to where it led.
Unlinked(nodes, new, j) ==
    /\ DOMAIN new = DOMAIN nodes
    /\ \A x \in DOMAIN nodes \ {j} :
          new[x].next = IF nodes[x].next = j THEN nodes[j].next ELSE nodes[x].next

LEMMA UnlinkKeepsPath ==
    ASSUME NEW nodes, 0 \notin DOMAIN nodes, NEW i, NEW q, IsPath(nodes, i, q),
           NEW j \in DOMAIN nodes, NEW new, Unlinked(nodes, new, j)
    PROVE  /\ IsPath(new, IF i = j THEN nodes[j].next ELSE i, RemoveFirst(q, j))
           /\ \A x : Contains(RemoveFirst(q, j), x) <=> x # j /\ Contains(q, x)
<1> DEFINE n == Len(q)
           r == RemoveFirst(q, j)
           head == IF i = j THEN nodes[j].next ELSE i
<1>1. /\ q \in Seq(DOMAIN nodes) /\ DOMAIN q = 1 .. n /\ n \in Nat /\ j # 0
      /\ \A k \in 1 .. n : q[k] \in DOMAIN nodes /\ q[k] # 0
  BY PathFacts
<1>2. /\ i = At(q, 1) /\ \A k \in 1 .. n : nodes[q[k]].next = At(q, k + 1)
      /\ \A a, b \in 1 .. n : q[a] = q[b] => a = b
  BY <1>1 DEF IsPath, IsInjective
<1>3. \A x \in DOMAIN nodes \ {j} :
          new[x].next = IF nodes[x].next = j THEN nodes[j].next ELSE nodes[x].next
  BY DEF Unlinked
<1>4. CASE ~ Contains(q, j)
  <2>1. \A k \in 1 .. n : q[k] # j
    BY <1>4 DEF Contains
  <2>2. r = q
    BY <1>1, <2>1, RemoveFirstFacts
  <2>3. \A k : At(q, k) # j
    BY <1>1, <2>1 DEF At
  <2>4. head = i
    BY <1>2, <2>3
  <2>5. \A k \in DOMAIN q : new[q[k]].next = nodes[q[k]].next
    BY <1>1, <1>2, <1>3, <2>1, <2>3
  <2>6. IsPath(new, i, q)
    BY <2>5, FrameKeepsPath DEF Unlinked
  <2>7. \A x : Contains(q, x) => x # j
    BY <1>4
  <2> QED BY <2>2, <2>4, <2>6, <2>7
<1>5. CASE Contains(q, j)
  <2>1. PICK m \in 1 .. n : q[m] = j
    BY <1>5 DEF Contains
  <2>2. r = RemoveAt(q, m)
    BY <1>1, <1>2, <2>1, RemoveFirstFacts
  <2>3. /\ r \in Seq(DOMAIN nodes) /\ Len(r) = n - 1
        /\ \A k \in 1 .. n - 1 : r[k] = IF k < m THEN q[k] ELSE q[k + 1]
    BY <1>1, <2>2, RemoveAtFacts
  <2> HIDE DEF r
  <2>4. DOMAIN r = 1 .. n - 1
    BY <1>1, <2>3
  <2>5. ASSUME NEW k \in 1 .. n PROVE At(r, k) = IF k < m THEN q[k] ELSE At(q, k + 1)
    <3>1. CASE k = n
      <4>1. ~ (k < m) /\ k \notin DOMAIN r /\ k + 1 \notin DOMAIN q
        BY <1>1, <2>4, <3>1
      <4> QED BY <4>1 DEF At
    <3>2. CASE k # n
      <4>1. k \in 1 .. n - 1 /\ k + 1 \in 1 .. n
        <5>1. n \in Nat
          BY <1>1
        <5> HIDE DEF n
        <5> QED BY <3>2, <5>1
      <4> QED BY <1>1, <2>3, <2>4, <4>1 DEF At
    <3> QED BY <3>1, <3>2
  <2>6. nodes[j].next = At(q, m + 1)
    BY <1>2, <2>1
  <2>7. head = At(r, 1)
    <3>1. 1 \in 1 .. n
      BY <1>1
    <3>2. i = q[1]
      BY <1>1, <1>2, <3>1 DEF At
    <3>3. CASE m = 1
      BY <2>1, <2>5, <2>6, <3>1, <3>2, <3>3
    <3>4. CASE m # 1
      <4>1. 1 < m /\ i # j
        BY <1>1, <1>2, <2>1, <3>1, <3>2, <3>4
      <4> QED BY <2>5, <3>1, <3>2, <4>1
    <3> QED BY <3>3, <3>4
  <2>8. IsInjective(r)
    <3> DEFINE Old(k) == IF k < m THEN k ELSE k + 1
    <3>1. \A k \in 1 .. n - 1 : Old(k) \in 1 .. n /\ r[k] = q[Old(k)]
      BY <1>1, <2>3
    <3>2. \A a, b \in 1 .. n - 1 : Old(a) = Old(b) => a = b
      BY <1>1
    <3> HIDE DEF Old
    <3>3. ASSUME NEW a \in 1 .. n - 1, NEW b \in 1 .. n - 1, r[a] = r[b] PROVE a = b
      <4>1. Old(a) \in 1 .. n /\ r[a] = q[Old(a)] /\ Old(b) \in 1 .. n /\ r[b] = q[Old(b)]
        BY <3>1
      <4>2. q[Old(a)] = q[Old(b)]
        BY <3>3, <4>1
      <4>3. Old(a) = Old(b)
        BY <1>2, <4>1, <4>2, Zenon
      <4> QED BY <3>2, <4>3
    <3> QED BY <2>4, <3>3 DEF IsInjective
  <2>9. ASSUME NEW k \in 1 .. n - 1 PROVE new[r[k]].next = At(r, k + 1)
    <3>0. k + 1 \in 1 .. n /\ k \in 1 .. n
      BY <1>1
    <3>1. CASE k + 1 = m
      <4>1. r[k] = q[k] /\ q[k] # j /\ q[k] \in DOMAIN nodes
        <5>1. k < m /\ k # m
          BY <1>1, <3>1
        <5> QED BY <1>1, <1>2, <2>1, <2>3, <3>0, <5>1
      <4>2. nodes[q[k]].next = j
        BY <1>1, <1>2, <2>1, <3>0, <3>1 DEF At
      <4>3. new[q[k]].next = At(q, m + 1)
        BY <1>3, <2>6, <4>1, <4>2
      <4>4. At(r, k + 1) = At(q, m + 1)
        BY <1>1, <2>5, <3>0, <3>1
      <4> QED BY <4>1, <4>3, <4>4
    <3>2. CASE k + 1 < m
      <4>1. r[k] = q[k] /\ q[k] # j /\ q[k] \in DOMAIN nodes
        <5>1. k < m /\ k # m
          BY <1>1, <3>2
        <5> QED BY <1>1, <1>2, <2>1, <2>3, <3>0, <5>1
      <4>2. nodes[q[k]].next = q[k + 1] /\ q[k + 1] # j
        <5>1. k + 1 # m
          BY <1>1, <3>2
        <5> QED BY <1>1, <1>2, <2>1, <3>0, <5>1 DEF At
      <4>3. new[q[k]].next = q[k + 1]
        BY <1>3, <4>1, <4>2
      <4> QED BY <2>5, <3>0, <3>2, <4>1, <4>3
    <3>3. CASE k >= m
      <4>1. r[k] = q[k + 1] /\ q[k + 1] # j /\ q[k + 1] \in DOMAIN nodes
        <5>1. ~ (k < m) /\ k + 1 # m
          BY <1>1, <3>3
        <5> QED BY <1>1, <1>2, <2>1, <2>3, <3>0, <5>1
      <4>2. nodes[q[k + 1]].next = At(q, (k + 1) + 1) /\ At(q, (k + 1) + 1) # j
        <5>1. nodes[q[k + 1]].next = At(q, (k + 1) + 1)
          BY <1>2, <3>0
        <5>2. (k + 1) + 1 # m
          BY <1>1, <3>3
        <5>3. At(q, (k + 1) + 1) # j
          BY <1>1, <1>2, <2>1, <5>2 DEF At
        <5> QED BY <5>1, <5>3
      <4>3. new[q[k + 1]].next = At(q, (k + 1) + 1)
        BY <1>3, <4>1, <4>2
      <4>4. At(r, k + 1) = At(q, (k + 1) + 1)
        <5>1. ~ (k + 1 < m)
          BY <1>1, <3>3
        <5> QED BY <2>5, <3>0, <5>1
      <4> QED BY <4>1, <4>3, <4>4
    <3>4. k + 1 = m \/ k + 1 < m \/ k >= m
      BY <1>1
    <3> QED BY <3>1, <3>2, <3>3, <3>4
  <2>10. IsPath(new, head, r)
    <3>1. r \in Seq(DOMAIN new)
      BY <2>3 DEF Unlinked
    <3> QED BY <2>4, <2>7, <2>8, <2>9, <3>1 DEF IsPath
  <2>11. ASSUME NEW x PROVE Contains(r, x) <=> x # j /\ Contains(q, x)
    <3>1. ASSUME Contains(r, x) PROVE x # j /\ Contains(q, x)
      <4>1. PICK k \in 1 .. n - 1 : r[k] = x
        BY <2>3, <3>1 DEF Contains
      <4> DEFINE o == IF k < m THEN k ELSE k + 1
      <4>2. o \in 1 .. n /\ o # m /\ q[o] = x
        BY <1>1, <2>3, <4>1
      <4> HIDE DEF o
      <4> QED BY <1>2, <2>1, <4>2 DEF Contains
    <3>2. ASSUME x # j, Contains(q, x) PROVE Contains(r, x)
      <4>1. PICK o \in 1 .. n : q[o] = x
        BY <3>2 DEF Contains
      <4>2. o # m
        BY <2>1, <3>2, <4>1
      <4>3. CASE o < m
        <5>1. o \in 1 .. n - 1 /\ r[o] = x
          BY <1>1, <2>3, <4>1, <4>3
        <5> QED BY <2>3, <5>1 DEF Contains
      <4>4. CASE o > m
        <5>1. o - 1 \in 1 .. n - 1 /\ ~ (o - 1 < m) /\ (o - 1) + 1 = o
          BY <1>1, <4>4
        <5>2. r[o - 1] = x
          BY <2>3, <4>1, <5>1
        <5> QED BY <2>3, <5>1, <5>2 DEF Contains
      <4> QED BY <1>1, <4>2, <4>3, <4>4
    <3> QED BY <3>1, <3>2
  <2> QED BY <2>10, <2>11 DEF r
<1> QED BY <1>4, <1>5

-----------------------------------------------------------------------------
(* The table.                                                                *)

LEMMA IsSequence ==
    ASSUME NEW T, NEW n \in Nat, NEW q, q = [p \in 1 .. n |-> q[p]], \A p \in 1 .. n : q[p] \in T
    PROVE  q \in Seq(T) /\ Len(q) = n /\ DOMAIN q = 1 .. n
<1>1. q \in [1 .. n -> T]
  OBVIOUS
<1>2. q \in Seq(T)
  BY <1>1, SeqDef
<1>3. DOMAIN q = 1 .. n /\ DOMAIN q = 1 .. Len(q) /\ Len(q) \in Nat
  BY <1>1, <1>2
<1>4. Len(q) = n
  BY <1>3
<1> QED BY <1>2, <1>3, <1>4

LEMMA GenerationType ==
    ASSUME NEW g \in Nat
    PROVE  NextGeneration(g) \in 0 .. Generations - 1
  BY SimEventAssumption DEF NextGeneration

\* What the invariant says of one node and of the lists.
LEMMA NodeFacts ==
    ASSUME TableInv
    PROVE  /\ mEventCallbackTable \in Seq(Nodes) /\ Len(mEventCallbackTable) \in Nat
           /\ DOMAIN mEventCallbackTable = 1 .. Len(mEventCallbackTable)
           /\ 0 \notin DOMAIN mEventCallbackTable
           /\ \A i \in DOMAIN mEventCallbackTable :
                 /\ mEventCallbackTable[i] \in Nodes /\ i \in Nat
                 /\ mEventCallbackTable[i].id.index = i
                 /\ mEventCallbackTable[i].id.generation \in Nat
                 /\ Live(i) => /\ mEventCallbackTable[i].fn \in Clients
                               /\ mEventCallbackTable[i].id.event \in Events
           /\ mECFreeList # 0 => mECFreeList \in DOMAIN mEventCallbackTable /\ ~ Live(mECFreeList)
<1>1. /\ mEventCallbackTable \in Seq(Nodes) /\ Len(mEventCallbackTable) \in Nat
      /\ DOMAIN mEventCallbackTable = 1 .. Len(mEventCallbackTable)
      /\ 0 \notin DOMAIN mEventCallbackTable
  BY DEF TableInv, Linked
<1>2. ASSUME NEW i \in DOMAIN mEventCallbackTable
      PROVE  /\ mEventCallbackTable[i] \in Nodes /\ i \in Nat
             /\ mEventCallbackTable[i].id.index = i
             /\ mEventCallbackTable[i].id.generation \in Nat
             /\ Live(i) => /\ mEventCallbackTable[i].fn \in Clients
                           /\ mEventCallbackTable[i].id.event \in Events
  <2>1. mEventCallbackTable[i] \in Nodes /\ i \in Nat
    BY <1>1
  <2>2. mEventCallbackTable[i].id.index = i /\ (mEventCallbackTable[i].id.event = 0 <=> ~ Live(i))
    BY DEF TableInv, Placed
  <2>3. /\ mEventCallbackTable[i].fn \in Clients \union {Null}
        /\ mEventCallbackTable[i].id.event \in Events \union {0}
        /\ mEventCallbackTable[i].id.generation \in 0 .. Generations - 1
    BY <2>1 DEF Nodes
  <2> QED BY <2>1, <2>2, <2>3 DEF Live
<1>3. ASSUME mECFreeList # 0 PROVE mECFreeList \in DOMAIN mEventCallbackTable /\ ~ Live(mECFreeList)
  <2> DEFINE q == Chain(mECFreeList)
  <2>1. IsPath(mEventCallbackTable, mECFreeList, q)
    BY DEF TableInv, Linked
  <2>2. /\ mECFreeList \in DOMAIN mEventCallbackTable
        /\ q[1] = mECFreeList /\ 1 \in 1 .. Len(q)
    BY <1>1, <1>3, <2>1, PathFacts
  <2>3. Contains(q, mECFreeList)
    BY <2>2 DEF Contains
  <2> QED BY <2>2, <2>3 DEF TableInv, Placed
<1> QED BY <1>1, <1>2, <1>3

\* Node index is taken for client c and event ev, with this id and successor, and
\* the rest of the table is left as it is.
Taken(index, c, ev, id) ==
    /\ index \in DOMAIN mEventCallbackTable \/ index = Len(mEventCallbackTable) + 1
    /\ index \in DOMAIN mEventCallbackTable => ~ Live(index)
    /\ DOMAIN mEventCallbackTable' = DOMAIN mEventCallbackTable \union {index}
    /\ mEventCallbackTable' \in Seq(Nodes)
    /\ \A x \in DOMAIN mEventCallbackTable \ {index} :
          mEventCallbackTable'[x] = mEventCallbackTable[x]
    /\ mEventCallbackTable'[index] = [next |-> mEventCallbackLists[ev], id |-> id, fn |-> c]
    /\ id.index = index /\ id.event = ev

LEMMA IdFacts ==
    ASSUME NEW ev \in Events, NEW old,
           old \in [generation : Nat, event : {0}, index : Nat]
    PROVE  LET id == [old EXCEPT !.generation = NextGeneration(@), !.event = @ + ev]
           IN  /\ id \in [generation : 0 .. Generations - 1, event : Events \union {0}, index : Nat]
               /\ id.event = ev /\ id.index = old.index
<1> DEFINE g == NextGeneration(old.generation)
           e == old.event + ev
<1>1. g \in 0 .. Generations - 1
  BY GenerationType
<1>2. e = ev /\ e \in Events
  BY SimEventAssumption
<1> HIDE DEF g, e
<1>3. /\ [old EXCEPT !.generation = g, !.event = e] \in
             [generation : 0 .. Generations - 1, event : Events \union {0}, index : Nat]
      /\ [old EXCEPT !.generation = g, !.event = e].event = e
      /\ [old EXCEPT !.generation = g, !.event = e].index = old.index
  BY <1>1, <1>2
<1> QED BY <1>2, <1>3 DEF g, e

LEMMA AdditionTakesNode ==
    ASSUME TableInv, NEW c \in Clients, NEW ev \in Events, AddEventCallback(c, ev)
    PROVE  \E index, id :
              /\ Taken(index, c, ev, id)
              /\ mEventCallbackLists' = [mEventCallbackLists EXCEPT ![ev] = index]
              /\ ids' = [ids EXCEPT ![c] = id]
              /\ IF mECFreeList # 0
                 THEN index = mECFreeList /\ mECFreeList' = mEventCallbackTable[index].next
                 ELSE index = Len(mEventCallbackTable) + 1 /\ mECFreeList' = 0
<1> DEFINE n == Len(mEventCallbackTable)
           nodes == TableForAdd
           index == NodeForAdd(nodes)
           node == nodes[index]
           id == [node.id EXCEPT !.generation = NextGeneration(@), !.event = @ + ev]
           new == [next |-> mEventCallbackLists[ev], id |-> id, fn |-> c]
           old == [generation : Nat, event : {0}, index : Nat]
<1>1. /\ mECFreeList' = node.next /\ mEventCallbackTable' = [nodes EXCEPT ![index] = new]
      /\ mEventCallbackLists' = [mEventCallbackLists EXCEPT ![ev] = index]
      /\ ids' = [ids EXCEPT ![c] = id]
  BY DEF AddEventCallback
<1>2. /\ n \in Nat /\ DOMAIN mEventCallbackTable = 1 .. n
      /\ \A x \in 1 .. n : mEventCallbackTable[x] \in Nodes
      /\ mEventCallbackLists[ev] \in Nat
  BY NodeFacts DEF TableInv, Linked
<1> HIDE DEF n, nodes, index
<1>3. /\ index \in 1 .. n \/ index = n + 1
      /\ index \in 1 .. n => ~ Live(index)
      /\ DOMAIN nodes = 1 .. n \union {index}
      /\ \A x \in 1 .. n : nodes[x] = mEventCallbackTable[x]
      /\ node.id \in old /\ node.id.index = index
      /\ nodes = [x \in DOMAIN nodes |-> nodes[x]]
      /\ IF mECFreeList # 0
         THEN index = mECFreeList /\ node.next = mEventCallbackTable[index].next
         ELSE index = n + 1 /\ node.next = 0
  <2>1. CASE mECFreeList # 0
    <3>1. nodes = mEventCallbackTable /\ index = mECFreeList
      BY <2>1 DEF TableForAdd, NodeForAdd, nodes, index
    <3>2. index \in 1 .. n /\ ~ Live(index) /\ index \in DOMAIN mEventCallbackTable
      BY <1>2, <2>1, <3>1, NodeFacts
    <3>3. /\ node \in Nodes /\ node.id.index = index /\ node.id.event = 0
          /\ node.id.generation \in Nat
      BY <1>2, <3>1, <3>2, NodeFacts DEF TableInv, Placed
    <3>4. node.id \in old
      BY <3>3 DEF Nodes
    <3>5. mEventCallbackTable = [x \in DOMAIN mEventCallbackTable |-> mEventCallbackTable[x]]
      BY NodeFacts
    <3> QED BY <1>2, <2>1, <3>1, <3>2, <3>3, <3>4, <3>5
  <2>2. CASE mECFreeList = 0
    <3> DEFINE last == NewNode(n + 1)
               T == Nodes \union {last}
               table0 == mEventCallbackTable
    <3>1. nodes = Append(table0, last) /\ last \in T
      BY <2>2 DEF TableForAdd, nodes, n
    <3>2. table0 \in Seq(T) /\ Len(table0) = n
      <4>1. Nodes \subseteq T /\ table0 \in Seq(Nodes)
        BY NodeFacts
      <4> HIDE DEF T, table0
      <4>2. table0 \in Seq(T)
        BY <4>1, SeqMonotonic
      <4> QED BY <4>2 DEF n, table0
    <3> HIDE DEF last, T, table0
    <3>3. /\ nodes \in Seq(T) /\ Len(nodes) = n + 1 /\ \A x \in 1 .. n : nodes[x] = table0[x]
          /\ nodes[n + 1] = last
      BY <3>1, <3>2, AppendProperties
    <3>4. index = n + 1
      BY <2>2, <3>3 DEF NodeForAdd, index
    <3>5. last = [next |-> 0, id |-> [generation |-> 1, event |-> 0, index |-> index], fn |-> Null]
      BY <3>4 DEF NewNode, last
    <3>6. node.next = 0 /\ node.id \in old /\ node.id.index = index
      BY <1>2, <3>3, <3>4, <3>5
    <3>7. DOMAIN nodes = 1 .. n \union {index} /\ index \notin 1 .. n
      BY <1>2, <3>3, <3>4
    <3>8. nodes = [x \in DOMAIN nodes |-> nodes[x]]
      BY <3>3
    <3> QED BY <2>2, <3>3, <3>4, <3>6, <3>7, <3>8 DEF table0
  <2> QED BY <2>1, <2>2
<1>4. /\ id \in [generation : 0 .. Generations - 1, event : Events \union {0}, index : Nat]
      /\ id.event = ev /\ id.index = index
  BY <1>3, IdFacts
<1> HIDE DEF id
<1>5. new \in Nodes
  BY <1>2, <1>4 DEF Nodes
<1>6. /\ DOMAIN mEventCallbackTable' = 1 .. n \union {index}
      /\ mEventCallbackTable'[index] = new
      /\ \A x \in 1 .. n \ {index} : mEventCallbackTable'[x] = mEventCallbackTable[x]
  <2> HIDE DEF new
  <2> QED BY <1>1, <1>3
<1>7. mEventCallbackTable' \in Seq(Nodes)
  <2> DEFINE m == IF index = n + 1 THEN n + 1 ELSE n
             table1 == mEventCallbackTable'
  <2>1. m \in Nat /\ DOMAIN table1 = 1 .. m
    BY <1>2, <1>3, <1>6
  <2>2. \A x \in 1 .. m : table1[x] \in Nodes
    BY <1>2, <1>5, <1>6, <2>1
  <2>3. table1 = [x \in 1 .. m |-> table1[x]]
    <3>1. table1 = [x \in DOMAIN nodes |-> table1[x]]
      BY <1>1, <1>3
    <3>2. DOMAIN nodes = 1 .. m
      BY <1>3, <1>6, <2>1
    <3> HIDE DEF table1, m
    <3> QED BY <3>1, <3>2
  <2> HIDE DEF m, table1
  <2>4. table1 \in Seq(Nodes)
    BY <2>1, <2>2, <2>3, IsSequence
  <2> QED BY <2>4 DEF table1
<1>8. Taken(index, c, ev, id)
  BY <1>2, <1>3, <1>4, <1>6, <1>7 DEF Taken, n
<1>9. IF mECFreeList # 0
      THEN index = mECFreeList /\ mECFreeList' = mEventCallbackTable[index].next
      ELSE index = n + 1 /\ mECFreeList' = 0
  BY <1>1, <1>3
<1> QED BY <1>1, <1>8, <1>9 DEF n

-----------------------------------------------------------------------------
(* A callback is added.                                                      *)

LEMMA ChainOfPath ==
    ASSUME NEW i, NEW q, IsPath(mEventCallbackTable, i, q), mEventCallbackTable \in Seq(Nodes)
    PROVE  Chain(i) = q
  BY ChainIsPath DEF Chain

\* What a list has become, in the state after a step.
LEMMA NewChain ==
    ASSUME NEW q, IsPath(mEventCallbackTable', mECFreeList', q), mEventCallbackTable' \in Seq(Nodes)
    PROVE  Chain(mECFreeList)' = q
<1>1. ChainIn(mEventCallbackTable', mECFreeList') = q
  BY ChainIsPath
<1> QED BY <1>1 DEF Chain

LEMMA NewEventChain ==
    ASSUME NEW ev, NEW q, IsPath(mEventCallbackTable', mEventCallbackLists'[ev], q),
           mEventCallbackTable' \in Seq(Nodes)
    PROVE  Chain(mEventCallbackLists[ev])' = q
<1>1. ChainIn(mEventCallbackTable', mEventCallbackLists'[ev]) = q
  BY ChainIsPath
<1> QED BY <1>1 DEF Chain

\* A list that the node is not on.
LEMMA TakenKeepsPath ==
    ASSUME TableInv, NEW index, NEW c, NEW ev, NEW id, Taken(index, c, ev, id),
           NEW i, NEW q, IsPath(mEventCallbackTable, i, q), ~ Contains(q, index)
    PROVE  IsPath(mEventCallbackTable', i, q)
<1>1. \A k \in DOMAIN q : q[k] \in DOMAIN mEventCallbackTable \ {index}
  <2>1. DOMAIN q = 1 .. Len(q) /\ \A k \in 1 .. Len(q) : q[k] \in DOMAIN mEventCallbackTable
    BY NodeFacts, PathFacts
  <2> QED BY <2>1 DEF Contains
<1>2. \A k \in DOMAIN q : mEventCallbackTable'[q[k]].next = mEventCallbackTable[q[k]].next
  BY <1>1 DEF Taken
<1> QED BY <1>2, FrameKeepsPath DEF Taken

\* The node was not on the list of any event.
LEMMA TakenFromNoEvent ==
    ASSUME TableInv, NEW index, NEW c, NEW ev, NEW id, Taken(index, c, ev, id), NEW e \in Events
    PROVE  /\ ~ Contains(Chain(mEventCallbackLists[e]), index)
           /\ IsPath(mEventCallbackTable, mEventCallbackLists[e], Chain(mEventCallbackLists[e]))
<1> DEFINE q == Chain(mEventCallbackLists[e])
<1>1. IsPath(mEventCallbackTable, mEventCallbackLists[e], q)
  BY DEF TableInv, Linked
<1>2. ASSUME Contains(q, index) PROVE FALSE
  <2>1. index \in DOMAIN mEventCallbackTable
    BY <1>1, <1>2, NodeFacts, PathFacts DEF Contains
  <2>2. Live(index)
    BY <1>2, <2>1 DEF TableInv, Placed
  <2> QED BY <2>1, <2>2 DEF Taken
<1> QED BY <1>1, <1>2

LEMMA AdditionKeepsTable ==
    ASSUME TableInv, NEW c \in Clients, NEW ev \in Events, AddEventCallback(c, ev)
    PROVE  Linked' /\ Placed' /\ Owned'
<1> DEFINE free == Chain(mECFreeList)
           On(e) == Chain(mEventCallbackLists[e])
<1>1. PICK index, id :
          /\ Taken(index, c, ev, id)
          /\ mEventCallbackLists' = [mEventCallbackLists EXCEPT ![ev] = index]
          /\ ids' = [ids EXCEPT ![c] = id]
          /\ IF mECFreeList # 0
             THEN index = mECFreeList /\ mECFreeList' = mEventCallbackTable[index].next
             ELSE index = Len(mEventCallbackTable) + 1 /\ mECFreeList' = 0
  BY AdditionTakesNode
<1>2. /\ mEventCallbackTable' \in Seq(Nodes)
      /\ DOMAIN mEventCallbackTable' = DOMAIN mEventCallbackTable \union {index}
      /\ 0 \notin DOMAIN mEventCallbackTable' /\ index \in Nat
      /\ mEventCallbackTable'[index] = [next |-> mEventCallbackLists[ev], id |-> id, fn |-> c]
      /\ id.index = index /\ id.event = ev
      /\ \A x \in DOMAIN mEventCallbackTable \ {index} :
            mEventCallbackTable'[x] = mEventCallbackTable[x]
      /\ index \in DOMAIN mEventCallbackTable => ~ Live(index)
  BY <1>1, NodeFacts DEF Taken
<1>3. /\ c # Null /\ ids[c] = NoId /\ ev # 0
      /\ \A x \in DOMAIN mEventCallbackTable \ {index} : Live(x)' = Live(x)
      /\ Live(index)'
  <2>1. c # Null /\ ids[c] = NoId /\ ev # 0
    BY SimEventAssumption DEF AddEventCallback
  <2> QED BY <1>2, <2>1 DEF Live
<1>4. IsPath(mEventCallbackTable, mECFreeList, free)
  BY DEF TableInv, Linked
<1>5. PICK free2 : /\ IsPath(mEventCallbackTable', mECFreeList', free2)
                   /\ \A x : Contains(free2, x) <=> x # index /\ Contains(free, x)
  <2>1. CASE mECFreeList # 0
    <3>1. /\ IsPath(mEventCallbackTable, mECFreeList', Tail(free))
          /\ \A x : Contains(Tail(free), x) <=> x # index /\ Contains(free, x)
      BY <1>1, <1>4, <2>1, NodeFacts, PopKeepsPath
    <3>2. IsPath(mEventCallbackTable', mECFreeList', Tail(free))
      BY <1>1, <3>1, TakenKeepsPath
    <3> QED BY <3>1, <3>2
  <2>2. CASE mECFreeList = 0
    <3>1. free = <<>>
      BY <1>4, <2>2, NodeFacts, PathFacts
    <3>2. \A x : ~ Contains(free, x)
      BY <3>1 DEF Contains
    <3>3. IsPath(mEventCallbackTable', mECFreeList', free)
      BY <1>1, <1>4, <2>2, <3>2, TakenKeepsPath
    <3> QED BY <3>2, <3>3
  <2> QED BY <2>1, <2>2
<1> HIDE DEF free
<1>6. Chain(mECFreeList)' = free2
  BY <1>2, <1>5, NewChain
<1> DEFINE On2(e) == IF e = ev THEN <<index>> \o On(ev) ELSE On(e)
<1>7. ASSUME NEW e \in Events
      PROVE  /\ IsPath(mEventCallbackTable', mEventCallbackLists'[e], On2(e))
             /\ mEventCallbackLists'[e] \in Nat
             /\ \A x : Contains(On2(e), x) <=> (x = index /\ e = ev) \/ Contains(On(e), x)
             /\ ~ Contains(On(e), index)
  <2>1. ~ Contains(On(e), index) /\ IsPath(mEventCallbackTable', mEventCallbackLists[e], On(e))
    BY <1>1, TakenFromNoEvent, TakenKeepsPath
  <2>2. mEventCallbackLists \in [Events -> Nat]
    BY DEF TableInv, Linked
  <2>3. CASE e = ev
    <3> HIDE DEF On
    <3>1. /\ IsPath(mEventCallbackTable', index, <<index>> \o On(ev))
          /\ \A x : Contains(<<index>> \o On(ev), x) <=> x = index \/ Contains(On(ev), x)
      <4>1. /\ 0 \notin DOMAIN mEventCallbackTable' /\ index \in DOMAIN mEventCallbackTable'
            /\ mEventCallbackTable'[index].next = mEventCallbackLists[ev]
        BY <1>2
      <4>2. ~ Contains(On(ev), index) /\ IsPath(mEventCallbackTable', mEventCallbackLists[ev], On(ev))
        BY <2>1, <2>3
      <4> QED BY <4>1, <4>2, PushKeepsPath
    <3> QED BY <1>1, <1>2, <2>1, <2>2, <2>3, <3>1
  <2>4. CASE e # ev
    <3> HIDE DEF On
    <3>1. mEventCallbackLists'[e] = mEventCallbackLists[e] /\ On2(e) = On(e)
      BY <1>1, <2>2, <2>4
    <3> QED BY <2>1, <2>2, <2>4, <3>1
  <2> QED BY <2>3, <2>4
<1> HIDE DEF On2
<1>8. \A e \in Events : Chain(mEventCallbackLists[e])' = On2(e)
  BY <1>2, <1>7, NewEventChain
<1>9. Linked'
  <2>1. mEventCallbackLists' \in [Events -> Nat]
    <3>1. DOMAIN mEventCallbackLists = Events
      BY DEF TableInv, Linked
    <3> QED BY <1>1, <1>7, <3>1
  <2> QED BY <1>2, <1>5, <1>6, <1>7, <1>8, <2>1 DEF Linked
<1>10. ASSUME NEW i \in DOMAIN mEventCallbackTable'
       PROVE  /\ Contains(free2, i) <=> ~ Live(i)'
              /\ \A e \in Events :
                    Contains(On2(e), i) <=> Live(i)' /\ mEventCallbackTable'[i].id.event = e
              /\ mEventCallbackTable'[i].id.index = i
              /\ mEventCallbackTable'[i].id.event = 0 <=> ~ Live(i)'
  <2>1. CASE i = index
    BY <1>2, <1>3, <1>5, <1>7, <2>1
  <2>2. CASE i # index
    <3>1. i \in DOMAIN mEventCallbackTable \ {index}
      BY <1>2, <2>2
    <3>2. mEventCallbackTable'[i] = mEventCallbackTable[i] /\ Live(i)' = Live(i)
      BY <1>2, <1>3, <3>1
    <3>3. /\ Contains(free, i) <=> ~ Live(i)
          /\ \A e \in Events :
                Contains(On(e), i) <=> Live(i) /\ mEventCallbackTable[i].id.event = e
          /\ mEventCallbackTable[i].id.index = i
          /\ mEventCallbackTable[i].id.event = 0 <=> ~ Live(i)
      BY <3>1 DEF TableInv, Placed, free
    <3> HIDE DEF On
    <3>4. Contains(free2, i) <=> ~ Live(i)'
      BY <1>5, <2>2, <3>2, <3>3
    <3>5. ASSUME NEW e \in Events
          PROVE  Contains(On2(e), i) <=> Live(i)' /\ mEventCallbackTable'[i].id.event = e
      BY <1>7, <2>2, <3>2, <3>3
    <3> QED BY <3>2, <3>3, <3>4, <3>5
  <2> QED BY <2>1, <2>2
<1>11. Placed'
  <2>1. ASSUME NEW i \in DOMAIN mEventCallbackTable'
        PROVE  (/\ Contains(Chain(mECFreeList), i) <=> ~ Live(i)
                /\ \A e \in Events :
                      Contains(Chain(mEventCallbackLists[e]), i)
                          <=> Live(i) /\ mEventCallbackTable[i].id.event = e
                /\ mEventCallbackTable[i].id.index = i
                /\ mEventCallbackTable[i].id.event = 0 <=> ~ Live(i))'
    <3>1. Contains(Chain(mECFreeList), i)' = Contains(free2, i)
      BY <1>6 DEF Contains
    <3>2. \A e \in Events : Contains(Chain(mEventCallbackLists[e]), i)' = Contains(On2(e), i)
      BY <1>8 DEF Contains
    <3> QED BY <1>10, <3>1, <3>2
  <2> QED BY <2>1 DEF Placed
<1>12. Owned'
  <2>1. ids = [d \in Clients |-> ids[d]] /\ IdsNameTheirOwner
    BY DEF TableInv, Owned
  <2>2. /\ ids' = [d \in Clients |-> ids'[d]] /\ ids'[c] = id
        /\ \A d \in Clients \ {c} : ids'[d] = ids[d]
    BY <1>1, <2>1
  <2>3. ASSUME NEW d \in Clients, ids'[d] # NoId
        PROVE  /\ ids'[d].index \in DOMAIN mEventCallbackTable'
               /\ mEventCallbackTable'[ids'[d].index].id = ids'[d]
               /\ mEventCallbackTable'[ids'[d].index].fn = d
    <3>1. CASE d = c
      BY <1>2, <2>2, <3>1
    <3>2. CASE d # c
      <4>1. /\ ids'[d] = ids[d] /\ ids[d].index \in DOMAIN mEventCallbackTable
            /\ mEventCallbackTable[ids[d].index].id = ids[d]
            /\ mEventCallbackTable[ids[d].index].fn = d
        BY <2>1, <2>2, <2>3, <3>2 DEF IdsNameTheirOwner
      <4>2. ids[d].index # index
        BY <1>2, <4>1, SimEventAssumption DEF Live
      <4> QED BY <1>2, <4>1, <4>2
    <3> QED BY <3>1, <3>2
  <2>4. ASSUME NEW i \in DOMAIN mEventCallbackTable', Live(i)'
        PROVE  ids'[mEventCallbackTable'[i].fn] = mEventCallbackTable'[i].id
    <3>1. CASE i = index
      BY <1>2, <2>2, <3>1
    <3>2. CASE i # index
      <4>1. i \in DOMAIN mEventCallbackTable /\ Live(i) /\ mEventCallbackTable'[i] = mEventCallbackTable[i]
        BY <1>2, <1>3, <2>4, <3>2
      <4>2. /\ ids[mEventCallbackTable[i].fn] = mEventCallbackTable[i].id
            /\ mEventCallbackTable[i].fn \in Clients /\ mEventCallbackTable[i].id.event # 0
        BY <4>1, NodeFacts DEF TableInv, Owned, Placed
      <4>3. mEventCallbackTable[i].fn # c
        BY <1>3, <4>2 DEF NoId
      <4> QED BY <2>2, <4>1, <4>2, <4>3
    <3> QED BY <3>1, <3>2
  <2>5. IdsNameTheirOwner'
    BY <2>3 DEF IdsNameTheirOwner, NoId
  <2> QED BY <2>2, <2>4, <2>5 DEF Owned
<1> QED BY <1>9, <1>11, <1>12

\* Nodes that belong to different clients are no more than there are clients.
LEMMA NodesOfDifferentClients ==
    ASSUME NEW n \in Nat, NEW owner, \A i \in 1 .. n : owner[i] \in Clients,
           \A i, j \in 1 .. n : owner[i] = owner[j] => i = j
    PROVE  n <= Cardinality(Clients)
<1> DEFINE f == [i \in 1 .. n |-> owner[i]]
<1>1. f \in Injection(1 .. n, Clients)
  BY DEF Injection, IsInjective
<1>2. Cardinality(1 .. n) = n
  <2>1. n \in Int /\ 1 \in Int
    OBVIOUS
  <2>2. Cardinality(1 .. n) = IF 1 > n THEN 0 ELSE n - 1 + 1
    BY <2>1, FS_Interval
  <2> QED BY <2>2
<1>3. Cardinality(1 .. n) <= Cardinality(Clients)
  BY <1>1, SimEventAssumption, FS_Injection
<1> QED BY <1>2, <1>3

LEMMA SameEnd ==
    ASSUME NEW m \in Nat, NEW n \in Nat, 1 .. m = 1 .. n
    PROVE  m = n
<1>1. m # 0 => m \in 1 .. n
  OBVIOUS
<1>2. n # 0 => n \in 1 .. m
  OBVIOUS
<1> QED BY <1>1, <1>2

LEMMA AdditionKeepsSmall ==
    ASSUME TableInv, NEW c \in Clients, NEW ev \in Events, AddEventCallback(c, ev)
    PROVE  Small'
<1> DEFINE n == Len(mEventCallbackTable)
           new == mEventCallbackTable'
<1>1. PICK index, id :
          /\ Taken(index, c, ev, id)
          /\ IF mECFreeList # 0 THEN index = mECFreeList ELSE index = n + 1
  <2>1. PICK index, id :
            /\ Taken(index, c, ev, id)
            /\ IF mECFreeList # 0
               THEN index = mECFreeList /\ mECFreeList' = mEventCallbackTable[index].next
               ELSE index = Len(mEventCallbackTable) + 1 /\ mECFreeList' = 0
    BY AdditionTakesNode
  <2> QED BY <2>1
<1>2. n \in Nat /\ DOMAIN mEventCallbackTable = 1 .. n /\ n <= Cardinality(Clients)
  BY NodeFacts DEF TableInv, Small
<1>3. new \in Seq(Nodes) /\ DOMAIN new = 1 .. n \union {index}
  BY <1>1, <1>2 DEF Taken
<1> HIDE DEF new
<1>4. Len(new) \in Nat /\ DOMAIN new = 1 .. Len(new)
  BY <1>3, LenProperties
<1>5. CASE mECFreeList # 0
  <2>1. index \in 1 .. n
    BY <1>1, <1>2, <1>5, NodeFacts
  <2>2. 1 .. Len(new) = 1 .. n
    BY <1>3, <1>4, <2>1
  <2>3. Len(new) = n
    BY <1>2, <1>4, <2>2, SameEnd
  <2> QED BY <1>2, <2>3 DEF Small, new
<1>6. CASE mECFreeList = 0
  <2>1. index = n + 1
    BY <1>1, <1>6
  <2>2. Len(new) = n + 1
    <3>1. n \in Nat /\ 1 .. Len(new) = 1 .. n \union {n + 1}
      BY <1>2, <1>3, <1>4, <2>1
    <3> HIDE DEF n
    <3>2. n + 1 \in Nat /\ 1 .. Len(new) = 1 .. n + 1
      <4>1. n + 1 \in Nat /\ 1 .. n \union {n + 1} = 1 .. n + 1
        BY <3>1
      <4> QED BY <3>1, <4>1
    <3> DEFINE m == n + 1
    <3> HIDE DEF m
    <3>3. Len(new) = m
      BY <1>4, <3>2, SameEnd DEF m
    <3> QED BY <3>3 DEF m
  <2>3. ASSUME NEW i \in 1 .. n
        PROVE  mEventCallbackTable[i].fn \in Clients /\ mEventCallbackTable[i].id.index = i
    <3> DEFINE free == Chain(mECFreeList)
    <3>1. IsPath(mEventCallbackTable, mECFreeList, free)
      BY DEF TableInv, Linked
    <3>2. free = <<>>
      BY <1>6, <3>1, NodeFacts, PathFacts
    <3>3. ~ Contains(free, i)
      BY <3>2 DEF Contains
    <3>4. Live(i)
      BY <1>2, <3>3 DEF TableInv, Placed
    <3> QED BY <1>2, <3>4, NodeFacts
  <2>4. /\ \A i \in 1 .. n : new[i] = mEventCallbackTable[i] /\ i # n + 1
        /\ new[n + 1].fn = c /\ new[n + 1].id = id /\ id.index = n + 1
    BY <1>1, <1>2, <2>1 DEF Taken, new
  <2> DEFINE owner == [i \in 1 .. n + 1 |-> new[i].fn]
  <2>5. ASSUME NEW i \in 1 .. n + 1
        PROVE  owner[i] \in Clients /\ new[i].id = ids'[owner[i]] /\ new[i].id.index = i
    <3>1. Owned'
      BY AdditionKeepsTable
    <3>2. owner[i] \in Clients /\ new[i].id.index = i
      BY <1>2, <2>3, <2>4
    <3>3. i \in DOMAIN new /\ Live(i)'
      BY <1>2, <1>3, <2>1, <3>2, SimEventAssumption DEF Live, new
    <3> QED BY <3>1, <3>2, <3>3 DEF Owned, new
  <2>6. ASSUME NEW i \in 1 .. n + 1, NEW j \in 1 .. n + 1, owner[i] = owner[j] PROVE i = j
    BY <2>5, <2>6
  <2>7. n + 1 \in Nat /\ \A i \in 1 .. n + 1 : owner[i] \in Clients
    BY <1>2, <2>5
  <2> HIDE DEF owner
  <2>8. n + 1 <= Cardinality(Clients)
    BY <2>6, <2>7, NodesOfDifferentClients
  <2> QED BY <2>2, <2>8 DEF Small, new
<1> QED BY <1>5, <1>6

LEMMA AdditionKeepsEventPasses ==
    ASSUME EventInv, NEW c \in Clients, NEW ev \in Events, AddEventCallback(c, ev)
    PROVE  EventPasses'
<1>1. PICK index, id : Taken(index, c, ev, id)
  BY AdditionTakesNode DEF EventInv
<1>2. passes' = passes /\ TableInv
  BY DEF AddEventCallback, EventInv
<1>3. ASSUME NEW p \in DOMAIN passes
      PROVE  /\ IsPath(mEventCallbackTable', passes[p].eventIdx, passes[p].eventTodo)
             /\ \A k \in DOMAIN passes[p].eventTodo :
                   LET node == mEventCallbackTable'[passes[p].eventTodo[k]]
                   IN  node.fn # Null /\ node.id.event = passes[p].event
  <2> DEFINE q == passes[p].eventTodo
             first == passes[p].eventIdx
  <2>1. /\ IsPath(mEventCallbackTable, first, q)
        /\ \A k \in DOMAIN q : /\ mEventCallbackTable[q[k]].fn # Null
                               /\ mEventCallbackTable[q[k]].id.event = passes[p].event
    BY DEF EventInv, EventPasses, EventPass
  <2> HIDE DEF q, first
  <2>2. \A k \in DOMAIN q : q[k] \in DOMAIN mEventCallbackTable
    BY <1>2, <2>1, NodeFacts, PathFacts
  <2>3. \A k \in DOMAIN q : q[k] # index
    BY <1>1, <2>1, <2>2 DEF Taken, Live
  <2>4. IsPath(mEventCallbackTable', first, q)
    <3>1. ~ Contains(q, index)
      <4>1. DOMAIN q = 1 .. Len(q)
        BY <2>1 DEF IsPath
      <4> QED BY <2>3, <4>1 DEF Contains
    <3> QED BY <1>1, <1>2, <2>1, <3>1, TakenKeepsPath
  <2>5. \A k \in DOMAIN q : mEventCallbackTable'[q[k]] = mEventCallbackTable[q[k]]
    BY <1>1, <2>2, <2>3 DEF Taken
  <2> QED BY <2>1, <2>4, <2>5 DEF q, first
<1> QED BY <1>2, <1>3 DEF EventPasses, EventPass

LEMMA AdditionKeeps ==
    ASSUME EventInv, NEW c \in Clients, NEW ev \in Events, AddEventCallback(c, ev)
    PROVE  EventInv'
<1>1. TableInv'
  BY AdditionKeepsTable, AdditionKeepsSmall DEF EventInv, TableInv
<1>2. Typed'
  BY DEF AddEventCallback, EventInv, Typed
<1> QED BY <1>1, <1>2, AdditionKeepsEventPasses DEF EventInv

-----------------------------------------------------------------------------
(* A callback of an event is removed.                                        *)

\* A node of a path that leads on leads to the next node of the path.
LEMMA NextOnPath ==
    ASSUME NEW nodes, 0 \notin DOMAIN nodes, NEW i, NEW q, IsPath(nodes, i, q),
           NEW x, Contains(q, x), nodes[x].next # 0
    PROVE  \E m \in 1 .. Len(q) : m + 1 \in 1 .. Len(q) /\ q[m] = x /\ q[m + 1] = nodes[x].next
<1>1. DOMAIN q = 1 .. Len(q) /\ Len(q) \in Nat
  BY PathFacts
<1>2. PICK m \in 1 .. Len(q) : q[m] = x
  BY DEF Contains
<1>3. nodes[x].next = At(q, m + 1)
  BY <1>1, <1>2 DEF IsPath
<1>4. m + 1 \in DOMAIN q /\ q[m + 1] = nodes[x].next
  BY <1>3 DEF At
<1> QED BY <1>1, <1>2, <1>4

\* Node index of client c is unlinked and put in front of the free list.
Freed(index, c) ==
    LET node == mEventCallbackTable[index]
    IN  /\ index \in DOMAIN mEventCallbackTable /\ node.fn = c /\ node.id = ids[c]
        /\ ids[c] # NoId
        /\ Unlinked(mEventCallbackTable, mEventCallbackTable', index)
        /\ mEventCallbackTable' \in Seq(Nodes)
        /\ \A x \in DOMAIN mEventCallbackTable \ {index} :
              /\ mEventCallbackTable'[x].fn = mEventCallbackTable[x].fn
              /\ mEventCallbackTable'[x].id = mEventCallbackTable[x].id
        /\ mEventCallbackTable'[index].next = mECFreeList
        /\ mEventCallbackTable'[index].fn = Null
        /\ mEventCallbackTable'[index].id.event = 0
        /\ mEventCallbackTable'[index].id.index = index
        /\ mEventCallbackLists' = [e \in Events |-> IF mEventCallbackLists[e] = index THEN node.next
                                                    ELSE mEventCallbackLists[e]]
        /\ mECFreeList' = index
        /\ passes' = [p \in DOMAIN passes |-> BumpPass(passes[p], index)]
        /\ ids' = [ids EXCEPT ![c] = NoId]

LEMMA FreedIdFacts ==
    ASSUME NEW old, old \in [generation : Nat, event : Events \union {0}, index : Nat]
    PROVE  LET id == [old EXCEPT !.generation = NextGeneration(@), !.event = 0]
           IN  /\ id \in [generation : 0 .. Generations - 1, event : Events \union {0}, index : Nat]
               /\ id.event = 0 /\ id.index = old.index
<1> DEFINE g == NextGeneration(old.generation)
           none == 0
<1>1. g \in 0 .. Generations - 1 /\ none \in Events \union {0}
  BY GenerationType
<1> HIDE DEF g, none
<1>2. /\ [old EXCEPT !.generation = g, !.event = none] \in
             [generation : 0 .. Generations - 1, event : Events \union {0}, index : Nat]
      /\ [old EXCEPT !.generation = g, !.event = none].event = none
      /\ [old EXCEPT !.generation = g, !.event = none].index = old.index
  BY <1>1
<1> QED BY <1>2 DEF g, none

LEMMA RemovalFreesNode ==
    ASSUME TableInv, NEW c \in Clients, RemoveEventCallback(c)
    PROVE  Freed(ids[c].index, c)
<1> DEFINE index == ids[c].index
           ev == ids[c].event
           node == mEventCallbackTable[index]
           chain == Chain(mEventCallbackLists[ev])
           idNow == [node.id EXCEPT !.generation = NextGeneration(@), !.event = 0]
           freed == [next |-> mECFreeList, fn |-> Null, id |-> idNow]
           New(k, i) == IF i = index THEN freed
                        ELSE IF k > 1 /\ i = chain[k - 1]
                             THEN [mEventCallbackTable[i] EXCEPT !.next = node.next]
                             ELSE mEventCallbackTable[i]
<1>1. /\ node.id = ids[c] /\ ids[c] # NoId
      /\ mECFreeList' = index
      /\ passes' = [p \in DOMAIN passes |-> BumpPass(passes[p], index)]
      /\ ids' = [ids EXCEPT ![c] = NoId]
  BY DEF RemoveEventCallback
<1>2. PICK k \in DOMAIN chain :
          /\ chain[k] = index
          /\ mEventCallbackTable' = [i \in DOMAIN mEventCallbackTable |-> New(k, i)]
          /\ mEventCallbackLists' = IF k = 1 THEN [mEventCallbackLists EXCEPT ![ev] = node.next]
                                    ELSE mEventCallbackLists
  BY DEF RemoveEventCallback
<1>3. index \in DOMAIN mEventCallbackTable /\ node.fn = c
  BY <1>1 DEF TableInv, Owned, IdsNameTheirOwner
<1>4. Live(index) /\ ev \in Events /\ node.id.event = ev /\ index # 0
  BY <1>1, <1>3, NodeFacts, SimEventAssumption DEF Live
<1>5. IsPath(mEventCallbackTable, mEventCallbackLists[ev], chain)
  BY <1>4 DEF TableInv, Linked
<1>6. /\ DOMAIN chain = 1 .. Len(chain) /\ Len(chain) \in Nat /\ k \in 1 .. Len(chain)
      /\ \A m \in 1 .. Len(chain) : chain[m] \in DOMAIN mEventCallbackTable
      /\ \A m \in 1 .. Len(chain) : chain[m] = index => m = k
  <2>1. /\ DOMAIN chain = 1 .. Len(chain) /\ Len(chain) \in Nat
        /\ \A m \in 1 .. Len(chain) : chain[m] \in DOMAIN mEventCallbackTable
    BY <1>5, NodeFacts, PathFacts
  <2>2. IsInjective(chain)
    BY <1>5 DEF IsPath
  <2> HIDE DEF chain, index
  <2> QED BY <1>2, <2>1, <2>2 DEF IsInjective
<1>7. ASSUME NEW e \in Events, Contains(Chain(mEventCallbackLists[e]), index) PROVE e = ev
  BY <1>3, <1>4, <1>7 DEF TableInv, Placed
<1>8. ASSUME NEW x \in DOMAIN mEventCallbackTable
      PROVE  mEventCallbackTable[x].next = index <=> k > 1 /\ x = chain[k - 1]
  <2>1. ASSUME k > 1, x = chain[k - 1] PROVE mEventCallbackTable[x].next = index
    <3>1. k - 1 \in DOMAIN chain /\ (k - 1) + 1 = k
      BY <1>6, <2>1
    <3>2. mEventCallbackTable[chain[k - 1]].next = At(chain, (k - 1) + 1)
      BY <1>5, <3>1 DEF IsPath
    <3> QED BY <1>2, <2>1, <3>1, <3>2 DEF At
  <2>2. ASSUME mEventCallbackTable[x].next = index PROVE k > 1 /\ x = chain[k - 1]
    <3>1. Live(x)
      <4> DEFINE free == Chain(mECFreeList)
      <4>1. SUFFICES ASSUME ~ Live(x) PROVE FALSE
        OBVIOUS
      <4>2. Contains(free, x) /\ IsPath(mEventCallbackTable, mECFreeList, free)
        BY <4>1 DEF TableInv, Placed, Linked
      <4>3. PICK m \in 1 .. Len(free) :
                m + 1 \in 1 .. Len(free) /\ free[m] = x /\ free[m + 1] = index
        <5>1. 0 \notin DOMAIN mEventCallbackTable /\ mEventCallbackTable[x].next # 0
          BY <1>4, <2>2, NodeFacts
        <5> HIDE DEF free
        <5> QED BY <2>2, <4>2, <5>1, NextOnPath
      <4>4. Contains(free, index)
        BY <4>3 DEF Contains
      <4> QED BY <1>3, <1>4, <4>4 DEF TableInv, Placed
    <3> DEFINE e == mEventCallbackTable[x].id.event
               list == Chain(mEventCallbackLists[e])
    <3>2. e \in Events
      BY <3>1, NodeFacts
    <3>3. Contains(list, x) /\ IsPath(mEventCallbackTable, mEventCallbackLists[e], list)
      BY <3>1, <3>2 DEF TableInv, Placed, Linked
    <3>4. PICK m \in 1 .. Len(list) :
              m + 1 \in 1 .. Len(list) /\ list[m] = x /\ list[m + 1] = index
      <4>1. 0 \notin DOMAIN mEventCallbackTable /\ mEventCallbackTable[x].next # 0
        BY <1>4, <2>2, NodeFacts
      <4> HIDE DEF list, e
      <4> QED BY <2>2, <3>3, <4>1, NextOnPath
    <3>5. Contains(list, index)
      BY <3>4 DEF Contains
    <3>6. e = ev
      BY <1>7, <3>2, <3>5
    <3>7. m + 1 = k
      BY <1>6, <3>4, <3>6
    <3> HIDE DEF list, e
    <3>8. k > 1 /\ k - 1 = m
      BY <3>7
    <3> QED BY <3>4, <3>6, <3>8 DEF list
  <2> QED BY <2>1, <2>2
<1>9. ASSUME NEW e \in Events
      PROVE  mEventCallbackLists[e] = index <=> e = ev /\ k = 1
  <2> DEFINE list == Chain(mEventCallbackLists[e])
  <2>1. IsPath(mEventCallbackTable, mEventCallbackLists[e], list)
    BY DEF TableInv, Linked
  <2>2. mEventCallbackLists[e] # 0 => list[1] = mEventCallbackLists[e] /\ 1 \in 1 .. Len(list)
    BY <2>1, NodeFacts, PathFacts
  <2>3. ASSUME mEventCallbackLists[e] = index PROVE e = ev /\ k = 1
    <3>1. list[1] = index /\ 1 \in 1 .. Len(list)
      BY <1>4, <2>2, <2>3
    <3>2. Contains(list, index)
      BY <3>1 DEF Contains
    <3>3. e = ev
      BY <1>7, <3>2
    <3> QED BY <1>6, <3>1, <3>3
  <2>4. ASSUME e = ev, k = 1 PROVE mEventCallbackLists[e] = index
    <3>1. mEventCallbackLists[ev] = At(chain, 1)
      BY <1>5 DEF IsPath
    <3> QED BY <1>2, <2>4, <3>1 DEF At
  <2> QED BY <2>3, <2>4
<1>10. mEventCallbackLists' = [e \in Events |-> IF mEventCallbackLists[e] = index THEN node.next
                                                ELSE mEventCallbackLists[e]]
  <2>1. mEventCallbackLists = [e \in Events |-> mEventCallbackLists[e]]
    BY DEF TableInv, Linked
  <2> DEFINE next == node.next
  <2> HIDE DEF node, next, index, ev, chain
  <2>2. CASE k = 1
    <3>1. mEventCallbackLists' = [e \in Events |-> IF e = ev THEN next ELSE mEventCallbackLists[e]]
      BY <1>2, <2>1, <2>2 DEF next
    <3> QED BY <1>9, <2>2, <3>1 DEF next
  <2>3. CASE k # 1
    <3>1. \A e \in Events : mEventCallbackLists[e] # index
      BY <1>9, <2>3
    <3> QED BY <1>2, <2>1, <2>3, <3>1
  <2> QED BY <2>2, <2>3
<1>11. /\ idNow \in [generation : 0 .. Generations - 1, event : Events \union {0}, index : Nat]
       /\ idNow.event = 0 /\ idNow.index = index
  <2> DEFINE old == node.id
  <2>1. old \in [generation : Nat, event : Events \union {0}, index : Nat] /\ old.index = index
    <3>1. /\ node.id \in [generation : 0 .. Generations - 1, event : Events \union {0}, index : Nat]
          /\ node.id.generation \in Nat /\ node.id.index = index
      BY <1>3, NodeFacts DEF Nodes
    <3> QED BY <3>1
  <2> HIDE DEF old
  <2> QED BY <2>1, FreedIdFacts DEF old
<1> HIDE DEF idNow
<1>12. freed \in Nodes
  <2>1. mECFreeList \in Nat
    BY NodeFacts
  <2> QED BY <1>11, <2>1 DEF Nodes
<1> HIDE DEF freed
<1>13. ASSUME NEW x \in DOMAIN mEventCallbackTable, x # index
       PROVE  /\ New(k, x) \in Nodes
              /\ New(k, x).fn = mEventCallbackTable[x].fn /\ New(k, x).id = mEventCallbackTable[x].id
              /\ New(k, x).next = IF mEventCallbackTable[x].next = index THEN node.next
                                  ELSE mEventCallbackTable[x].next
  <2> DEFINE old == mEventCallbackTable[x]
             next == node.next
  <2>1. old \in Nodes /\ next \in Nat
    BY <1>3, NodeFacts DEF Nodes
  <2> HIDE DEF node, index, chain, old
  <2>2. CASE old.next = index
    <3>1. New(k, x) = [old EXCEPT !.next = next]
      BY <1>8, <1>13, <2>2 DEF old
    <3> HIDE DEF New, next
    <3> QED BY <2>1, <2>2, <3>1 DEF Nodes, old, next
  <2>3. CASE old.next # index
    <3>1. New(k, x) = old
      BY <1>8, <1>13, <2>3 DEF old
    <3> HIDE DEF New
    <3> QED BY <2>1, <2>3, <3>1 DEF old
  <2> QED BY <2>2, <2>3
<1>14. /\ DOMAIN mEventCallbackTable' = DOMAIN mEventCallbackTable
       /\ mEventCallbackTable'[index] = freed
       /\ \A x \in DOMAIN mEventCallbackTable : mEventCallbackTable'[x] = New(k, x)
  BY <1>2, <1>3
<1> HIDE DEF New
<1>15. mEventCallbackTable' \in Seq(Nodes)
  <2> DEFINE table1 == mEventCallbackTable'
             n == Len(mEventCallbackTable)
  <2>1. n \in Nat /\ DOMAIN mEventCallbackTable = 1 .. n
    BY NodeFacts
  <2>2. \A x \in 1 .. n : table1[x] \in Nodes
    BY <1>12, <1>13, <1>14, <2>1
  <2>3. table1 = [x \in 1 .. n |-> table1[x]]
    BY <1>2, <2>1
  <2> HIDE DEF n, table1
  <2>4. table1 \in Seq(Nodes)
    BY <2>1, <2>2, <2>3, IsSequence
  <2> QED BY <2>4 DEF table1
<1>16. Unlinked(mEventCallbackTable, mEventCallbackTable', index)
  BY <1>13, <1>14 DEF Unlinked
<1>17. /\ freed.next = mECFreeList /\ freed.fn = Null
       /\ freed.id.event = 0 /\ freed.id.index = index
  BY <1>11 DEF freed
<1>18. \A x \in DOMAIN mEventCallbackTable \ {index} :
          /\ mEventCallbackTable'[x].fn = mEventCallbackTable[x].fn
          /\ mEventCallbackTable'[x].id = mEventCallbackTable[x].id
  BY <1>13, <1>14
<1> QED BY <1>1, <1>3, <1>10, <1>14, <1>15, <1>16, <1>17, <1>18 DEF Freed

\* What becomes of the rest of the table when node index is freed.
LEMMA FreedFacts ==
    ASSUME TableInv, NEW index, NEW c \in Clients, Freed(index, c)
    PROVE  /\ mEventCallbackTable' \in Seq(Nodes)
           /\ DOMAIN mEventCallbackTable' = DOMAIN mEventCallbackTable
           /\ 0 \notin DOMAIN mEventCallbackTable' /\ index \in Nat
           /\ Live(index) /\ ~ Live(index)'
           /\ \A x \in DOMAIN mEventCallbackTable \ {index} : Live(x)' = Live(x)
<1>1. /\ mEventCallbackTable' \in Seq(Nodes)
      /\ DOMAIN mEventCallbackTable' = DOMAIN mEventCallbackTable
      /\ 0 \notin DOMAIN mEventCallbackTable' /\ index \in Nat
  BY NodeFacts DEF Freed, Unlinked
<1>2. Live(index) /\ ~ Live(index)'
  BY SimEventAssumption DEF Freed, Live
<1>3. \A x \in DOMAIN mEventCallbackTable \ {index} : Live(x)' = Live(x)
  BY DEF Freed, Live
<1> QED BY <1>1, <1>2, <1>3

LEMMA RemovalKeepsTable ==
    ASSUME TableInv, NEW index, NEW c \in Clients, Freed(index, c)
    PROVE  Linked' /\ Placed' /\ Owned' /\ Small'
<1> DEFINE free == Chain(mECFreeList)
           On(e) == Chain(mEventCallbackLists[e])
           On2(e) == RemoveFirst(On(e), index)
           kept == RemoveFirst(free, index)
           free2 == <<index>> \o kept
           First(i) == IF i = index THEN mEventCallbackTable[index].next ELSE i
<1>1. /\ mEventCallbackTable' \in Seq(Nodes)
      /\ DOMAIN mEventCallbackTable' = DOMAIN mEventCallbackTable
      /\ 0 \notin DOMAIN mEventCallbackTable /\ 0 \notin DOMAIN mEventCallbackTable' /\ index \in Nat
      /\ index \in DOMAIN mEventCallbackTable
      /\ Live(index) /\ ~ Live(index)'
      /\ \A x \in DOMAIN mEventCallbackTable \ {index} : Live(x)' = Live(x)
  BY FreedFacts, NodeFacts DEF Freed
<1>2. /\ Unlinked(mEventCallbackTable, mEventCallbackTable', index)
      /\ mEventCallbackTable'[index].next = mECFreeList /\ mECFreeList' = index
      /\ mEventCallbackLists' = [e \in Events |-> First(mEventCallbackLists[e])]
      /\ mEventCallbackTable'[index].id.event = 0 /\ mEventCallbackTable'[index].id.index = index
      /\ \A x \in DOMAIN mEventCallbackTable \ {index} :
            /\ mEventCallbackTable'[x].fn = mEventCallbackTable[x].fn
            /\ mEventCallbackTable'[x].id = mEventCallbackTable[x].id
      /\ mEventCallbackTable[index].fn = c /\ mEventCallbackTable[index].id = ids[c]
      /\ ids' = [ids EXCEPT ![c] = NoId]
  BY DEF Freed
<1>3. mECFreeList # index
  BY <1>1, NodeFacts
<1>4. /\ IsPath(mEventCallbackTable', mECFreeList', free2)
      /\ \A x : Contains(free2, x) <=> x = index \/ Contains(free, x)
  <2>1. IsPath(mEventCallbackTable, mECFreeList, free) /\ ~ Contains(free, index)
    BY <1>1 DEF TableInv, Linked, Placed
  <2> HIDE DEF free
  <2>2. /\ IsPath(mEventCallbackTable', mECFreeList, kept)
        /\ \A x : Contains(kept, x) <=> x # index /\ Contains(free, x)
    BY <1>1, <1>2, <1>3, <2>1, UnlinkKeepsPath
  <2> HIDE DEF kept
  <2>3. /\ IsPath(mEventCallbackTable', index, <<index>> \o kept)
        /\ \A x : Contains(<<index>> \o kept, x) <=> x = index \/ Contains(kept, x)
    BY <1>1, <1>2, <2>2, PushKeepsPath
  <2> QED BY <1>2, <2>2, <2>3
<1>5. ASSUME NEW e \in Events
      PROVE  /\ IsPath(mEventCallbackTable', mEventCallbackLists'[e], On2(e))
             /\ mEventCallbackLists'[e] \in Nat
             /\ \A x : Contains(On2(e), x) <=> x # index /\ Contains(On(e), x)
  <2>1. IsPath(mEventCallbackTable, mEventCallbackLists[e], On(e)) /\ mEventCallbackLists[e] \in Nat
    BY DEF TableInv, Linked
  <2> HIDE DEF On
  <2>2. /\ IsPath(mEventCallbackTable', First(mEventCallbackLists[e]), RemoveFirst(On(e), index))
        /\ \A x : Contains(RemoveFirst(On(e), index), x) <=> x # index /\ Contains(On(e), x)
    BY <1>1, <1>2, <2>1, UnlinkKeepsPath
  <2>3. mEventCallbackTable[index].next \in Nat
    BY <1>1, NodeFacts DEF Nodes
  <2> QED BY <1>2, <2>1, <2>2, <2>3
<1> HIDE DEF On2, free2
<1>6. Chain(mECFreeList)' = free2
  BY <1>1, <1>4, NewChain
<1>7. \A e \in Events : Chain(mEventCallbackLists[e])' = On2(e)
  BY <1>1, <1>5, NewEventChain
<1>8. Linked'
  <2>1. mEventCallbackLists' \in [Events -> Nat]
    BY <1>2, <1>5
  <2> QED BY <1>1, <1>4, <1>5, <1>6, <1>7, <2>1 DEF Linked
<1>9. ASSUME NEW i \in DOMAIN mEventCallbackTable'
      PROVE  /\ Contains(free2, i) <=> ~ Live(i)'
             /\ \A e \in Events :
                   Contains(On2(e), i) <=> Live(i)' /\ mEventCallbackTable'[i].id.event = e
             /\ mEventCallbackTable'[i].id.index = i
             /\ mEventCallbackTable'[i].id.event = 0 <=> ~ Live(i)'
  <2>1. CASE i = index
    BY <1>1, <1>2, <1>4, <1>5, <2>1
  <2>2. CASE i # index
    <3>1. i \in DOMAIN mEventCallbackTable \ {index}
      BY <1>1, <2>2
    <3>2. mEventCallbackTable'[i].id = mEventCallbackTable[i].id /\ Live(i)' = Live(i)
      BY <1>1, <1>2, <3>1
    <3>3. /\ Contains(free, i) <=> ~ Live(i)
          /\ \A e \in Events :
                Contains(On(e), i) <=> Live(i) /\ mEventCallbackTable[i].id.event = e
          /\ mEventCallbackTable[i].id.index = i
          /\ mEventCallbackTable[i].id.event = 0 <=> ~ Live(i)
      BY <3>1 DEF TableInv, Placed
    <3> HIDE DEF On, free
    <3>4. Contains(free2, i) <=> ~ Live(i)'
      BY <1>4, <2>2, <3>2, <3>3
    <3>5. ASSUME NEW e \in Events
          PROVE  Contains(On2(e), i) <=> Live(i)' /\ mEventCallbackTable'[i].id.event = e
      BY <1>5, <2>2, <3>2, <3>3
    <3> QED BY <3>2, <3>3, <3>4, <3>5
  <2> QED BY <2>1, <2>2
<1>10. Placed'
  <2>1. ASSUME NEW i \in DOMAIN mEventCallbackTable'
        PROVE  (/\ Contains(Chain(mECFreeList), i) <=> ~ Live(i)
                /\ \A e \in Events :
                      Contains(Chain(mEventCallbackLists[e]), i)
                          <=> Live(i) /\ mEventCallbackTable[i].id.event = e
                /\ mEventCallbackTable[i].id.index = i
                /\ mEventCallbackTable[i].id.event = 0 <=> ~ Live(i))'
    <3>1. Contains(Chain(mECFreeList), i)' = Contains(free2, i)
      BY <1>6 DEF Contains
    <3>2. \A e \in Events : Contains(Chain(mEventCallbackLists[e]), i)' = Contains(On2(e), i)
      BY <1>7 DEF Contains
    <3> QED BY <1>9, <3>1, <3>2
  <2> QED BY <2>1 DEF Placed
<1>11. Owned'
  <2>1. ids = [d \in Clients |-> ids[d]] /\ IdsNameTheirOwner
    BY DEF TableInv, Owned
  <2>2. /\ ids' = [d \in Clients |-> ids'[d]] /\ ids'[c] = NoId
        /\ \A d \in Clients \ {c} : ids'[d] = ids[d]
    BY <1>2, <2>1
  <2>3. ASSUME NEW d \in Clients, ids'[d] # NoId
        PROVE  /\ ids'[d].index \in DOMAIN mEventCallbackTable'
               /\ mEventCallbackTable'[ids'[d].index].id = ids'[d]
               /\ mEventCallbackTable'[ids'[d].index].fn = d
    <3>1. d # c
      BY <2>2, <2>3
    <3>2. /\ ids'[d] = ids[d] /\ ids[d].index \in DOMAIN mEventCallbackTable
          /\ mEventCallbackTable[ids[d].index].id = ids[d]
          /\ mEventCallbackTable[ids[d].index].fn = d
      BY <2>1, <2>2, <2>3, <3>1 DEF IdsNameTheirOwner
    <3>3. ids[d].index # index
      BY <1>2, <3>1, <3>2
    <3> QED BY <1>1, <1>2, <3>2, <3>3
  <2>4. ASSUME NEW i \in DOMAIN mEventCallbackTable', Live(i)'
        PROVE  ids'[mEventCallbackTable'[i].fn] = mEventCallbackTable'[i].id
    <3>1. i # index
      BY <1>1, <2>4
    <3>2. /\ i \in DOMAIN mEventCallbackTable /\ Live(i)
          /\ mEventCallbackTable'[i].fn = mEventCallbackTable[i].fn
          /\ mEventCallbackTable'[i].id = mEventCallbackTable[i].id
      BY <1>1, <1>2, <2>4, <3>1
    <3>3. /\ ids[mEventCallbackTable[i].fn] = mEventCallbackTable[i].id
          /\ mEventCallbackTable[i].fn \in Clients /\ mEventCallbackTable[i].id.index = i
      BY <3>2, NodeFacts DEF TableInv, Owned
    <3>4. mEventCallbackTable[i].fn # c
      <4>1. mEventCallbackTable[index].id.index = index
        BY <1>1, NodeFacts
      <4> QED BY <1>2, <3>1, <3>3, <4>1
    <3> QED BY <2>2, <3>2, <3>3, <3>4
  <2>5. IdsNameTheirOwner'
    BY <2>3 DEF IdsNameTheirOwner, NoId
  <2> QED BY <2>2, <2>4, <2>5 DEF Owned
<1>12. Small'
  <2> DEFINE old == mEventCallbackTable
             new == mEventCallbackTable'
  <2>1. old \in Seq(Nodes) /\ new \in Seq(Nodes) /\ DOMAIN new = DOMAIN old
    BY <1>1, NodeFacts
  <2>2. Len(old) <= Cardinality(Clients)
    BY DEF TableInv, Small
  <2> HIDE DEF old, new
  <2>3. Len(new) = Len(old)
    BY <2>1, SameEnd, LenProperties
  <2> QED BY <2>2, <2>3 DEF Small, old, new
<1> QED BY <1>8, <1>10, <1>11, <1>12

LEMMA BumpFacts ==
    ASSUME NEW pass \in Passes, NEW index, mEventCallbackTable[index].next \in Nat
    PROVE  /\ BumpPass(pass, index) \in Passes
           /\ BumpPass(pass, index).event = pass.event
           /\ BumpPass(pass, index).eventIdx =
                 IF pass.eventIdx = index THEN mEventCallbackTable[index].next ELSE pass.eventIdx
           /\ BumpPass(pass, index).eventTodo = RemoveFirst(pass.eventTodo, index)
           /\ BumpPass(pass, index).globalIdx = pass.globalIdx
           /\ BumpPass(pass, index).globalSize = pass.globalSize
           /\ BumpPass(pass, index).globalTodo = pass.globalTodo
<1> DEFINE next == IF pass.eventIdx = index THEN mEventCallbackTable[index].next ELSE pass.eventIdx
           todo == RemoveFirst(pass.eventTodo, index)
<1>1. next \in Nat /\ todo \in Seq(Nat)
  <2>1. pass.eventIdx \in Nat /\ pass.eventTodo \in Seq(Nat)
    BY DEF Passes
  <2> QED BY <2>1, RemoveFirstFacts
<1>2. BumpPass(pass, index) = [pass EXCEPT !.eventIdx = next, !.eventTodo = todo]
  BY DEF BumpPass
<1> HIDE DEF next, todo
<1>3. BumpPass(pass, index) \in Passes
  BY <1>1, <1>2 DEF Passes
<1> QED BY <1>2, <1>3 DEF next, todo, Passes

\* The positions of a sequence that is made pass by pass.
LEMMA PassesMapped ==
    ASSUME passes \in Seq(Passes), NEW new, new = [p \in DOMAIN passes |-> new[p]],
           \A p \in DOMAIN passes : new[p] \in Passes
    PROVE  new \in Seq(Passes) /\ Len(new) = Len(passes) /\ DOMAIN new = DOMAIN passes
<1>1. DOMAIN passes = 1 .. Len(passes) /\ Len(passes) \in Nat
  OBVIOUS
<1> QED BY <1>1, IsSequence

LEMMA RemovalKeepsEventPasses ==
    ASSUME EventInv, NEW index, NEW c \in Clients, Freed(index, c)
    PROVE  Typed' /\ EventPasses'
<1>1. TableInv /\ EventPasses /\ passes \in Seq(Passes) /\ Len(passes) <= MaxDepth
  BY DEF EventInv, Typed
<1>2. /\ 0 \notin DOMAIN mEventCallbackTable /\ index \in DOMAIN mEventCallbackTable
      /\ mEventCallbackTable[index].next \in Nat
      /\ Unlinked(mEventCallbackTable, mEventCallbackTable', index)
      /\ \A x \in DOMAIN mEventCallbackTable \ {index} :
            /\ mEventCallbackTable'[x].fn = mEventCallbackTable[x].fn
            /\ mEventCallbackTable'[x].id = mEventCallbackTable[x].id
      /\ passes' = [p \in DOMAIN passes |-> BumpPass(passes[p], index)]
  BY <1>1, NodeFacts DEF Freed, Nodes
<1> DEFINE new == passes'
<1>3. \A p \in DOMAIN passes : passes[p] \in Passes /\ new[p] = BumpPass(passes[p], index)
  BY <1>1, <1>2
<1>4. \A p \in DOMAIN passes : new[p] \in Passes
  BY <1>2, <1>3, BumpFacts
<1>5. new = [p \in DOMAIN passes |-> new[p]]
  BY <1>2
<1> HIDE DEF new
<1>6. new \in Seq(Passes) /\ Len(new) = Len(passes) /\ DOMAIN new = DOMAIN passes
  BY <1>1, <1>4, <1>5, PassesMapped
<1>7. Typed'
  BY <1>1, <1>6 DEF Typed, new
<1>8. ASSUME NEW p \in DOMAIN passes
      PROVE  /\ IsPath(mEventCallbackTable', new[p].eventIdx, new[p].eventTodo)
             /\ \A k \in DOMAIN new[p].eventTodo :
                   LET node == mEventCallbackTable'[new[p].eventTodo[k]]
                   IN  node.fn # Null /\ node.id.event = new[p].event
  <2> DEFINE q == passes[p].eventTodo
             first == passes[p].eventIdx
             event == passes[p].event
             r == RemoveFirst(q, index)
             next == IF first = index THEN mEventCallbackTable[index].next ELSE first
  <2>1. /\ IsPath(mEventCallbackTable, first, q)
        /\ \A k \in DOMAIN q : /\ mEventCallbackTable[q[k]].fn # Null
                               /\ mEventCallbackTable[q[k]].id.event = event
    BY <1>1 DEF EventPasses, EventPass
  <2>2. new[p].eventIdx = next /\ new[p].eventTodo = r /\ new[p].event = event
    BY <1>2, <1>3, BumpFacts
  <2> HIDE DEF q, first, event
  <2>3. /\ IsPath(mEventCallbackTable', next, r)
        /\ \A x : Contains(r, x) <=> x # index /\ Contains(q, x)
    BY <1>2, <2>1, UnlinkKeepsPath
  <2> HIDE DEF r, next
  <2>4. ASSUME NEW k \in DOMAIN r
        PROVE  /\ mEventCallbackTable'[r[k]].fn # Null
               /\ mEventCallbackTable'[r[k]].id.event = event
    <3>1. DOMAIN r = 1 .. Len(r) /\ r[k] \in DOMAIN mEventCallbackTable
      BY <1>2, <2>3 DEF IsPath, Unlinked
    <3>2. Contains(r, r[k])
      BY <3>1 DEF Contains
    <3>3. r[k] # index /\ Contains(q, r[k])
      BY <2>3, <3>2
    <3>4. PICK m \in DOMAIN q : q[m] = r[k]
      <4>1. DOMAIN q = 1 .. Len(q)
        BY <2>1 DEF IsPath
      <4> QED BY <3>3, <4>1 DEF Contains
    <3>5. mEventCallbackTable[r[k]].fn # Null /\ mEventCallbackTable[r[k]].id.event = event
      BY <2>1, <3>4
    <3> QED BY <1>2, <3>1, <3>3, <3>5
  <2> QED BY <2>2, <2>3, <2>4
<1>9. EventPasses'
  BY <1>6, <1>8 DEF EventPasses, EventPass, new
<1> QED BY <1>7, <1>9

LEMMA RemovalKeeps ==
    ASSUME EventInv, NEW c \in Clients, RemoveEventCallback(c)
    PROVE  EventInv'
<1>1. Freed(ids[c].index, c)
  BY RemovalFreesNode DEF EventInv
<1>2. TableInv'
  BY <1>1, RemovalKeepsTable DEF EventInv, TableInv
<1> QED BY <1>1, <1>2, RemovalKeepsEventPasses DEF EventInv

-----------------------------------------------------------------------------
(* The passes.                                                               *)

\* Steps that leave the table alone.
LEMMA TableKept ==
    ASSUME TableInv, UNCHANGED table
    PROVE  TableInv'
<1>1. /\ mEventCallbackTable' = mEventCallbackTable /\ mECFreeList' = mECFreeList
      /\ mEventCallbackLists' = mEventCallbackLists /\ ids' = ids
  BY DEF table
<1>2. \A i : Chain(i)' = Chain(i)
  BY <1>1 DEF Chain
<1>3. Linked'
  BY <1>1, <1>2 DEF TableInv, Linked
<1>4. Placed'
  BY <1>1, <1>2 DEF TableInv, Placed, Live
<1>5. Owned'
  BY <1>1 DEF TableInv, Owned, Live, IdsNameTheirOwner
<1>6. Small'
  BY <1>1 DEF TableInv, Small
<1> QED BY <1>3, <1>4, <1>5, <1>6 DEF TableInv

\* The passes change, and nothing else.
LEMMA PassesReplaced ==
    ASSUME Inv, UNCHANGED <<mCallbacks, table>>, passes' \in Seq(Passes), Len(passes') <= MaxDepth,
           \A p \in DOMAIN passes' : EventPass(passes'[p]) /\ GlobalPass(mCallbacks, passes'[p])
    PROVE  Inv'
<1>1. TableInv'
  BY TableKept DEF Inv, EventInv
<1>2. mEventCallbackTable' = mEventCallbackTable /\ mCallbacks' = mCallbacks
  BY DEF table
<1>3. EventPasses'
  BY <1>2 DEF EventPasses, EventPass
<1>4. GlobalPasses'
  BY <1>2 DEF Inv, GlobalPasses, GlobalPass
<1> QED BY <1>1, <1>3, <1>4 DEF Inv, EventInv, Typed

LEMMA InnermostReplaced ==
    ASSUME Inv, UNCHANGED <<mCallbacks, table>>, passes # <<>>, NEW pass \in Passes,
           passes' = [passes EXCEPT ![1] = pass], EventPass(pass), GlobalPass(mCallbacks, pass)
    PROVE  Inv'
<1>1. /\ passes \in Seq(Passes) /\ Len(passes) <= MaxDepth
      /\ \A p \in DOMAIN passes : EventPass(passes[p]) /\ GlobalPass(mCallbacks, passes[p])
  BY DEF Inv, EventInv, Typed, EventPasses, GlobalPasses
<1>2. 1 \in 1 .. Len(passes) /\ DOMAIN passes = 1 .. Len(passes)
  BY <1>1
<1>3. passes' \in Seq(Passes) /\ Len(passes') = Len(passes) /\ DOMAIN passes' = DOMAIN passes
  BY <1>1, <1>2, ExceptSeq
<1>4. \A p \in DOMAIN passes : passes'[p] = IF p = 1 THEN pass ELSE passes[p]
  BY <1>1
<1> QED BY <1>1, <1>3, <1>4, PassesReplaced

\* The first of a sequence in which it is found once is taken.
LEMMA FirstTaken ==
    ASSUME NEW T, NEW q \in Seq(T), q # <<>>, \A j \in 1 .. Len(q) : q[j] = q[1] => j = 1
    PROVE  RemoveFirst(q, q[1]) = Tail(q)
<1>1. 1 \in 1 .. Len(q) /\ Len(q) \in Nat
  OBVIOUS
<1> DEFINE r == RemoveAt(q, 1)
           t == Tail(q)
<1>2. RemoveFirst(q, q[1]) = r
  <2> DEFINE e == q[1]
  <2>1. q[1] = e /\ \A j \in 1 .. Len(q) : q[j] = e => j = 1
    OBVIOUS
  <2> HIDE DEF e
  <2> QED BY <1>1, <2>1, RemoveFirstFacts DEF e
<1>3. /\ r \in Seq(T) /\ Len(r) = Len(q) - 1
      /\ \A j \in 1 .. Len(q) - 1 : r[j] = IF j < 1 THEN q[j] ELSE q[j + 1]
  BY <1>1, RemoveAtFacts
<1>4. t \in Seq(T) /\ Len(t) = Len(q) - 1 /\ \A j \in 1 .. Len(q) - 1 : t[j] = q[j + 1]
  BY HeadTailProperties
<1> HIDE DEF r, t
<1>5. \A j \in 1 .. Len(r) : r[j] = t[j]
  <2>1. \A j \in 1 .. Len(q) - 1 : ~ (j < 1)
    BY <1>1
  <2> QED BY <1>3, <1>4, <2>1
<1>6. r = t
  BY <1>3, <1>4, <1>5, SeqEqual
<1> QED BY <1>2, <1>6 DEF t

LEMMA CallEventKeeps == Inv /\ CallEvent => Inv'
<1> SUFFICES ASSUME Inv, CallEvent PROVE Inv'
  OBVIOUS
<1> DEFINE old == passes[1]
           next == mEventCallbackTable[old.eventIdx].next
           todo == RemoveFirst(old.eventTodo, old.eventIdx)
           pass == [old EXCEPT !.eventIdx = next, !.calling = TRUE, !.eventTodo = todo]
<1>1. /\ passes # <<>> /\ old.eventIdx # 0 /\ UNCHANGED <<mCallbacks, table>>
      /\ passes' = [passes EXCEPT ![1] = pass]
  <2>1. passes # <<>> /\ old.eventIdx # 0 /\ UNCHANGED <<mCallbacks, table>>
    BY DEF CallEvent, AtLoopHead
  <2>2. passes' = [passes EXCEPT ![1] = pass]
    BY DEF CallEvent
  <2> QED BY <2>1, <2>2
<1>2. /\ passes \in Seq(Passes) /\ TableInv
      /\ \A p \in DOMAIN passes : EventPass(passes[p]) /\ GlobalPass(mCallbacks, passes[p])
  BY DEF Inv, EventInv, Typed, EventPasses, GlobalPasses
<1>3. 1 \in DOMAIN passes /\ old \in Passes
  BY <1>1, <1>2
<1>4. EventPass(old) /\ GlobalPass(mCallbacks, old)
  BY <1>2, <1>3
<1> HIDE DEF old
<1> DEFINE q == old.eventTodo
           i == old.eventIdx
<1>5. IsPath(mEventCallbackTable, i, q) /\ 0 \notin DOMAIN mEventCallbackTable
  BY <1>2, <1>4, NodeFacts DEF EventPass
<1>6. /\ q \in Seq(DOMAIN mEventCallbackTable) /\ q # <<>> /\ q[1] = i /\ i \in DOMAIN mEventCallbackTable
      /\ DOMAIN q = 1 .. Len(q) /\ 1 \in DOMAIN q
  BY <1>1, <1>5, PathFacts
<1>7. \A j \in 1 .. Len(q) : q[j] = q[1] => j = 1
  BY <1>5, <1>6 DEF IsPath, IsInjective
<1>8. todo = Tail(q)
  BY <1>6, <1>7, FirstTaken
<1>9. /\ IsPath(mEventCallbackTable, next, todo)
      /\ \A x : Contains(todo, x) => Contains(q, x)
  BY <1>1, <1>5, <1>8, PopKeepsPath
<1>10. next \in Nat /\ todo \in Seq(Nat)
  <2>1. next \in Nat
    BY <1>2, <1>6, NodeFacts DEF Nodes
  <2>2. old.eventTodo \in Seq(Nat)
    BY <1>3 DEF Passes
  <2> QED BY <2>1, <2>2, RemoveFirstFacts
<1> HIDE DEF next, todo
<1>11. /\ pass \in Passes /\ pass.eventIdx = next /\ pass.eventTodo = todo /\ pass.event = old.event
       /\ pass.globalIdx = old.globalIdx /\ pass.globalSize = old.globalSize
       /\ pass.globalTodo = old.globalTodo
  <2> DEFINE calling == TRUE
  <2>1. calling \in BOOLEAN
    OBVIOUS
  <2> HIDE DEF calling
  <2>2. pass = [old EXCEPT !.eventIdx = next, !.calling = calling, !.eventTodo = todo]
    BY DEF calling
  <2> HIDE DEF pass
  <2> QED BY <1>3, <1>10, <2>1, <2>2 DEF Passes
<1> HIDE DEF pass
<1>12. ASSUME NEW k \in DOMAIN todo
       PROVE  /\ mEventCallbackTable[todo[k]].fn # Null
              /\ mEventCallbackTable[todo[k]].id.event = old.event
  <2>1. DOMAIN todo = 1 .. Len(todo)
    BY <1>9 DEF IsPath
  <2>2. Contains(q, todo[k])
    BY <1>9, <2>1 DEF Contains
  <2>3. PICK m \in DOMAIN q : q[m] = todo[k]
    BY <1>6, <2>2 DEF Contains
  <2> QED BY <1>4, <2>3 DEF EventPass
<1>13. EventPass(pass)
  BY <1>9, <1>11, <1>12 DEF EventPass
<1>14. GlobalPass(mCallbacks, pass)
  BY <1>4, <1>11 DEF GlobalPass
<1> QED BY <1>1, <1>11, <1>13, <1>14, InnermostReplaced

LEMMA CallbackReturnsKeeps == Inv /\ CallbackReturns => Inv'
<1> SUFFICES ASSUME Inv, CallbackReturns PROVE Inv'
  OBVIOUS
<1> DEFINE old == passes[1]
           pass == [old EXCEPT !.calling = FALSE]
<1>1. /\ passes # <<>> /\ UNCHANGED <<mCallbacks, table>>
      /\ passes' = [passes EXCEPT ![1] = pass]
  BY DEF CallbackReturns
<1>2. /\ passes \in Seq(Passes)
      /\ \A p \in DOMAIN passes : EventPass(passes[p]) /\ GlobalPass(mCallbacks, passes[p])
  BY DEF Inv, EventInv, Typed, EventPasses, GlobalPasses
<1>3. 1 \in DOMAIN passes /\ old \in Passes
  BY <1>1, <1>2
<1>4. EventPass(old) /\ GlobalPass(mCallbacks, old)
  BY <1>2, <1>3
<1> HIDE DEF old
<1>5. /\ pass \in Passes /\ pass.eventIdx = old.eventIdx /\ pass.eventTodo = old.eventTodo
      /\ pass.event = old.event
      /\ pass.globalIdx = old.globalIdx /\ pass.globalSize = old.globalSize
      /\ pass.globalTodo = old.globalTodo
  <2> DEFINE calling == FALSE
  <2>1. calling \in BOOLEAN
    OBVIOUS
  <2> HIDE DEF calling
  <2>2. pass = [old EXCEPT !.calling = calling]
    BY DEF calling
  <2> HIDE DEF pass
  <2> QED BY <1>3, <2>1, <2>2 DEF Passes
<1> HIDE DEF pass
<1>6. EventPass(pass) /\ GlobalPass(mCallbacks, pass)
  BY <1>4, <1>5 DEF EventPass, GlobalPass
<1> QED BY <1>1, <1>5, <1>6, InnermostReplaced

LEMMA EndNotifyKeeps == Inv /\ EndNotify => Inv'
<1> SUFFICES ASSUME Inv, EndNotify PROVE Inv'
  OBVIOUS
<1>1. passes # <<>> /\ UNCHANGED <<mCallbacks, table>> /\ passes' = Tail(passes)
  BY DEF EndNotify, AtLoopHead
<1>2. /\ passes \in Seq(Passes) /\ Len(passes) <= MaxDepth
      /\ \A p \in DOMAIN passes : EventPass(passes[p]) /\ GlobalPass(mCallbacks, passes[p])
  BY DEF Inv, EventInv, Typed, EventPasses, GlobalPasses
<1>3. /\ passes' \in Seq(Passes) /\ Len(passes') = Len(passes) - 1
      /\ \A p \in 1 .. Len(passes) - 1 : passes'[p] = passes[p + 1]
  BY <1>1, <1>2, HeadTailProperties
<1>4. DOMAIN passes = 1 .. Len(passes) /\ Len(passes) \in Nat /\ MaxDepth \in Nat
  BY <1>2, SimEventAssumption
<1>5. Len(passes') <= MaxDepth
  BY <1>2, <1>3, <1>4
<1>6. ASSUME NEW p \in DOMAIN passes'
      PROVE  EventPass(passes'[p]) /\ GlobalPass(mCallbacks, passes'[p])
  <2>1. p \in 1 .. Len(passes) - 1 /\ p + 1 \in DOMAIN passes
    BY <1>3, <1>4
  <2> QED BY <1>2, <1>3, <2>1
<1> QED BY <1>1, <1>3, <1>5, <1>6, PassesReplaced

\* No more callbacks are registered than there are.
LEMMA CallbacksAreFew ==
    ASSUME NEW cbs \in Seq(Globals), IsInjective(cbs)
    PROVE  Len(cbs) \in Nat /\ Cardinality(Globals) \in Nat /\ Len(cbs) <= Cardinality(Globals)
<1> DEFINE n == Len(cbs)
<1>1. n \in Nat /\ DOMAIN cbs = 1 .. n /\ cbs \in [1 .. n -> Globals]
  BY LenProperties
<1>2. cbs \in Injection(1 .. n, Globals)
  BY <1>1 DEF Injection, IsInjective
<1> HIDE DEF n
<1>3. Cardinality(1 .. n) = n
  <2>1. n \in Int /\ 1 \in Int
    BY <1>1
  <2>2. Cardinality(1 .. n) = IF 1 > n THEN 0 ELSE n - 1 + 1
    BY <2>1, FS_Interval
  <2> QED BY <1>1, <2>2
<1>4. Cardinality(1 .. n) <= Cardinality(Globals)
  BY <1>2, SimEventAssumption, FS_Injection
<1>5. Cardinality(Globals) \in Nat
  BY SimEventAssumption, FS_CardinalityType
<1> QED BY <1>1, <1>3, <1>4, <1>5 DEF n

LEMMA CallGlobalKeeps == Inv /\ CallGlobal => Inv'
<1> SUFFICES ASSUME Inv, CallGlobal PROVE Inv'
  OBVIOUS
<1> DEFINE old == passes[1]
           i == old.globalIdx
           n == old.globalSize
           cb == mCallbacks[i + 1]
           todo == RemoveFirst(old.globalTodo, cb)
           pass == [old EXCEPT !.globalIdx = i + 1, !.calling = TRUE, !.globalTodo = todo]
<1>1. /\ passes # <<>> /\ i < n /\ UNCHANGED <<mCallbacks, table>>
      /\ passes' = [passes EXCEPT ![1] = pass]
  BY DEF CallGlobal, AtLoopHead, GlobalsLeft
<1>2. /\ passes \in Seq(Passes) /\ mCallbacks \in Seq(Globals) /\ IsInjective(mCallbacks)
      /\ \A p \in DOMAIN passes : EventPass(passes[p]) /\ GlobalPass(mCallbacks, passes[p])
  BY DEF Inv, EventInv, Typed, EventPasses, GlobalPasses
<1>3. 1 \in DOMAIN passes /\ old \in Passes
  BY <1>1, <1>2
<1>4. EventPass(old) /\ GlobalPass(mCallbacks, old)
  BY <1>2, <1>3
<1> HIDE DEF old
<1>5. i \in Nat /\ n \in Nat /\ n <= Len(mCallbacks) /\ old.globalTodo \in Seq(Globals)
  BY <1>3, <1>4 DEF Passes, GlobalPass
<1>6. Len(mCallbacks) \in Nat /\ Len(mCallbacks) <= Cardinality(Globals) /\ Cardinality(Globals) \in Nat
  BY <1>2, CallbacksAreFew
<1>7. todo \in Seq(Globals)
  BY <1>5, RemoveFirstFacts
<1>8. ASSUME ~ RemoveBehind PROVE todo = SubSeq(mCallbacks, (i + 1) + 1, n)
  <2> DEFINE before == old.globalTodo
  <2>1. before = SubSeq(mCallbacks, i + 1, n)
    BY <1>4, <1>8 DEF GlobalPass
  <2>2. i <= n
    BY <1>1, <1>5
  <2>3. /\ before \in Seq(Globals) /\ Len(before) = n - i
        /\ \A k \in 1 .. n - i : before[k] = mCallbacks[i + k]
    <3> HIDE DEF i, n, before
    <3>1. i \in Nat /\ n \in Int /\ i <= n /\ n <= Len(mCallbacks) /\ mCallbacks \in Seq(Globals)
      BY <1>2, <1>5, <2>2
    <3> QED BY <2>1, <3>1, SliceFacts
  <2> HIDE DEF before, i, n, cb
  <2>4. 1 \in 1 .. n - i /\ before[1] = cb
    BY <1>1, <1>5, <2>3 DEF cb
  <2>5. \A j \in 1 .. Len(before) : before[j] = before[1] => j = 1
    <3>1. DOMAIN mCallbacks = 1 .. Len(mCallbacks)
      BY <1>2
    <3>2. ASSUME NEW j \in 1 .. n - i, before[j] = before[1] PROVE j = 1
      <4>1. i + j \in 1 .. Len(mCallbacks) /\ i + 1 \in 1 .. Len(mCallbacks)
        BY <1>1, <1>5, <1>6
      <4>2. mCallbacks[i + j] = mCallbacks[i + 1]
        BY <2>3, <2>4, <3>2
      <4>3. i + j = i + 1
        BY <1>2, <3>1, <4>1, <4>2 DEF IsInjective
      <4> QED BY <1>5, <4>3
    <3> QED BY <2>3, <3>2
  <2>6. before # <<>>
    BY <1>1, <1>5, <2>3
  <2>7. todo = Tail(before)
    BY <2>3, <2>4, <2>5, <2>6, FirstTaken DEF before
  <2>8. /\ Len(todo) = Len(before) - 1 /\ todo \in Seq(Globals)
        /\ \A k \in 1 .. Len(before) - 1 : todo[k] = before[k + 1]
    BY <2>3, <2>6, <2>7, HeadTailProperties
  <2> HIDE DEF todo
  <2>9. Len(todo) = n - (i + 1)
    BY <1>5, <2>3, <2>8
  <2>10. \A k \in 1 .. n - (i + 1) : todo[k] = mCallbacks[(i + 1) + k]
    <3>1. ASSUME NEW k \in 1 .. n - (i + 1) PROVE todo[k] = mCallbacks[(i + 1) + k]
      <4>1. k \in 1 .. Len(before) - 1 /\ k + 1 \in 1 .. n - i /\ i + (k + 1) = (i + 1) + k
        BY <1>5, <2>3
      <4> QED BY <2>3, <2>8, <4>1
    <3> QED BY <3>1
  <2> DEFINE i1 == i + 1
  <2>11. i1 \in Nat /\ n \in Int /\ i1 <= n
    BY <1>1, <1>5
  <2> HIDE DEF i1
  <2>12. todo = SubSeq(mCallbacks, i1 + 1, n)
    BY <1>2, <1>5, <2>8, <2>9, <2>10, <2>11, IsSlice DEF i1
  <2> QED BY <2>12 DEF i1
<1> HIDE DEF todo
<1>9. /\ pass \in Passes /\ pass.eventIdx = old.eventIdx /\ pass.eventTodo = old.eventTodo
      /\ pass.event = old.event
      /\ pass.globalIdx = i + 1 /\ pass.globalSize = n /\ pass.globalTodo = todo
  <2> DEFINE calling == TRUE
             i1 == i + 1
  <2>1. calling \in BOOLEAN /\ i1 \in Nat
    BY <1>5
  <2> HIDE DEF calling, i1
  <2>2. pass = [old EXCEPT !.globalIdx = i1, !.calling = calling, !.globalTodo = todo]
    BY DEF calling, i1
  <2> HIDE DEF pass
  <2>3. /\ pass \in Passes /\ pass.eventIdx = old.eventIdx /\ pass.eventTodo = old.eventTodo
        /\ pass.event = old.event
        /\ pass.globalIdx = i1 /\ pass.globalSize = old.globalSize /\ pass.globalTodo = todo
    BY <1>3, <1>7, <2>1, <2>2 DEF Passes
  <2> QED BY <2>3 DEF i1
<1> HIDE DEF pass
<1>10. EventPass(pass)
  BY <1>4, <1>9 DEF EventPass
<1>11. GlobalPass(mCallbacks, pass)
  <2> HIDE DEF i, n
  <2>1. i + 1 <= n /\ i + 1 <= Cardinality(Globals)
    BY <1>1, <1>5, <1>6
  <2> QED BY <1>5, <1>8, <1>9, <2>1 DEF GlobalPass
<1> QED BY <1>1, <1>9, <1>10, <1>11, InnermostReplaced

LEMMA NotifyEventKeeps ==
    ASSUME Inv, NEW ev \in Events, NotifyEvent(ev)
    PROVE  Inv'
<1> DEFINE chain == Chain(mEventCallbackLists[ev])
           pass == [event |-> ev, calling |-> FALSE,
                    globalIdx |-> 0, globalSize |-> Len(mCallbacks),
                    eventIdx |-> mEventCallbackLists[ev],
                    globalTodo |-> mCallbacks, eventTodo |-> chain]
           one == <<pass>>
<1>1. /\ Len(passes) < MaxDepth /\ UNCHANGED <<mCallbacks, table>> /\ passes' = one \o passes
  BY DEF NotifyEvent
<1>2. /\ passes \in Seq(Passes) /\ mCallbacks \in Seq(Globals) /\ IsInjective(mCallbacks)
      /\ TableInv
      /\ \A p \in DOMAIN passes : EventPass(passes[p]) /\ GlobalPass(mCallbacks, passes[p])
  BY DEF Inv, EventInv, Typed, EventPasses, GlobalPasses
<1>3. Len(mCallbacks) \in Nat /\ Len(mCallbacks) <= Cardinality(Globals) /\ Cardinality(Globals) \in Nat
  BY <1>2, CallbacksAreFew
<1>4. /\ IsPath(mEventCallbackTable, mEventCallbackLists[ev], chain)
      /\ mEventCallbackLists[ev] \in Nat
      /\ 0 \notin DOMAIN mEventCallbackTable /\ DOMAIN mEventCallbackTable \subseteq Nat
  BY <1>2, NodeFacts DEF TableInv, Linked
<1>5. chain \in Seq(DOMAIN mEventCallbackTable) /\ DOMAIN chain = 1 .. Len(chain)
  BY <1>4 DEF IsPath
<1>6. chain \in Seq(Nat)
  BY <1>4, <1>5, SeqMonotonic
<1>7. ASSUME NEW k \in DOMAIN chain
      PROVE  /\ mEventCallbackTable[chain[k]].fn # Null
             /\ mEventCallbackTable[chain[k]].id.event = ev
  <2>1. Contains(chain, chain[k]) /\ chain[k] \in DOMAIN mEventCallbackTable
    BY <1>5, <1>7 DEF Contains
  <2> QED BY <1>2, <2>1 DEF TableInv, Placed, Live
<1> HIDE DEF chain
<1>8. EventPass(pass)
  BY <1>4, <1>7 DEF EventPass
<1>9. pass \in Passes
  <2> DEFINE calling == FALSE
             none == 0
             size == Len(mCallbacks)
  <2>1. calling \in BOOLEAN /\ none \in Nat /\ size \in Nat
    BY <1>3
  <2> HIDE DEF calling, none, size
  <2>2. pass = [event |-> ev, calling |-> calling,
                globalIdx |-> none, globalSize |-> size,
                eventIdx |-> mEventCallbackLists[ev],
                globalTodo |-> mCallbacks, eventTodo |-> chain]
    BY DEF calling, none, size
  <2> HIDE DEF pass
  <2> QED BY <1>2, <1>4, <1>6, <2>1, <2>2 DEF Passes
<1>10. GlobalPass(mCallbacks, pass)
  <2>1. SubSeq(mCallbacks, 0 + 1, Len(mCallbacks)) = mCallbacks
    <3>1. 0 + 1 = 1
      OBVIOUS
    <3> QED BY <1>2, <3>1, SubSeqFull
  <2> DEFINE size == Len(mCallbacks)
             part == SubSeq(mCallbacks, 0 + 1, size)
  <2>2. /\ pass.globalIdx = 0 /\ pass.globalSize = size /\ pass.globalTodo = part
    BY <2>1
  <2> HIDE DEF pass, size
  <2>3. 0 <= size /\ size <= Len(mCallbacks) /\ 0 <= Cardinality(Globals)
    BY <1>3 DEF size
  <2> QED BY <2>2, <2>3 DEF GlobalPass
<1> HIDE DEF pass
<1>11. one \in Seq(Passes) /\ Len(one) = 1 /\ one[1] = pass
  BY <1>9
<1> HIDE DEF one
<1>12. /\ passes' \in Seq(Passes) /\ Len(passes') = Len(one) + Len(passes)
       /\ \A p \in 1 .. Len(one) + Len(passes) :
             passes'[p] = IF p <= Len(one) THEN one[p] ELSE passes[p - Len(one)]
  BY <1>1, <1>2, <1>11, ConcatProperties
<1>13. DOMAIN passes = 1 .. Len(passes) /\ Len(passes) \in Nat /\ DOMAIN passes' = 1 .. Len(passes')
  BY <1>2, <1>12
<1>14. Len(passes') <= MaxDepth
  BY <1>1, <1>11, <1>12, <1>13, SimEventAssumption
<1>15. ASSUME NEW p \in DOMAIN passes'
       PROVE  EventPass(passes'[p]) /\ GlobalPass(mCallbacks, passes'[p])
  <2>1. p \in 1 .. Len(one) + Len(passes)
    BY <1>12, <1>13
  <2>2. CASE p <= Len(one)
    <3>1. p = 1
      BY <1>11, <1>13, <2>1, <2>2
    <3> QED BY <1>8, <1>10, <1>11, <1>12, <2>1, <2>2, <3>1
  <2>3. CASE ~ (p <= Len(one))
    <3>1. p - Len(one) \in DOMAIN passes /\ passes'[p] = passes[p - Len(one)]
      BY <1>11, <1>12, <1>13, <2>1, <2>3
    <3> QED BY <1>2, <3>1
  <2> QED BY <2>2, <2>3
<1> QED BY <1>1, <1>12, <1>14, <1>15, PassesReplaced

-----------------------------------------------------------------------------
(* A global callback is added or removed.                                    *)

LEMMA AddCallbackKeepsPass ==
    ASSUME NEW cbs \in Seq(Globals), NEW cb \in Globals, NEW pass \in Passes, GlobalPass(cbs, pass)
    PROVE  GlobalPass(Append(cbs, cb), pass)
<1> DEFINE new == Append(cbs, cb)
           i == pass.globalIdx
           n == pass.globalSize
<1>1. /\ new \in Seq(Globals) /\ Len(new) = Len(cbs) + 1
      /\ \A k \in 1 .. Len(cbs) : new[k] = cbs[k]
  BY AppendProperties
<1>2. i \in Nat /\ n \in Nat /\ n <= Len(cbs) /\ Len(cbs) \in Nat
  BY DEF Passes, GlobalPass
<1> HIDE DEF new
<1>3. n <= Len(new)
  BY <1>1, <1>2
<1>4. ASSUME ~ RemoveBehind PROVE i <= n /\ pass.globalTodo = SubSeq(new, i + 1, n)
  <2> DEFINE todo == pass.globalTodo
  <2>1. i <= n /\ todo = SubSeq(cbs, i + 1, n)
    BY <1>4 DEF GlobalPass
  <2>2. /\ todo \in Seq(Globals) /\ Len(todo) = n - i /\ \A k \in 1 .. n - i : todo[k] = cbs[i + k]
    <3> HIDE DEF i, n, todo
    <3>1. n \in Int
      BY <1>2
    <3> QED BY <1>2, <2>1, <3>1, SliceFacts
  <2> HIDE DEF todo, i, n
  <2>3. ASSUME NEW k \in 1 .. n - i PROVE todo[k] = new[i + k]
    <3>1. i + k \in 1 .. Len(cbs)
      BY <1>2
    <3> QED BY <1>1, <2>2, <3>1
  <2>4. n \in Int
    BY <1>2
  <2>5. todo = SubSeq(new, i + 1, n)
    BY <1>1, <1>2, <1>3, <2>1, <2>2, <2>3, <2>4, IsSlice
  <2> QED BY <2>1, <2>5 DEF todo
<1>5. pass.globalIdx <= Cardinality(Globals)
  BY DEF GlobalPass
<1> QED BY <1>3, <1>4, <1>5 DEF GlobalPass, new

LEMMA AddCallbackKeeps ==
    ASSUME Inv, NEW cb \in Globals, AddCallback(cb)
    PROVE  Inv'
<1>1. /\ mCallbacks' = Append(mCallbacks, cb) /\ passes' = passes /\ UNCHANGED table
      /\ ~ Contains(mCallbacks, cb)
  BY DEF AddCallback
<1>2. /\ passes \in Seq(Passes) /\ mCallbacks \in Seq(Globals) /\ IsInjective(mCallbacks)
      /\ \A p \in DOMAIN passes : GlobalPass(mCallbacks, passes[p])
  BY DEF Inv, EventInv, Typed, GlobalPasses
<1>3. EventInv'
  <2>1. TableInv' /\ Typed'
    BY <1>1, TableKept DEF Inv, EventInv, Typed
  <2>2. EventPasses'
    BY <1>1 DEF table, Inv, EventInv, EventPasses, EventPass
  <2> QED BY <2>1, <2>2 DEF EventInv
<1>4. /\ mCallbacks' \in Seq(Globals) /\ Len(mCallbacks') = Len(mCallbacks) + 1
      /\ \A k \in 1 .. Len(mCallbacks) : mCallbacks'[k] = mCallbacks[k]
      /\ mCallbacks'[Len(mCallbacks) + 1] = cb
  BY <1>1, <1>2, AppendProperties
<1>5. IsInjective(mCallbacks')
  <2> DEFINE n == Len(mCallbacks)
             new == mCallbacks'
  <2>1. n \in Nat /\ DOMAIN mCallbacks = 1 .. n /\ DOMAIN new = 1 .. n + 1
    BY <1>2, <1>4
  <2>2. /\ \A k \in 1 .. n : new[k] = mCallbacks[k] /\ mCallbacks[k] # cb
        /\ new[n + 1] = cb
    BY <1>1, <1>4 DEF Contains
  <2>3. \A a, b \in 1 .. n : mCallbacks[a] = mCallbacks[b] => a = b
    BY <1>2, <2>1 DEF IsInjective
  <2> HIDE DEF n, new
  <2>4. ASSUME NEW a \in 1 .. n + 1, NEW b \in 1 .. n + 1, new[a] = new[b] PROVE a = b
    <3>1. (a \in 1 .. n \/ a = n + 1) /\ (b \in 1 .. n \/ b = n + 1)
      BY <2>1
    <3> QED BY <2>2, <2>3, <2>4, <3>1
  <2> QED BY <2>1, <2>4 DEF IsInjective, new
<1>6. \A p \in DOMAIN passes : GlobalPass(mCallbacks', passes[p])
  <2>1. \A p \in DOMAIN passes : passes[p] \in Passes
    BY <1>2
  <2> QED BY <1>1, <1>2, <2>1, AddCallbackKeepsPass
<1>7. GlobalPasses'
  BY <1>1, <1>4, <1>5, <1>6 DEF GlobalPasses, GlobalPass
<1> QED BY <1>3, <1>7 DEF Inv

LEMMA ShortenFacts ==
    ASSUME NEW pass \in Passes, NEW index \in Nat, NEW cb
    PROVE  /\ ShortenPass(pass, index, cb) \in Passes
           /\ ShortenPass(pass, index, cb).event = pass.event
           /\ ShortenPass(pass, index, cb).eventIdx = pass.eventIdx
           /\ ShortenPass(pass, index, cb).eventTodo = pass.eventTodo
           /\ ShortenPass(pass, index, cb).globalIdx = pass.globalIdx
           /\ ShortenPass(pass, index, cb).globalSize =
                 IF pass.globalSize > index THEN pass.globalSize - 1 ELSE pass.globalSize
           /\ ShortenPass(pass, index, cb).globalTodo = RemoveFirst(pass.globalTodo, cb)
<1> DEFINE size == IF pass.globalSize > index THEN pass.globalSize - 1 ELSE pass.globalSize
           todo == RemoveFirst(pass.globalTodo, cb)
<1>1. size \in Nat
  <2>1. pass.globalSize \in Nat
    BY DEF Passes
  <2> QED BY <2>1
<1>2. todo \in Seq(Globals)
  <2>1. pass.globalTodo \in Seq(Globals)
    BY DEF Passes
  <2> QED BY <2>1, RemoveFirstFacts
<1>3. ShortenPass(pass, index, cb) = [pass EXCEPT !.globalSize = size, !.globalTodo = todo]
  BY DEF ShortenPass
<1> HIDE DEF size, todo
<1>4. ShortenPass(pass, index, cb) \in Passes
  BY <1>1, <1>2, <1>3 DEF Passes
<1> QED BY <1>3, <1>4 DEF size, todo, Passes

LEMMA RemoveCallbackKeepsPass ==
    ASSUME NEW cbs \in Seq(Globals), IsInjective(cbs), NEW index \in 0 .. Len(cbs) - 1,
           NEW pass \in Passes, GlobalPass(cbs, pass),
           ~ RemoveBehind => pass.globalIdx <= index
    PROVE  GlobalPass(RemoveAt(cbs, index + 1), ShortenPass(pass, index, cbs[index + 1]))
<1> DEFINE cb == cbs[index + 1]
           left == RemoveAt(cbs, index + 1)
           new == ShortenPass(pass, index, cb)
           i == pass.globalIdx
           n == pass.globalSize
           len == Len(cbs)
           size == IF n > index THEN n - 1 ELSE n
           before == pass.globalTodo
           todo == RemoveFirst(before, cb)
<1>1. /\ len \in Nat /\ DOMAIN cbs = 1 .. len /\ index \in Nat /\ index + 1 \in 1 .. len
      /\ i \in Nat /\ n \in Nat /\ n <= len /\ before \in Seq(Globals)
  BY DEF Passes, GlobalPass
<1>2. /\ left \in Seq(Globals) /\ Len(left) = len - 1
      /\ \A j \in 1 .. len - 1 : left[j] = IF j < index + 1 THEN cbs[j] ELSE cbs[j + 1]
  BY <1>1, RemoveAtFacts
<1>3. new.globalIdx = i /\ new.globalSize = size /\ new.globalTodo = todo
  BY <1>1, ShortenFacts
<1>4. \A j \in 1 .. len : cbs[j] = cb => j = index + 1
  BY <1>1 DEF IsInjective
<1>5. i <= Cardinality(Globals) /\ (~ RemoveBehind => i <= n /\ before = SubSeq(cbs, i + 1, n))
  BY DEF GlobalPass
<1> HIDE DEF cb, left, new, i, n, len, before
<1>6. size \in Nat /\ size <= Len(left)
  BY <1>1, <1>2
<1>7. ASSUME ~ RemoveBehind PROVE i <= size /\ todo = SubSeq(left, i + 1, size)
  <2>1. i <= n /\ i <= index /\ before = SubSeq(cbs, i + 1, n)
    BY <1>5, <1>7 DEF i
  <2>2. i <= size
    BY <1>1, <2>1
  <2>3. Len(before) = n - i /\ \A k \in 1 .. n - i : before[k] = cbs[i + k]
    <3>1. n \in Int /\ n <= Len(cbs)
      BY <1>1 DEF len
    <3> QED BY <1>1, <2>1, <3>1, SliceFacts
  <2>4. todo \in Seq(Globals) /\ Len(todo) = size - i /\ \A k \in 1 .. size - i : todo[k] = left[i + k]
    <3>1. CASE n > index
      <4> DEFINE m == index + 1 - i
      <4>1. m \in 1 .. Len(before) /\ i + m = index + 1 /\ m \in 1 .. n - i /\ size = n - 1
        BY <1>1, <2>1, <2>3, <3>1
      <4>2. before[m] = cb
        BY <2>3, <4>1 DEF cb
      <4> HIDE DEF m, size
      <4>3. ASSUME NEW j \in 1 .. Len(before), before[j] = cb PROVE j = m
        <5>1. j \in 1 .. n - i /\ i + j \in 1 .. len
          BY <1>1, <2>3
        <5>2. cbs[i + j] = cb
          BY <2>3, <4>3, <5>1
        <5>3. i + j = index + 1
          BY <1>4, <5>1, <5>2
        <5> QED BY <1>1, <4>1, <5>1, <5>3
      <4>4. todo = RemoveAt(before, m)
        BY <1>1, <4>1, <4>2, <4>3, RemoveFirstFacts
      <4>5. /\ todo \in Seq(Globals) /\ Len(todo) = Len(before) - 1
            /\ \A k \in 1 .. Len(before) - 1 : todo[k] = IF k < m THEN before[k] ELSE before[k + 1]
        BY <1>1, <4>1, <4>4, RemoveAtFacts
      <4> HIDE DEF todo
      <4>6. Len(todo) = size - i
        BY <1>1, <2>3, <4>1, <4>5
      <4>7. ASSUME NEW k \in 1 .. size - i PROVE todo[k] = left[i + k]
        <5>1. /\ k \in 1 .. Len(before) - 1 /\ k \in 1 .. n - i /\ k + 1 \in 1 .. n - i
              /\ i + k \in 1 .. len - 1 /\ i + (k + 1) = (i + k) + 1
          <6>1. Len(before) = n - i /\ size = n - 1 /\ i <= n
            BY <2>1, <2>3, <4>1
          <6>2. k \in 1 .. (n - 1) - i
            BY <6>1
          <6>3. i \in Nat /\ n \in Nat /\ len \in Nat /\ n <= len
            BY <1>1
          <6>4. /\ k \in 1 .. (n - i) - 1 /\ k \in 1 .. n - i /\ k + 1 \in 1 .. n - i
                /\ i + k \in 1 .. len - 1 /\ i + (k + 1) = (i + k) + 1
            BY <6>2, <6>3
          <6> QED BY <6>1, <6>4
        <5>2. k < m <=> i + k < index + 1
          BY <1>1, <4>1, <5>1
        <5>3. CASE k < m
          BY <1>2, <2>3, <4>5, <5>1, <5>2, <5>3
        <5>4. CASE ~ (k < m)
          <6>1. todo[k] = before[k + 1]
            BY <4>5, <5>1, <5>4
          <6>2. before[k + 1] = cbs[(i + k) + 1]
            BY <2>3, <5>1
          <6>3. left[i + k] = cbs[(i + k) + 1]
            BY <1>2, <5>1, <5>2, <5>4
          <6> QED BY <6>1, <6>2, <6>3
        <5> QED BY <5>3, <5>4
      <4> QED BY <4>5, <4>6, <4>7
    <3>2. CASE ~ (n > index)
      <4>1. size = n
        BY <3>2
      <4> HIDE DEF size
      <4>2. ASSUME NEW k \in 1 .. n - i
            PROVE  before[k] = cbs[i + k] /\ before[k] # cb /\ left[i + k] = cbs[i + k]
        <5>1. i + k \in 1 .. len /\ i + k # index + 1 /\ i + k \in 1 .. len - 1 /\ i + k < index + 1
          BY <1>1, <2>1, <3>2
        <5>2. before[k] = cbs[i + k] /\ cbs[i + k] # cb
          BY <1>4, <2>3, <5>1
        <5>3. left[i + k] = cbs[i + k]
          BY <1>2, <5>1
        <5> QED BY <5>2, <5>3
      <4>3. \A k \in 1 .. Len(before) : before[k] # cb
        BY <2>3, <4>2
      <4>4. todo = before
        BY <1>1, <4>3, RemoveFirstFacts
      <4> QED BY <1>1, <2>3, <4>1, <4>2, <4>4
    <3> QED BY <3>1, <3>2
  <2> HIDE DEF todo, size
  <2>5. size \in Int
    BY <1>6
  <2>6. todo = SubSeq(left, i + 1, size)
    BY <1>1, <1>2, <1>6, <2>2, <2>4, <2>5, IsSlice
  <2> QED BY <2>2, <2>6
<1> HIDE DEF todo, size
<1>8. GlobalPass(left, new)
  BY <1>3, <1>5, <1>6, <1>7 DEF GlobalPass
<1> QED BY <1>8 DEF left, new, cb

LEMMA RemoveCallbackKeeps ==
    ASSUME Inv, NEW cb \in Globals, RemoveCallback(cb)
    PROVE  Inv'
<1>1. PICK index \in 0 .. Len(mCallbacks) - 1 :
          /\ mCallbacks[index + 1] = cb
          /\ RemoveBehind \/ \A p \in DOMAIN passes : passes[p].globalIdx <= index
          /\ mCallbacks' = RemoveAt(mCallbacks, index + 1)
          /\ passes' = [p \in DOMAIN passes |-> ShortenPass(passes[p], index, cb)]
  BY DEF RemoveCallback
<1>2. UNCHANGED table
  BY DEF RemoveCallback
<1>3. /\ passes \in Seq(Passes) /\ Len(passes) <= MaxDepth
      /\ mCallbacks \in Seq(Globals) /\ IsInjective(mCallbacks)
      /\ \A p \in DOMAIN passes : EventPass(passes[p]) /\ GlobalPass(mCallbacks, passes[p])
  BY DEF Inv, EventInv, Typed, GlobalPasses, EventPasses
<1>4. index \in Nat /\ Len(mCallbacks) \in Nat /\ index + 1 \in 1 .. Len(mCallbacks)
  BY <1>3
<1> DEFINE new == passes'
<1>5. \A p \in DOMAIN passes :
          passes[p] \in Passes /\ new[p] = ShortenPass(passes[p], index, cb)
  BY <1>1, <1>3
<1>6. new = [p \in DOMAIN passes |-> new[p]]
  BY <1>1
<1>7. ASSUME NEW p \in DOMAIN passes PROVE new[p] \in Passes
  <2>1. ShortenPass(passes[p], index, cb) \in Passes
    BY <1>4, <1>5, ShortenFacts
  <2> QED BY <1>5, <2>1
<1> HIDE DEF new
<1>8. new \in Seq(Passes) /\ Len(new) = Len(passes) /\ DOMAIN new = DOMAIN passes
  BY <1>3, <1>6, <1>7, PassesMapped
<1>9. EventInv'
  <2>1. TableInv' /\ Typed'
    BY <1>2, <1>3, <1>8, TableKept DEF Inv, EventInv, Typed, new
  <2>2. mEventCallbackTable' = mEventCallbackTable
    BY <1>2 DEF table
  <2>3. ASSUME NEW p \in DOMAIN passes PROVE EventPass(new[p])
    <3>1. /\ new[p].event = passes[p].event /\ new[p].eventIdx = passes[p].eventIdx
          /\ new[p].eventTodo = passes[p].eventTodo
      BY <1>4, <1>5, ShortenFacts
    <3> QED BY <1>3, <3>1 DEF EventPass
  <2>4. EventPasses'
    BY <1>8, <2>2, <2>3 DEF EventPasses, EventPass, new
  <2> QED BY <2>1, <2>4 DEF EventInv
<1>10. /\ mCallbacks' \in Seq(Globals) /\ Len(mCallbacks') = Len(mCallbacks) - 1
       /\ \A j \in 1 .. Len(mCallbacks) - 1 :
             mCallbacks'[j] = IF j < index + 1 THEN mCallbacks[j] ELSE mCallbacks[j + 1]
  BY <1>1, <1>3, <1>4, RemoveAtFacts
<1>11. IsInjective(mCallbacks')
  <2> DEFINE n == Len(mCallbacks)
             left == mCallbacks'
             Old(k) == IF k < index + 1 THEN k ELSE k + 1
  <2>1. n \in Nat /\ DOMAIN mCallbacks = 1 .. n /\ DOMAIN left = 1 .. n - 1
    BY <1>3, <1>10
  <2>2. \A a, b \in 1 .. n : mCallbacks[a] = mCallbacks[b] => a = b
    BY <1>3, <2>1 DEF IsInjective
  <2>3. \A k \in 1 .. n - 1 : Old(k) \in 1 .. n /\ left[k] = mCallbacks[Old(k)]
    BY <1>4, <1>10
  <2> HIDE DEF n, left
  <2>4. \A a, b \in 1 .. n - 1 : Old(a) = Old(b) => a = b
    BY <1>4, <2>1
  <2> HIDE DEF Old
  <2>5. ASSUME NEW a \in 1 .. n - 1, NEW b \in 1 .. n - 1, left[a] = left[b] PROVE a = b
    <3>1. /\ Old(a) \in 1 .. n /\ left[a] = mCallbacks[Old(a)]
          /\ Old(b) \in 1 .. n /\ left[b] = mCallbacks[Old(b)]
      BY <2>3
    <3>2. mCallbacks[Old(a)] = mCallbacks[Old(b)]
      BY <2>5, <3>1
    <3>3. Old(a) = Old(b)
      BY <2>2, <3>1, <3>2, Zenon
    <3> QED BY <2>4, <3>3
  <2> QED BY <2>1, <2>5 DEF IsInjective, left
<1>12. \A p \in DOMAIN passes : GlobalPass(mCallbacks', new[p])
  BY <1>1, <1>3, <1>5, RemoveCallbackKeepsPass
<1>13. GlobalPasses'
  BY <1>8, <1>10, <1>11, <1>12 DEF GlobalPasses, GlobalPass, new
<1> QED BY <1>9, <1>13 DEF Inv

-----------------------------------------------------------------------------
(* The invariant.                                                            *)

LEMMA EmptyPath ==
    ASSUME NEW nodes
    PROVE  IsPath(nodes, 0, <<>>)
<1>1. DOMAIN <<>> = {} /\ <<>> \in Seq(DOMAIN nodes)
  OBVIOUS
<1> QED BY <1>1 DEF IsPath, IsInjective, At

LEMMA InitIsFine == Init => Inv
<1> SUFFICES ASSUME Init PROVE Inv
  OBVIOUS
<1>1. /\ mCallbacks = <<>> /\ mEventCallbackTable = <<>> /\ mECFreeList = 0
      /\ mEventCallbackLists = [ev \in Events |-> 0] /\ passes = <<>>
      /\ ids = [c \in Clients |-> NoId]
  BY DEF Init
<1>2. /\ mEventCallbackTable \in Seq(Nodes) /\ DOMAIN mEventCallbackTable = {}
      /\ Len(mEventCallbackTable) = 0
  <2> DEFINE T == Nodes
  <2>1. <<>> \in Seq(T) /\ DOMAIN <<>> = {} /\ Len(<<>>) = 0
    OBVIOUS
  <2> QED BY <1>1, <2>1
<1>3. IsPath(mEventCallbackTable, 0, Chain(0)) /\ Chain(0) = <<>>
  <2>1. IsPath(mEventCallbackTable, 0, <<>>)
    BY EmptyPath
  <2>2. Chain(0) = <<>>
    BY <1>2, <2>1, ChainOfPath
  <2> QED BY <2>1, <2>2
<1>4. Linked
  <2>1. mEventCallbackLists \in [Events -> Nat] /\ \A ev \in Events : mEventCallbackLists[ev] = 0
    BY <1>1
  <2> QED BY <1>1, <1>2, <1>3, <2>1 DEF Linked
<1>5. Placed
  BY <1>2 DEF Placed
<1>6. Owned
  BY <1>1, <1>2 DEF Owned, IdsNameTheirOwner
<1>7. Small
  <2>1. Cardinality(Clients) \in Nat
    BY SimEventAssumption, FS_CardinalityType
  <2> QED BY <1>2, <2>1 DEF Small
<1>8. /\ passes \in Seq(Passes) /\ DOMAIN passes = {} /\ Len(passes) = 0
      /\ mCallbacks \in Seq(Globals) /\ DOMAIN mCallbacks = {}
  <2> DEFINE T == Passes
  <2>1. <<>> \in Seq(T) /\ DOMAIN <<>> = {} /\ Len(<<>>) = 0 /\ <<>> \in Seq(Globals)
    OBVIOUS
  <2> QED BY <1>1, <2>1
<1>9. Typed
  BY <1>8, SimEventAssumption DEF Typed
<1>10. EventPasses /\ GlobalPasses
  BY <1>8 DEF EventPasses, GlobalPasses, IsInjective
<1> QED BY <1>4, <1>5, <1>6, <1>7, <1>9, <1>10 DEF Inv, EventInv, TableInv

LEMMA GlobalPassesKept ==
    ASSUME GlobalPasses, mCallbacks' = mCallbacks, DOMAIN passes' = DOMAIN passes,
           \A p \in DOMAIN passes : /\ passes'[p].globalSize = passes[p].globalSize
                                    /\ passes'[p].globalIdx = passes[p].globalIdx
                                    /\ passes'[p].globalTodo = passes[p].globalTodo
    PROVE  GlobalPasses'
<1>1. ASSUME NEW p \in DOMAIN passes PROVE GlobalPass(mCallbacks, passes'[p])
  <2>1. GlobalPass(mCallbacks, passes[p])
    BY DEF GlobalPasses
  <2> QED BY <2>1 DEF GlobalPass
<1> QED BY <1>1 DEF GlobalPasses, GlobalPass

LEMMA StepKeeps == Inv /\ [Next]_vars => Inv'
<1> SUFFICES ASSUME Inv, [Next]_vars PROVE Inv'
  OBVIOUS
<1>1. ASSUME NEW cb \in Globals, AddCallback(cb) PROVE Inv'
  BY <1>1, AddCallbackKeeps
<1>2. ASSUME NEW cb \in Globals, RemoveCallback(cb) PROVE Inv'
  BY <1>2, RemoveCallbackKeeps
<1>3. ASSUME NEW c \in Clients, NEW ev \in Events, AddEventCallback(c, ev) PROVE Inv'
  <2>1. EventInv'
    BY <1>3, AdditionKeeps DEF Inv
  <2>2. mCallbacks' = mCallbacks /\ passes' = passes
    BY <1>3 DEF AddEventCallback
  <2>3. GlobalPasses'
    BY <2>2, GlobalPassesKept DEF Inv
  <2> QED BY <2>1, <2>3 DEF Inv
<1>4. ASSUME NEW c \in Clients, RemoveEventCallback(c) PROVE Inv'
  <2>1. EventInv'
    BY <1>4, RemovalKeeps DEF Inv
  <2> DEFINE index == ids[c].index
  <2>2. Freed(index, c)
    BY <1>4, RemovalFreesNode DEF Inv, EventInv
  <2>3. /\ mCallbacks' = mCallbacks
        /\ passes' = [p \in DOMAIN passes |-> BumpPass(passes[p], index)]
    BY <1>4, <2>2 DEF RemoveEventCallback, Freed
  <2> HIDE DEF index
  <2>4. mEventCallbackTable[index].next \in Nat
    <3>1. mEventCallbackTable[index] \in Nodes
      BY <2>2, NodeFacts DEF Freed, Inv, EventInv
    <3> QED BY <3>1 DEF Nodes
  <2>5. ASSUME NEW p \in DOMAIN passes
        PROVE  /\ passes'[p].globalSize = passes[p].globalSize
               /\ passes'[p].globalIdx = passes[p].globalIdx
               /\ passes'[p].globalTodo = passes[p].globalTodo
    <3>1. passes[p] \in Passes
      BY DEF Inv, EventInv, Typed
    <3>2. passes'[p] = BumpPass(passes[p], index)
      BY <2>3
    <3> QED BY <2>4, <3>1, <3>2, BumpFacts
  <2>6. GlobalPasses'
    BY <2>3, <2>5, GlobalPassesKept DEF Inv
  <2> QED BY <2>1, <2>6 DEF Inv
<1>5. ASSUME NEW ev \in Events, NotifyEvent(ev) PROVE Inv'
  BY <1>5, NotifyEventKeeps
<1>6. CASE UNCHANGED vars
  <2>1. /\ mCallbacks' = mCallbacks /\ passes' = passes /\ UNCHANGED table
        /\ mEventCallbackTable' = mEventCallbackTable
    BY <1>6 DEF vars, table
  <2>2. TableInv' /\ Typed'
    BY <2>1, TableKept DEF Inv, EventInv, Typed
  <2>3. EventPasses'
    BY <2>1 DEF Inv, EventInv, EventPasses, EventPass
  <2>4. GlobalPasses'
    BY <2>1, GlobalPassesKept DEF Inv
  <2> QED BY <2>2, <2>3, <2>4 DEF Inv, EventInv
<1> QED
  BY <1>1, <1>2, <1>3, <1>4, <1>5, <1>6, CallGlobalKeeps, CallEventKeeps, CallbackReturnsKeeps,
     EndNotifyKeeps DEF Next

LEMMA AlwaysFine == Spec => []Inv
<1>1. Init => Inv
  BY InitIsFine
<1>2. Inv /\ [Next]_vars => Inv'
  BY StepKeeps
<1> QED BY <1>1, <1>2, PTL DEF Spec

-----------------------------------------------------------------------------
(* What follows from it.                                                     *)

LEMMA LinksStayInTable ==
    ASSUME TableInv
    PROVE  /\ mECFreeList \in 0 .. Len(mEventCallbackTable)
           /\ mEventCallbackLists \in [Events -> 0 .. Len(mEventCallbackTable)]
           /\ \A i \in DOMAIN mEventCallbackTable :
                 mEventCallbackTable[i].next \in 0 .. Len(mEventCallbackTable)
<1> DEFINE n == Len(mEventCallbackTable)
<1>1. /\ n \in Nat /\ DOMAIN mEventCallbackTable = 1 .. n /\ 0 \notin DOMAIN mEventCallbackTable
  BY NodeFacts
<1> HIDE DEF n
<1>2. ASSUME NEW i, NEW q, IsPath(mEventCallbackTable, i, q) PROVE i \in 0 .. n
  <2>1. i = 0 \/ i \in 1 .. n
    BY <1>1, <1>2, PathFacts
  <2> QED BY <1>1, <2>1
<1>3. mECFreeList \in 0 .. n /\ \A ev \in Events : mEventCallbackLists[ev] \in 0 .. n
  BY <1>2 DEF TableInv, Linked
<1>4. mEventCallbackLists \in [Events -> 0 .. n]
  BY <1>3 DEF TableInv, Linked
<1>5. ASSUME NEW i, NEW q, IsPath(mEventCallbackTable, i, q), NEW x, Contains(q, x)
      PROVE  mEventCallbackTable[x].next \in 0 .. n
  <2>1. CASE mEventCallbackTable[x].next = 0
    BY <1>1, <2>1
  <2>2. CASE mEventCallbackTable[x].next # 0
    <3>1. PICK m \in 1 .. Len(q) :
              m + 1 \in 1 .. Len(q) /\ q[m] = x /\ q[m + 1] = mEventCallbackTable[x].next
      BY <1>1, <1>5, <2>2, NextOnPath
    <3>2. q[m + 1] \in 1 .. n
      BY <1>1, <1>5, <3>1, PathFacts
    <3> QED BY <1>1, <3>1, <3>2
  <2> QED BY <2>1, <2>2
<1>6. ASSUME NEW x \in DOMAIN mEventCallbackTable PROVE mEventCallbackTable[x].next \in 0 .. n
  <2>1. CASE Live(x)
    <3> DEFINE ev == mEventCallbackTable[x].id.event
    <3>1. ev \in Events
      BY <2>1, NodeFacts
    <3>2. /\ Contains(Chain(mEventCallbackLists[ev]), x)
          /\ IsPath(mEventCallbackTable, mEventCallbackLists[ev], Chain(mEventCallbackLists[ev]))
      BY <2>1, <3>1 DEF TableInv, Placed, Linked
    <3> QED BY <1>5, <3>2
  <2>2. CASE ~ Live(x)
    <3>1. /\ Contains(Chain(mECFreeList), x)
          /\ IsPath(mEventCallbackTable, mECFreeList, Chain(mECFreeList))
      BY <2>2 DEF TableInv, Placed, Linked
    <3> QED BY <1>5, <3>1
  <2> QED BY <2>1, <2>2
<1> QED BY <1>3, <1>4, <1>6 DEF n

LEMMA InvIsTyped == Inv => TypeOK
<1> SUFFICES ASSUME Inv PROVE TypeOK
  OBVIOUS
<1> DEFINE n == Len(mEventCallbackTable)
           most == Cardinality(Clients)
<1>1. TableInv /\ GlobalPasses /\ Typed /\ EventPasses
  BY DEF Inv, EventInv
<1>2. /\ n \in Nat /\ DOMAIN mEventCallbackTable = 1 .. n /\ 0 \notin DOMAIN mEventCallbackTable
      /\ most \in Nat /\ n <= most
  BY <1>1, NodeFacts, SimEventAssumption, FS_CardinalityType DEF TableInv, Small
<1>3. mCallbacks \in Seq(Globals) /\ IsInjective(mCallbacks)
  BY <1>1 DEF GlobalPasses
<1>4. /\ mECFreeList \in 0 .. n /\ mEventCallbackLists \in [Events -> 0 .. n]
      /\ \A i \in DOMAIN mEventCallbackTable : mEventCallbackTable[i].next \in 0 .. n
  BY <1>1, LinksStayInTable
<1>5. \A i \in DOMAIN mEventCallbackTable :
          mEventCallbackTable[i] \in Nodes /\ mEventCallbackTable[i].id.index = i
  BY <1>1, NodeFacts
<1> HIDE DEF n, most
<1>6. ASSUME NEW i \in DOMAIN mEventCallbackTable
      PROVE  /\ mEventCallbackTable[i].next \in 0 .. most /\ mEventCallbackTable[i].id \in Ids
             /\ mEventCallbackTable[i] \in [next : 0 .. most, id : Ids, fn : Clients \union {Null}]
  <2> DEFINE node == mEventCallbackTable[i]
  <2>1. node \in Nodes /\ node.id.index = i /\ node.next \in 0 .. n
    BY <1>4, <1>5
  <2> HIDE DEF node
  <2>2. i \in 0 .. most /\ node.next \in 0 .. most
    BY <1>2, <2>1
  <2> DEFINE id == node.id
  <2>3. id \in [generation : 0 .. Generations - 1, event : Events \union {0}, index : Nat]
    BY <2>1 DEF Nodes
  <2>4. id.index \in 0 .. most
    BY <2>1, <2>2
  <2> HIDE DEF id
  <2>5. id \in Ids
    BY <2>3, <2>4 DEF Ids, most
  <2>6. node \in [next : 0 .. most, id : Ids, fn : Clients \union {Null}]
    BY <2>1, <2>2, <2>5 DEF Nodes, id
  <2> QED BY <2>2, <2>5, <2>6 DEF node, id
<1>7. ids \in [Clients -> Ids]
  <2>1. ids = [c \in Clients |-> ids[c]] /\ IdsNameTheirOwner
    BY <1>1 DEF TableInv, Owned
  <2>2. ASSUME NEW c \in Clients PROVE ids[c] \in Ids
    <3>1. CASE ids[c] = NoId
      <4>1. 0 \in 0 .. Generations - 1 /\ 0 \in 0 .. most
        BY <1>2, SimEventAssumption
      <4> DEFINE none == 0
      <4>2. none \in 0 .. Generations - 1 /\ none \in 0 .. most /\ none \in Events \union {0}
        BY <4>1
      <4>3. ids[c] = [generation |-> none, event |-> none, index |-> none]
        BY <3>1 DEF NoId
      <4> HIDE DEF none
      <4> QED BY <4>2, <4>3 DEF Ids, most
    <3>2. CASE ids[c] # NoId
      <4>1. /\ ids[c].index \in DOMAIN mEventCallbackTable
            /\ mEventCallbackTable[ids[c].index].id = ids[c]
        BY <2>1, <3>2 DEF IdsNameTheirOwner
      <4> QED BY <1>6, <4>1
    <3> QED BY <3>1, <3>2
  <2> QED BY <2>1, <2>2
<1>8. ASSUME NEW p \in DOMAIN passes
      PROVE  /\ passes[p].event \in Events /\ passes[p].calling \in BOOLEAN
             /\ passes[p].globalIdx \in 0 .. Cardinality(Globals)
             /\ passes[p].globalSize \in 0 .. Cardinality(Globals)
             /\ passes[p].eventIdx \in 0 .. n
  <2>1. passes[p] \in Passes
    BY <1>1 DEF Typed
  <2>2. EventPass(passes[p]) /\ GlobalPass(mCallbacks, passes[p])
    BY <1>1 DEF EventPasses, GlobalPasses
  <2> DEFINE pass == passes[p]
  <2>3. pass \in Passes /\ EventPass(pass) /\ GlobalPass(mCallbacks, pass)
    BY <2>1, <2>2
  <2> HIDE DEF pass
  <2>4. /\ pass.event \in Events /\ pass.calling \in BOOLEAN
        /\ pass.globalIdx \in Nat /\ pass.globalSize \in Nat
    BY <2>3 DEF Passes
  <2>5. /\ Len(mCallbacks) \in Nat /\ Cardinality(Globals) \in Nat
        /\ Len(mCallbacks) <= Cardinality(Globals)
    BY <1>3, CallbacksAreFew
  <2>6. pass.globalIdx <= Cardinality(Globals) /\ pass.globalSize <= Len(mCallbacks)
    BY <2>3 DEF GlobalPass
  <2>7. pass.eventIdx = 0 \/ pass.eventIdx \in 1 .. n
    BY <1>2, <2>3, PathFacts DEF EventPass
  <2>8. pass.eventIdx \in 0 .. n
    BY <1>2, <2>7
  <2>9. pass.globalIdx \in 0 .. Cardinality(Globals) /\ pass.globalSize \in 0 .. Cardinality(Globals)
    BY <2>4, <2>5, <2>6
  <2> QED BY <2>4, <2>8, <2>9 DEF pass
<1>9. Len(passes) <= MaxDepth
  BY <1>1 DEF Typed
<1>10. \A i \in DOMAIN mEventCallbackTable :
           mEventCallbackTable[i] \in [next : 0 .. most, id : Ids, fn : Clients \union {Null}]
  BY <1>6
<1> QED BY <1>2, <1>3, <1>4, <1>7, <1>8, <1>9, <1>10 DEF TypeOK, n, most

LEMMA InvSharesTable == Inv => ListsShareTable
<1> SUFFICES ASSUME Inv PROVE ListsShareTable
  OBVIOUS
<1>1. TableInv
  BY DEF Inv, EventInv
<1> DEFINE On(ev) == Chain(mEventCallbackLists[ev])
           free == Chain(mECFreeList)
<1>2. ASSUME NEW i \in DOMAIN mEventCallbackTable
      PROVE  LET onFree == Contains(free, i)
                 on == {ev \in Events : Contains(On(ev), i)}
                 node == mEventCallbackTable[i]
             IN IF node.fn = Null THEN onFree /\ on = {} /\ node.id.event = 0
                ELSE ~ onFree /\ on = {node.id.event}
  <2>1. /\ Contains(free, i) <=> ~ Live(i)
        /\ \A ev \in Events :
              Contains(On(ev), i) <=> Live(i) /\ mEventCallbackTable[i].id.event = ev
        /\ mEventCallbackTable[i].id.event = 0 <=> ~ Live(i)
    BY <1>1 DEF TableInv, Placed
  <2>2. Live(i) => mEventCallbackTable[i].id.event \in Events
    BY <1>1, NodeFacts
  <2> HIDE DEF On, free
  <2>3. Live(i) <=> mEventCallbackTable[i].fn # Null
    BY DEF Live
  <2> HIDE DEF Live
  <2> QED BY <2>1, <2>2, <2>3
<1>3. ASSUME NEW i \in {mECFreeList} \union {mEventCallbackLists[ev] : ev \in Events}
      PROVE  IsInjective(Chain(i))
  <2>1. IsPath(mEventCallbackTable, i, Chain(i))
    BY <1>1 DEF TableInv, Linked
  <2> QED BY <2>1 DEF IsPath
<1> QED BY <1>2, <1>3 DEF ListsShareTable

LEMMA InvKeepsEventPasses == Inv => EventPassesOnTrack
<1> SUFFICES ASSUME Inv PROVE EventPassesOnTrack
  OBVIOUS
<1>1. TableInv /\ \A p \in DOMAIN passes : EventPass(passes[p])
  BY DEF Inv, EventInv, EventPasses
<1>2. ASSUME NEW p \in DOMAIN passes PROVE Chain(passes[p].eventIdx) = passes[p].eventTodo
  BY <1>1, NodeFacts, ChainOfPath DEF EventPass
<1> QED BY <1>2 DEF EventPassesOnTrack

\* Every state of the event manager has the type TypeOK says: ids, links and
\* positions stay within the table and the vector, which grow no larger than there
\* are clients and global callbacks (AddEventCallback reuses free nodes).
THEOREM TypeCorrect == Spec => []TypeOK
<1>1. Inv => TypeOK
  BY InvIsTyped
<1> QED BY <1>1, AlwaysFine, PTL

\* The free list and the lists of the events always share out the table, whatever
\* AddEventCallback and RemoveEventCallback are called in callbacks.
THEOREM TableIsShared == Spec => []ListsShareTable
<1>1. Inv => ListsShareTable
  BY InvSharesTable
<1> QED BY <1>1, AlwaysFine, PTL

\* The id a client holds always names its own live registration, so that
\* RemoveEventCallback never fails and never removes another client's.
THEOREM IdsStayValid == Spec => []IdsNameTheirOwner
<1>1. Inv => IdsNameTheirOwner
  BY DEF Inv, EventInv, TableInv, Owned
<1> QED BY <1>1, AlwaysFine, PTL

\* The iterator of every NotifyEvent under way, however deep, has ahead of it on the
\* list of its event what was there when it began, less what it called and what
\* RemoveEventCallback took away.
THEOREM EventPassesStayOnTrack == Spec => []EventPassesOnTrack
<1>1. Inv => EventPassesOnTrack
  BY InvKeepsEventPasses
<1> QED BY <1>1, AlwaysFine, PTL

\* So has it of the global callbacks, if none is removed that a pass under way has
\* already called: RemoveCallback leaves the positions of the passes alone.
THEOREM GlobalPassesStayOnTrack == ~ RemoveBehind /\ Spec => []GlobalPassesOnTrack
<1> SUFFICES ASSUME ~ RemoveBehind PROVE Spec => []GlobalPassesOnTrack
  OBVIOUS
<1>1. Inv => GlobalPassesOnTrack
  BY DEF Inv, GlobalPasses, GlobalPass, GlobalPassesOnTrack
<1> QED BY <1>1, AlwaysFine, PTL
=============================================================================
