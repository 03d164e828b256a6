------------------------ MODULE DeferredEventsProofs ------------------------
(***************************************************************************)
(* That the queue of deferred events agrees with the flags of the events    *)
(* and a flush only calls into events that live, for any number of events.  *)
(* Each operation on the list has a lemma: which events wait afterwards.    *)
(***************************************************************************)
EXTENDS DeferredEvents, FiniteSetTheorems, SequenceTheorems, NaturalsInduction, WellFoundedInduction, TLAPS

Size == Cardinality(Events)

\* Where a list holds what still waits, and the events that do.
WaitAt(list) == list.firstValid + 1 .. Len(list.items)
WaitingEvents(list) == {list.items[i][1] : i \in WaitAt(list)}

\* No event waits twice.
Distinct(list) ==
    \A i, j \in WaitAt(list) : list.items[i][1] = list.items[j][1] => i = j

\* The only pass reads the first entry that waits; it is no longer than the number
\* of events, since it began when nothing else was in the vector.
PassShape(p, list) ==
    /\ DOMAIN p = {"index", "length", "calling", "todo"}
    /\ p.index = list.firstValid
    /\ p.length \in list.firstValid .. Len(list.items) /\ p.length <= Size
ListShape(list) ==
    /\ DOMAIN list = {"items", "firstValid", "passes", "asserts"}
    /\ list.items \in Seq(Events \X Tags)
    /\ list.firstValid \in 0 .. Len(list.items)
    /\ list.asserts = TRUE
    /\ \/ list.passes = <<>> /\ list.firstValid = 0
       \/ \E p : list.passes = <<p>> /\ PassShape(p, list)
Ordered(list) == ListShape(list) /\ Distinct(list)

\* The queue against the events: what waits is attached and asked for, or is left over
\* from the teardown; what is attached and asked for waits.
Agree(waiting, alive, flags, down) ==
    /\ \A e \in waiting : \/ alive[e] = "attached" /\ flags[e] = TRUE
                          \/ alive[e] \in {"shutdown", "destroyed"} /\ down = TRUE
    /\ \A e \in Events : alive[e] = "attached" /\ flags[e] = TRUE => e \in waiting
    /\ \A e \in Events : alive[e] = "shutdown" => down = TRUE

Scalars ==
    /\ mbDeferredNotifyPending \in [Events -> BOOLEAN]
    /\ life \in [Events -> {"new", "attached", "shutdown", "destroyed"}]
    /\ notifying \in Events \union {Null}
    /\ teardown \in BOOLEAN

\* The inductive invariant.
QueueInv ==
    /\ Scalars
    /\ Ordered(mPendingEvents)
    /\ Agree(WaitingEvents(mPendingEvents), life, mbDeferredNotifyPending, teardown)
    /\ teardown => mPendingEvents.passes = <<>>

-----------------------------------------------------------------------------
(* Numbers and sequences.                                                    *)

LEMMA SizeType == Size \in Nat /\ IsFiniteSet(Events)
  BY EventsAssumption, FS_CardinalityType DEF Size

LEMMA LeastNatural ==
    ASSUME NEW S, S \subseteq Nat, S # {}
    PROVE  \E n \in S : \A m \in S : n <= m
<1>1. PICK n \in S : \A m \in S : ~ (<<m, n>> \in OpToRel(<, Nat))
  BY NatLessThanWellFounded, WFMin, Zenon
<1>2. ASSUME NEW m \in S PROVE ~ (m < n)
  BY <1>1, Zenon DEF OpToRel
<1>3. \A m \in S : n <= m
  BY <1>2
<1> QED BY <1>3

LEMMA AppendFacts ==
    ASSUME NEW T, NEW s \in Seq(T), NEW x \in T
    PROVE  /\ Append(s, x) \in Seq(T) /\ Len(Append(s, x)) = Len(s) + 1
           /\ Append(s, x)[Len(s) + 1] = x
           /\ \A i \in 1 .. Len(s) : Append(s, x)[i] = s[i]
  OBVIOUS

LEMMA SuffixFacts ==
    ASSUME NEW T, NEW s \in Seq(T), NEW n \in 0 .. Len(s)
    PROVE  /\ SubSeq(s, n + 1, Len(s)) \in Seq(T) /\ Len(SubSeq(s, n + 1, Len(s))) = Len(s) - n
           /\ \A i \in 1 .. Len(s) - n : SubSeq(s, n + 1, Len(s))[i] = s[n + i]
<1>1. Len(s) \in Nat /\ n \in Nat
  OBVIOUS
<1>2. SubSeq(s, n + 1, Len(s)) \in Seq(T) /\ Len(SubSeq(s, n + 1, Len(s))) = Len(s) - n
  BY <1>1
<1>3. \A i \in 1 .. Len(s) - n : SubSeq(s, n + 1, Len(s))[i] = s[n + i]
  BY <1>1, <1>2
<1> QED BY <1>2, <1>3

LEMMA RemoveAtFacts ==
    ASSUME NEW T, NEW s \in Seq(T), NEW i \in 1 .. Len(s)
    PROVE  /\ RemoveAt(s, i) \in Seq(T) /\ Len(RemoveAt(s, i)) = Len(s) - 1
           /\ \A j \in 1 .. Len(s) - 1 :
                 RemoveAt(s, i)[j] = IF j < i THEN s[j] ELSE s[j + 1]
<1>0. Len(s) \in Nat /\ i \in Nat /\ i <= Len(s) /\ i >= 1
  OBVIOUS
<1> DEFINE a == SubSeq(s, 1, i - 1)
           b == SubSeq(s, i + 1, Len(s))
<1>1. a \in Seq(T) /\ Len(a) = i - 1 /\ \A j \in 1 .. i - 1 : a[j] = s[j]
  OBVIOUS
<1>2. b \in Seq(T) /\ Len(b) = Len(s) - i /\ \A j \in 1 .. Len(s) - i : b[j] = s[i + j]
  OBVIOUS
<1>3. RemoveAt(s, i) = a \o b
  BY DEF RemoveAt
<1> HIDE DEF a, b
<1>4. a \o b \in Seq(T) /\ Len(a \o b) = Len(s) - 1
  <2> HIDE DEF a, b
  <2>1. a \in Seq(T) /\ b \in Seq(T)
    BY <1>1, <1>2
  <2>2. a \o b \in Seq(T) /\ Len(a \o b) = Len(a) + Len(b)
    BY <2>1
  <2> QED BY <1>0, <1>1, <1>2, <2>2
<1>5. ASSUME NEW j \in 1 .. Len(s) - 1 PROVE (a \o b)[j] = IF j < i THEN s[j] ELSE s[j + 1]
  <2>1. CASE j < i
    BY <1>1, <1>2, <2>1
  <2>2. CASE j >= i
    <3>1. (a \o b)[j] = b[j - (i - 1)] /\ j - (i - 1) \in 1 .. Len(s) - i
      BY <1>1, <1>2, <2>2
    <3> QED BY <1>2, <2>2, <3>1
  <2>3. j < i \/ j >= i
    BY <1>0
  <2> QED BY <2>1, <2>2, <2>3
<1> QED BY <1>3, <1>4, <1>5

\* As many entries wait as there are events, at most.
LEMMA WaitingBound ==
    ASSUME NEW T, NEW list, list.items \in Seq(Events \X T),
           list.firstValid \in 0 .. Len(list.items), Distinct(list)
    PROVE  Len(list.items) - list.firstValid <= Size
<1> DEFINE f == [i \in WaitAt(list) |-> list.items[i][1]]
<1>1. ASSUME NEW i \in WaitAt(list) PROVE list.items[i][1] \in Events
  <2>1. i \in 1 .. Len(list.items)
    BY DEF WaitAt
  <2>2. list.items[i] \in Events \X T
    BY <2>1
  <2> QED BY <2>2
<1>2. f \in Injection(WaitAt(list), Events)
  BY <1>1 DEF Distinct, Injection, IsInjective
<1>3. Cardinality(WaitAt(list)) <= Size
  BY <1>2, SizeType, FS_Injection DEF Size
<1>4. Cardinality(WaitAt(list)) = Len(list.items) - list.firstValid
  <2>1. list.firstValid + 1 \in Int /\ Len(list.items) \in Int
    OBVIOUS
  <2>2. Cardinality(list.firstValid + 1 .. Len(list.items)) =
            IF list.firstValid + 1 > Len(list.items)
            THEN 0 ELSE Len(list.items) - (list.firstValid + 1) + 1
    BY <2>1, FS_Interval
  <2> QED BY <2>2 DEF WaitAt
<1> QED BY <1>3, <1>4

\* What waits is an event, and waits in one place.
LEMMA WaitingFacts ==
    ASSUME NEW list, ListShape(list)
    PROVE  /\ WaitAt(list) \subseteq DOMAIN list.items /\ DOMAIN list.items = 1 .. Len(list.items)
           /\ Len(list.items) \in Nat /\ list.firstValid \in Nat
           /\ \A i \in DOMAIN list.items : list.items[i] \in Events \X Tags
           /\ WaitingEvents(list) \subseteq Events
<1>1. /\ WaitAt(list) \subseteq DOMAIN list.items /\ DOMAIN list.items = 1 .. Len(list.items)
      /\ Len(list.items) \in Nat /\ list.firstValid \in Nat
  BY DEF ListShape, WaitAt
<1>2. \A i \in DOMAIN list.items : list.items[i] \in Events \X Tags
  BY DEF ListShape
<1>3. WaitingEvents(list) \subseteq Events
  BY <1>1, <1>2 DEF WaitingEvents
<1> QED BY <1>1, <1>2, <1>3

-----------------------------------------------------------------------------
(* The operations on the list.                                               *)

\* There is room for the tag of a request: what is dead and what waits together are
\* no more than twice the events.
LEMMA AddKeepsOrder ==
    ASSUME NEW e \in Events, Ordered(mPendingEvents), e \notin WaitingEvents(mPendingEvents)
    PROVE  LET new == ListAdd(mPendingEvents, <<e, FreshTag>>)
           IN  /\ Ordered(new) /\ WaitingEvents(new) = WaitingEvents(mPendingEvents) \union {e}
               /\ new.passes = mPendingEvents.passes
               /\ new.items = Append(mPendingEvents.items, <<e, FreshTag>>)
               /\ new.firstValid = mPendingEvents.firstValid
<1> DEFINE list == mPendingEvents
           n == Len(list.items)
           new == ListAdd(list, <<e, FreshTag>>)
           T == Tags \union {FreshTag}
<1>1. /\ list.items \in Seq(Events \X T) /\ n \in Nat /\ list.firstValid \in 0 .. n
      /\ \A i \in 1 .. n : list.items[i] \in Events \X Tags
  <2>1. /\ list.items \in Seq(Events \X Tags) /\ list.firstValid \in 0 .. n
    BY DEF Ordered, ListShape
  <2>2. Events \X Tags \subseteq Events \X T
    OBVIOUS
  <2> HIDE DEF T
  <2> QED BY <2>1, <2>2
<1>2. /\ new.items = Append(list.items, <<e, FreshTag>>) /\ new.firstValid = list.firstValid
      /\ new.passes = list.passes /\ new.asserts = list.asserts
      /\ DOMAIN new = DOMAIN list
  BY DEF ListAdd, Ordered, ListShape
<1>3. /\ new.items \in Seq(Events \X T) /\ Len(new.items) = n + 1
      /\ new.items[n + 1] = <<e, FreshTag>> /\ \A i \in 1 .. n : new.items[i] = list.items[i]
  <2> DEFINE x == <<e, FreshTag>>
  <2>1. x \in Events \X T
    OBVIOUS
  <2>2. new.items = Append(list.items, x)
    BY <1>2
  <2> HIDE DEF T, x, new
  <2>3. /\ Append(list.items, x) \in Seq(Events \X T) /\ Len(Append(list.items, x)) = n + 1
        /\ Append(list.items, x)[n + 1] = x
        /\ \A i \in 1 .. n : Append(list.items, x)[i] = list.items[i]
    BY <1>1, <2>1, AppendFacts
  <2> QED BY <2>2, <2>3 DEF x
<1>4. WaitAt(new) = WaitAt(list) \union {n + 1} /\ n + 1 \notin WaitAt(list)
  BY <1>1, <1>2, <1>3 DEF WaitAt
<1>5. \A i \in WaitAt(list) : new.items[i] = list.items[i] /\ list.items[i][1] # e
  BY <1>1, <1>3 DEF WaitAt, WaitingEvents
<1> HIDE DEF new, n, list
<1>6. Distinct(new)
  <2>1. Distinct(list)
    BY DEF Ordered, list
  <2> QED BY <1>3, <1>4, <1>5, <2>1 DEF Distinct
<1>7. WaitingEvents(new) = WaitingEvents(list) \union {e}
  BY <1>3, <1>4, <1>5 DEF WaitingEvents
<1>8. n + 1 - list.firstValid <= Size
  <2>1. list.firstValid \in 0 .. Len(new.items)
    BY <1>1, <1>3
  <2> HIDE DEF T
  <2>2. new.items \in Seq(Events \X T) /\ new.firstValid \in 0 .. Len(new.items)
    BY <1>2, <1>3, <2>1
  <2>3. Len(new.items) - new.firstValid <= Size
    BY <1>6, <2>2, WaitingBound
  <2> QED BY <1>1, <1>2, <1>3, <2>3, SizeType
<1>9. n < 2 * Size
  <2>1. list.firstValid <= Size
    BY <1>1, SizeType DEF Ordered, ListShape, PassShape, list
  <2> QED BY <1>1, <1>8, <2>1, SizeType
<1>10. FreshTag \in Tags
  <2>1. UsedTags = {list.items[i][2] : i \in 1 .. n} /\ IsFiniteSet(1 .. n) /\ Cardinality(1 .. n) = n
    <3>1. IsFiniteSet(1 .. n) /\ Cardinality(1 .. n) = IF 1 > n THEN 0 ELSE n - 1 + 1
      BY <1>1, FS_Interval
    <3>2. DOMAIN list.items = 1 .. n
      BY <1>1 DEF n
    <3> QED BY <1>1, <3>1, <3>2 DEF UsedTags, list
  <2>2. IsFiniteSet(UsedTags) /\ Cardinality(UsedTags) <= n
    <3> DEFINE f == [i \in 1 .. n |-> list.items[i][2]]
    <3>1. f \in Surjection(1 .. n, UsedTags)
      BY <2>1 DEF Surjection
    <3> HIDE DEF f
    <3> QED BY <2>1, <3>1, FS_Surjection
  <2>3. Tags = 1 .. 2 * Size /\ IsFiniteSet(Tags) /\ Cardinality(Tags) = 2 * Size
    <3>1. 2 * Size \in Nat
      BY SizeType
    <3>2. IsFiniteSet(1 .. 2 * Size) /\ Cardinality(1 .. 2 * Size) = IF 1 > 2 * Size THEN 0 ELSE 2 * Size - 1 + 1
      BY <3>1, FS_Interval
    <3> QED BY <3>1, <3>2 DEF Tags, Size
  <2>4. Tags \ UsedTags # {}
    <3>1. ASSUME Tags \subseteq UsedTags PROVE FALSE
      <4>1. Cardinality(Tags) <= Cardinality(UsedTags)
        BY <2>2, <3>1, FS_Subset
      <4>2. Cardinality(UsedTags) \in Nat
        BY <2>2, FS_CardinalityType
      <4> QED BY <1>1, <1>9, <2>2, <2>3, <4>1, <4>2, SizeType
    <3> QED BY <3>1
  <2>5. \E t \in Tags \ UsedTags : \A u \in Tags \ UsedTags : t <= u
    <3>1. Tags \ UsedTags \subseteq Nat
      BY <2>3
    <3> QED BY <2>4, <3>1, LeastNatural
  <2> QED BY <2>5 DEF FreshTag
<1>11. new.items \in Seq(Events \X Tags)
  <2>1. T = Tags
    BY <1>10
  <2> QED BY <1>3, <2>1
<1>12. ListShape(new)
  <2>1. ListShape(list)
    BY DEF Ordered, list
  <2> QED BY <1>1, <1>2, <1>3, <1>11, <2>1 DEF ListShape, PassShape
<1> QED BY <1>2, <1>6, <1>7, <1>12 DEF Ordered, new, list

\* An event that waits is taken out.
LEMMA RemoveKeepsOrder ==
    ASSUME NEW list, Ordered(list), NEW e \in WaitingEvents(list),
           \A p \in DOMAIN list.passes : \A pos \in FoundAt(list, e) : pos < list.passes[p].length
    PROVE  LET new == ListRemove(list, e)
           IN  /\ Ordered(new) /\ WaitingEvents(new) = WaitingEvents(list) \ {e}
               /\ new.passes = <<>> <=> list.passes = <<>>
               /\ new.firstValid = list.firstValid
               /\ \E pos \in list.firstValid .. Len(list.items) - 1 :
                     list.items[pos + 1][1] = e /\ new.items = RemoveAt(list.items, pos + 1)
<1> DEFINE n == Len(list.items)
           new == ListRemove(list, e)
<1>1. /\ ListShape(list) /\ Distinct(list) /\ n \in Nat /\ list.firstValid \in 0 .. n
      /\ list.items \in Seq(Events \X Tags)
  BY DEF Ordered, ListShape
<1>2. PICK pos \in list.firstValid .. n - 1 : FoundAt(list, e) = {pos} /\ list.items[pos + 1][1] = e
  <2>1. PICK i \in WaitAt(list) : list.items[i][1] = e
    BY DEF WaitingEvents
  <2>2. i - 1 \in list.firstValid .. n - 1 /\ list.items[(i - 1) + 1][1] = e /\ (i - 1) + 1 = i
    BY <1>1, <2>1 DEF WaitAt
  <2>3. ASSUME NEW q \in list.firstValid .. n - 1, list.items[q + 1][1] = e PROVE q = i - 1
    <3>1. q + 1 \in WaitAt(list)
      BY <1>1 DEF WaitAt
    <3>2. q + 1 = i
      BY <1>1, <2>1, <2>3, <3>1 DEF Distinct
    <3> QED BY <1>1, <3>2
  <2>4. i - 1 \in FoundAt(list, e)
    <3>1. ASSUME NEW q \in list.firstValid .. (i - 1) - 1 PROVE list.items[q + 1][1] # e
      <4>1. q \in list.firstValid .. n - 1 /\ q # i - 1
        BY <1>1, <2>2
      <4> QED BY <2>3, <4>1
    <3> QED BY <2>2, <3>1 DEF FoundAt
  <2>5. FoundAt(list, e) = {i - 1}
    BY <2>3, <2>4 DEF FoundAt
  <2> QED BY <2>2, <2>5
<1> DEFINE adjusted == AdjustForRemove(list, pos)
<1>3. new = [adjusted EXCEPT !.items = RemoveAt(@, pos + 1)]
  <2>1. FoundAt(list, e) # {} /\ (CHOOSE q \in FoundAt(list, e) : TRUE) = pos
    BY <1>2
  <2> QED BY <2>1 DEF ListRemove
<1> DEFINE held == list.asserts /\ \A p \in DOMAIN list.passes : list.passes[p].length > 0
           moved == [p \in DOMAIN list.passes |->
                        PassWithout(list.passes[p], pos, list.items[pos + 1])]
<1>4. /\ DOMAIN adjusted = DOMAIN list /\ adjusted.items = list.items
      /\ adjusted.firstValid = list.firstValid
      /\ adjusted.asserts = held /\ adjusted.passes = moved
  <2>1. adjusted = [list EXCEPT !.asserts = held, !.passes = moved]
    BY DEF AdjustForRemove
  <2> HIDE DEF adjusted, held, moved
  <2> QED BY <1>1, <2>1 DEF ListShape
<1> HIDE DEF adjusted
<1>5. /\ DOMAIN new = DOMAIN list /\ new.items = RemoveAt(list.items, pos + 1)
      /\ new.firstValid = list.firstValid /\ new.asserts = adjusted.asserts
      /\ new.passes = adjusted.passes
  BY <1>1, <1>3, <1>4 DEF ListShape
<1> HIDE DEF new
<1>6. /\ new.items \in Seq(Events \X Tags) /\ Len(new.items) = n - 1
      /\ \A j \in 1 .. n - 1 : new.items[j] = IF j < pos + 1 THEN list.items[j] ELSE list.items[j + 1]
  <2>1. pos + 1 \in 1 .. n
    BY <1>1
  <2> DEFINE s == list.items
             k == pos + 1
             T == Events \X Tags
  <2>2. s \in Seq(T) /\ k \in 1 .. Len(s) /\ Len(s) = n
    BY <1>1, <2>1
  <2> HIDE DEF s, k, T
  <2>3. /\ RemoveAt(s, k) \in Seq(T) /\ Len(RemoveAt(s, k)) = Len(s) - 1
        /\ \A j \in 1 .. Len(s) - 1 : RemoveAt(s, k)[j] = IF j < k THEN s[j] ELSE s[j + 1]
    BY <2>2, RemoveAtFacts
  <2> QED BY <1>5, <2>2, <2>3 DEF s, k, T
\* Where an entry was.
<1> DEFINE Old(j) == IF j < pos + 1 THEN j ELSE j + 1
<1>7. ASSUME NEW j \in WaitAt(new)
      PROVE  Old(j) \in WaitAt(list) /\ Old(j) # pos + 1 /\ new.items[j] = list.items[Old(j)]
  <2>1. j \in list.firstValid + 1 .. n - 1 /\ j \in 1 .. n - 1
    BY <1>1, <1>5, <1>6 DEF WaitAt
  <2>2. Old(j) \in WaitAt(list) /\ Old(j) # pos + 1
    BY <1>1, <2>1 DEF WaitAt
  <2> QED BY <1>6, <2>1, <2>2
<1>8. Distinct(new)
  <2>1. ASSUME NEW i \in WaitAt(new), NEW j \in WaitAt(new), new.items[i][1] = new.items[j][1]
        PROVE  i = j
    <3>1. Old(i) = Old(j)
      <4> HIDE DEF Old
      <4> QED BY <1>1, <1>7, <2>1 DEF Distinct
    <3>2. i \in Int /\ j \in Int
      BY <1>1, <1>5, <1>6 DEF WaitAt
    <3> QED BY <3>1, <3>2
  <2> QED BY <2>1 DEF Distinct
<1>9. WaitingEvents(new) = WaitingEvents(list) \ {e}
  <2>1. ASSUME NEW j \in WaitAt(new) PROVE new.items[j][1] \in WaitingEvents(list) \ {e}
    <3>1. pos + 1 \in WaitAt(list)
      BY <1>1 DEF WaitAt
    <3> HIDE DEF Old
    <3>2. list.items[Old(j)][1] # e
      BY <1>1, <1>2, <1>7, <3>1 DEF Distinct
    <3> QED BY <1>7, <3>2 DEF WaitingEvents
  <2>2. ASSUME NEW i \in WaitAt(list), list.items[i][1] # e
        PROVE  \E j \in WaitAt(new) : new.items[j] = list.items[i]
    <3>1. i # pos + 1
      BY <1>2, <2>2
    <3>2. CASE i < pos + 1
      <4>1. i \in WaitAt(new) /\ i \in 1 .. n - 1
        BY <1>1, <1>5, <1>6, <3>2 DEF WaitAt
      <4> QED BY <1>6, <3>2, <4>1
    <3>3. CASE i > pos + 1
      <4>1. i - 1 \in WaitAt(new) /\ i - 1 \in 1 .. n - 1 /\ ~ (i - 1 < pos + 1) /\ (i - 1) + 1 = i
        BY <1>1, <1>5, <1>6, <3>3 DEF WaitAt
      <4> QED BY <1>6, <4>1
    <3>4. i \in Int /\ pos \in Int
      BY <1>1 DEF WaitAt
    <3> QED BY <3>1, <3>2, <3>3, <3>4
  <2> QED BY <2>1, <2>2 DEF WaitingEvents
<1>10. ListShape(new) /\ (new.passes = <<>> <=> list.passes = <<>>)
  <2>1. CASE list.passes = <<>>
    <3>1. new.passes = <<>> /\ list.firstValid = 0 /\ new.asserts = TRUE
      <4>1. DOMAIN list.passes = {} /\ \A p : list.passes # <<p>>
        BY <2>1
      <4>2. moved = <<>> /\ held
        BY <1>1, <4>1 DEF ListShape
      <4> QED BY <1>1, <1>4, <1>5, <4>1, <4>2 DEF ListShape
    <3> QED BY <1>1, <1>5, <1>6, <2>1, <3>1 DEF ListShape
  <2>2. ASSUME NEW p, list.passes = <<p>>, PassShape(p, list)
        PROVE  ListShape(new) /\ new.passes # <<>> /\ list.passes # <<>>
    <3> DEFINE q == PassWithout(p, pos, list.items[pos + 1])
    <3>1. DOMAIN list.passes = {1} /\ list.passes[1] = p
      BY <2>2
    <3>2. adjusted.passes = [i \in {1} |-> q]
      BY <1>4, <3>1
    <3>3. [i \in {1} |-> q] = <<q>>
      OBVIOUS
    <3>4. pos < p.length /\ p.index = list.firstValid /\ p.length \in Int /\ p.length <= Size
      BY <1>1, <1>2, <2>2, <3>1 DEF PassShape
    <3>5. DOMAIN q = DOMAIN p /\ q.length = p.length - 1 /\ q.index = p.index
      BY <1>1, <2>2, <3>4 DEF PassShape, PassWithout
    <3>6. new.asserts = TRUE
      <4>1. p.length > 0
        BY <1>1, <3>4
      <4> QED BY <1>1, <1>4, <1>5, <3>1, <4>1 DEF ListShape
    <3> HIDE DEF q
    <3>7. PassShape(q, new)
      BY <1>1, <1>5, <1>6, <2>2, <3>4, <3>5, SizeType DEF PassShape
    <3>8. list.firstValid \in 0 .. n - 1
      BY <1>1
    <3> QED BY <1>1, <1>5, <1>6, <2>2, <3>2, <3>3, <3>6, <3>7, <3>8 DEF ListShape
  <2> QED BY <1>1, <2>1, <2>2 DEF ListShape
<1> QED BY <1>2, <1>5, <1>8, <1>9, <1>10 DEF Ordered, new

\* A flush begins with the whole vector.
LEMMA BeginKeepsOrder ==
    ASSUME NEW list, Ordered(list), list.passes = <<>>
    PROVE  LET new == ListBeginNotifyAndClear(list)
           IN  /\ Ordered(new) /\ WaitingEvents(new) = WaitingEvents(list)
               /\ new.items = list.items /\ new.firstValid = list.firstValid
<1> DEFINE new == ListBeginNotifyAndClear(list)
           p == Pass(list, 0)
<1>1. /\ ListShape(list) /\ Distinct(list) /\ list.firstValid = 0
      /\ Len(list.items) \in Nat /\ list.items \in Seq(Events \X Tags)
  <2>1. \A q : list.passes # <<q>>
    OBVIOUS
  <2> QED BY <2>1 DEF Ordered, ListShape
<1>2. /\ DOMAIN p = {"index", "length", "calling", "todo"}
      /\ p.index = 0 /\ p.length = Len(list.items)
  BY DEF Pass
<1>3. Len(list.items) <= Size
  <2>1. list.firstValid \in 0 .. Len(list.items)
    BY <1>1
  <2>2. Len(list.items) - list.firstValid <= Size
    BY <1>1, <2>1, WaitingBound
  <2> QED BY <1>1, <2>2, SizeType
<1>4. /\ DOMAIN new = DOMAIN list /\ new.items = list.items /\ new.firstValid = list.firstValid
      /\ new.asserts = list.asserts /\ new.passes = <<p>>
  <2> HIDE DEF p
  <2>1. <<p>> \o <<>> = <<p>>
    OBVIOUS
  <2>2. new = [list EXCEPT !.passes = <<p>>]
    BY <2>1 DEF ListBeginNotifyAndClear, p
  <2> HIDE DEF new
  <2> QED BY <1>1, <2>2 DEF ListShape
<1> HIDE DEF new, p
<1>5. PassShape(p, new)
  BY <1>1, <1>2, <1>3, <1>4 DEF PassShape
<1>6. ListShape(new)
  BY <1>1, <1>4, <1>5 DEF ListShape
<1>7. WaitAt(new) = WaitAt(list)
  BY <1>4 DEF WaitAt
<1> QED BY <1>1, <1>4, <1>6, <1>7 DEF Ordered, Distinct, WaitingEvents, new

\* An entry that is read no longer waits.
LEMMA DeliverKeepsOrder ==
    ASSUME NEW list, Ordered(list), AtLoopHead(list), HasNext(list)
    PROVE  LET new == ListDeliverAndClear(list)
               e == NextEntry(list)[1]
           IN  /\ Ordered(new) /\ e \in WaitingEvents(list)
               /\ WaitingEvents(new) = WaitingEvents(list) \ {e}
               /\ new.items = list.items /\ new.firstValid = list.firstValid + 1
<1> DEFINE new == ListDeliverAndClear(list)
           entry == NextEntry(list)
           n == Len(list.items)
           at == list.firstValid
<1>1. /\ ListShape(list) /\ Distinct(list) /\ n \in Nat /\ at \in 0 .. n
      /\ list.items \in Seq(Events \X Tags)
  BY DEF Ordered, ListShape
<1>2. PICK p : list.passes = <<p>> /\ PassShape(p, list)
  BY <1>1 DEF AtLoopHead, ListShape
<1>3. /\ list.passes[1] = p /\ p.index = at /\ p.length \in at + 1 .. n /\ p.length <= Size
      /\ at + 1 \in 1 .. n /\ entry = list.items[at + 1]
  BY <1>1, <1>2 DEF HasNext, PassShape, NextEntry
<1> HIDE DEF entry
<1> DEFINE q == PassDelivered(p, entry)
           delivered == ListDeliver(list)
<1>4. DOMAIN q = DOMAIN p /\ q.index = at + 1 /\ q.length = p.length
  BY <1>2, <1>3 DEF PassDelivered, PassShape
<1> HIDE DEF q
<1>5. /\ DOMAIN delivered = DOMAIN list /\ delivered.items = list.items
      /\ delivered.firstValid = list.firstValid /\ delivered.asserts = list.asserts
      /\ delivered.passes = <<q>>
  <2>1. [list.passes EXCEPT ![1] = q] = <<q>>
    BY <1>2
  <2>2. delivered = [list EXCEPT !.passes = <<q>>]
    BY <1>3, <2>1 DEF ListDeliver, q, entry
  <2> HIDE DEF delivered
  <2> QED BY <1>1, <2>2 DEF ListShape
<1>6. /\ DOMAIN new = DOMAIN list /\ new.items = list.items /\ new.firstValid = at + 1
      /\ new.asserts = list.asserts /\ new.passes = <<q>>
  <2> HIDE DEF delivered
  <2>1. new = [delivered EXCEPT !.firstValid =
                  IF @ < delivered.passes[1].index THEN delivered.passes[1].index ELSE @]
    BY DEF ListDeliverAndClear, delivered
  <2>2. new = [delivered EXCEPT !.firstValid = at + 1]
    BY <1>1, <1>4, <1>5, <2>1
  <2> HIDE DEF new
  <2> QED BY <1>1, <1>5, <2>2 DEF ListShape
<1> HIDE DEF new, delivered
<1>7. WaitAt(list) = WaitAt(new) \union {at + 1} /\ at + 1 \notin WaitAt(new)
  BY <1>1, <1>3, <1>6 DEF WaitAt
<1>8. ListShape(new)
  <2>1. PassShape(q, new)
    BY <1>1, <1>2, <1>3, <1>4, <1>6 DEF PassShape
  <2> QED BY <1>1, <1>3, <1>6, <2>1 DEF ListShape
<1>9. Distinct(new)
  BY <1>1, <1>6, <1>7 DEF Distinct
<1>10. entry[1] \in WaitingEvents(list)
  BY <1>3, <1>7 DEF WaitingEvents
<1>11. WaitingEvents(new) = WaitingEvents(list) \ {entry[1]}
  <2>1. \A i \in WaitAt(new) : list.items[i][1] # entry[1]
    BY <1>1, <1>3, <1>7 DEF Distinct
  <2> QED BY <1>3, <1>6, <1>7, <2>1 DEF WaitingEvents
<1> QED BY <1>6, <1>8, <1>9, <1>10, <1>11 DEF Ordered, new, entry

LEMMA ReturnKeepsOrder ==
    ASSUME NEW list, Ordered(list), InCallback(list)
    PROVE  LET new == ListCallbackReturns(list)
           IN  /\ Ordered(new) /\ WaitingEvents(new) = WaitingEvents(list)
               /\ new.items = list.items /\ new.firstValid = list.firstValid
<1> DEFINE new == ListCallbackReturns(list)
<1>1. ListShape(list) /\ Distinct(list)
  BY DEF Ordered
<1>2. PICK p : list.passes = <<p>> /\ PassShape(p, list)
  BY <1>1 DEF InCallback, ListShape
<1> DEFINE q == [p EXCEPT !.calling = FALSE]
<1>3. DOMAIN q = DOMAIN p /\ q.index = p.index /\ q.length = p.length
  BY <1>2 DEF PassShape
<1> HIDE DEF q
<1>4. /\ DOMAIN new = DOMAIN list /\ new.items = list.items /\ new.firstValid = list.firstValid
      /\ new.asserts = list.asserts /\ new.passes = <<q>>
  <2>1. [list.passes EXCEPT ![1] = q] = <<q>> /\ list.passes[1] = p
    BY <1>2
  <2>2. new = [list EXCEPT !.passes = [list.passes EXCEPT ![1] = [list.passes[1] EXCEPT !.calling = FALSE]]]
    BY DEF ListCallbackReturns
  <2>3. new = [list EXCEPT !.passes = <<q>>]
    BY <2>1, <2>2 DEF q
  <2> HIDE DEF new
  <2> QED BY <1>1, <2>3 DEF ListShape
<1> HIDE DEF new
<1>5. PassShape(q, new)
  BY <1>2, <1>3, <1>4 DEF PassShape
<1>6. ListShape(new)
  BY <1>1, <1>4, <1>5 DEF ListShape
<1>7. WaitAt(new) = WaitAt(list)
  BY <1>4 DEF WaitAt
<1> QED BY <1>1, <1>4, <1>6, <1>7 DEF Ordered, Distinct, WaitingEvents, new

\* What was read is erased, what waits moves to the front.
LEMMA EndKeepsOrder ==
    ASSUME NEW list, Ordered(list), AtLoopHead(list)
    PROVE  LET new == ListEndPassAndClear(list)
           IN  /\ Ordered(new) /\ WaitingEvents(new) = WaitingEvents(list)
               /\ new.items = SubSeq(list.items, list.firstValid + 1, Len(list.items))
               /\ new.firstValid = 0
<1> DEFINE new == ListEndPassAndClear(list)
           n == list.firstValid
           rest == SubSeq(list.items, n + 1, Len(list.items))
<1>1. /\ ListShape(list) /\ Distinct(list) /\ Len(list.items) \in Nat /\ n \in 0 .. Len(list.items)
      /\ list.items \in Seq(Events \X Tags)
  BY DEF Ordered, ListShape
<1>2. PICK p : list.passes = <<p>>
  BY <1>1 DEF AtLoopHead, ListShape
<1>3. /\ rest \in Seq(Events \X Tags) /\ Len(rest) = Len(list.items) - n
      /\ \A i \in 1 .. Len(list.items) - n : rest[i] = list.items[n + i]
  <2> DEFINE s == list.items
             T == Events \X Tags
  <2>1. s \in Seq(T) /\ n \in 0 .. Len(s)
    BY <1>1
  <2> HIDE DEF s, T
  <2>2. /\ SubSeq(s, n + 1, Len(s)) \in Seq(T) /\ Len(SubSeq(s, n + 1, Len(s))) = Len(s) - n
        /\ \A i \in 1 .. Len(s) - n : SubSeq(s, n + 1, Len(s))[i] = s[n + i]
    BY <2>1, SuffixFacts
  <2> QED BY <2>2 DEF s, T
<1> HIDE DEF rest
<1>4. /\ DOMAIN new = DOMAIN list /\ new.items = rest /\ new.firstValid = 0
      /\ new.asserts = TRUE /\ new.passes = <<>>
  <2> DEFINE held == list.asserts /\ \A i \in 2 .. Len(list.passes) : list.passes[i].length >= n
             erased == [i \in 1 .. Len(list.passes) - 1 |-> PassAfterErase(list.passes[i + 1], n)]
  <2>1. new = [list EXCEPT !.items = rest, !.firstValid = 0, !.asserts = held, !.passes = erased]
    BY DEF ListEndPassAndClear, rest
  <2>2. Len(list.passes) = 1
    BY <1>2
  <2>3. 2 .. Len(list.passes) = {} /\ 1 .. Len(list.passes) - 1 = {}
    BY <2>2
  <2>4. held = TRUE /\ erased = <<>>
    BY <1>1, <2>3 DEF ListShape
  <2> HIDE DEF new, held, erased
  <2> QED BY <1>1, <2>1, <2>4 DEF ListShape
<1> HIDE DEF new
<1>5. ListShape(new)
  BY <1>1, <1>3, <1>4 DEF ListShape
<1>6. \A i \in WaitAt(new) : n + i \in WaitAt(list) /\ new.items[i] = list.items[n + i] /\ i \in Int
  BY <1>1, <1>3, <1>4 DEF WaitAt
<1>7. \A i \in WaitAt(list) : i - n \in WaitAt(new) /\ new.items[i - n] = list.items[i]
  <2>1. ASSUME NEW i \in WaitAt(list)
        PROVE  i - n \in WaitAt(new) /\ i - n \in 1 .. Len(list.items) - n /\ n + (i - n) = i
    BY <1>1, <1>3, <1>4 DEF WaitAt
  <2> QED BY <1>3, <1>4, <2>1
<1>8. Distinct(new)
  <2>1. ASSUME NEW i \in WaitAt(new), NEW j \in WaitAt(new), new.items[i][1] = new.items[j][1]
        PROVE  i = j
    <3>1. /\ n + i \in WaitAt(list) /\ n + j \in WaitAt(list)
          /\ list.items[n + i][1] = list.items[n + j][1]
      BY <1>6, <2>1
    <3>2. n + i = n + j
      BY <1>1, <3>1 DEF Distinct
    <3>3. i \in Int /\ j \in Int /\ n \in Int
      BY <1>1, <1>6
    <3> QED BY <3>2, <3>3
  <2> QED BY <2>1 DEF Distinct
<1>9. WaitingEvents(new) = WaitingEvents(list)
  <2>1. WaitingEvents(new) \subseteq WaitingEvents(list)
    BY <1>6 DEF WaitingEvents
  <2>2. WaitingEvents(list) \subseteq WaitingEvents(new)
    BY <1>7 DEF WaitingEvents
  <2> QED BY <2>1, <2>2
<1> QED BY <1>4, <1>5, <1>8, <1>9 DEF Ordered, new, rest

-----------------------------------------------------------------------------
(* The list as a queue of requests.                                          *)

Line(list) == [i \in 1 .. Len(list.items) - list.firstValid |-> list.items[list.firstValid + i][1]]

LEMMA LineFacts ==
    ASSUME NEW list, ListShape(list)
    PROVE  /\ Line(list) \in Seq(Events) /\ Len(Line(list)) = Len(list.items) - list.firstValid
           /\ Len(list.items) \in Nat /\ list.firstValid \in 0 .. Len(list.items)
           /\ \A i \in 1 .. Len(Line(list)) :
                 /\ Line(list)[i] = list.items[list.firstValid + i][1]
                 /\ list.firstValid + i \in WaitAt(list)
<1> DEFINE n == Len(list.items) - list.firstValid
<1>1. /\ Len(list.items) \in Nat /\ list.firstValid \in 0 .. Len(list.items)
      /\ list.items \in Seq(Events \X Tags) /\ n \in Nat
  BY DEF ListShape
<1>2. ASSUME NEW i \in 1 .. n
      PROVE  list.firstValid + i \in WaitAt(list) /\ list.items[list.firstValid + i][1] \in Events
  <2>1. list.firstValid + i \in WaitAt(list) /\ list.firstValid + i \in 1 .. Len(list.items)
    BY <1>1 DEF WaitAt
  <2>2. list.items[list.firstValid + i] \in Events \X Tags
    BY <1>1, <2>1
  <2> QED BY <2>1, <2>2
<1>3. Line(list) = [i \in 1 .. n |-> list.items[list.firstValid + i][1]]
  BY DEF Line
<1> HIDE DEF n
<1>4. Line(list) \in [1 .. n -> Events]
  BY <1>2, <1>3
<1>5. Line(list) \in Seq(Events)
  BY <1>1, <1>4, SeqDef
<1>6. Len(Line(list)) = n
  BY <1>1, <1>3, <1>5, LenProperties
<1> QED BY <1>1, <1>2, <1>3, <1>5, <1>6 DEF n

\* What is in line is what waits.
LEMMA LineHoldsWaiting ==
    ASSUME NEW list, ListShape(list), NEW e
    PROVE  Contains(Line(list), e) <=> e \in WaitingEvents(list)
<1>1. /\ Len(Line(list)) = Len(list.items) - list.firstValid
      /\ Len(list.items) \in Nat /\ list.firstValid \in 0 .. Len(list.items)
      /\ \A i \in 1 .. Len(Line(list)) :
            /\ Line(list)[i] = list.items[list.firstValid + i][1]
            /\ list.firstValid + i \in WaitAt(list)
  BY LineFacts
<1>2. ASSUME NEW at \in WaitAt(list), list.items[at][1] = e PROVE Contains(Line(list), e)
  <2>1. at - list.firstValid \in 1 .. Len(Line(list)) /\ list.firstValid + (at - list.firstValid) = at
    BY <1>1 DEF WaitAt
  <2> QED BY <1>1, <1>2, <2>1 DEF Contains
<1> QED BY <1>1, <1>2 DEF Contains, WaitingEvents

\* Lists are in line alike when they hold the same from their first valid entry.
LEMMA SameLine ==
    ASSUME NEW list, ListShape(list), NEW q \in Seq(Events),
           Len(q) = Len(list.items) - list.firstValid,
           \A i \in 1 .. Len(q) : q[i] = list.items[list.firstValid + i][1]
    PROVE  Line(list) = q
<1>0. /\ Line(list) \in Seq(Events) /\ Len(Line(list)) = Len(list.items) - list.firstValid
      /\ \A i \in 1 .. Len(Line(list)) : Line(list)[i] = list.items[list.firstValid + i][1]
  BY LineFacts
<1>1. /\ Line(list) \in Seq(Events) /\ Len(Line(list)) = Len(q)
      /\ \A i \in 1 .. Len(q) : Line(list)[i] = q[i]
  BY <1>0, Zenon
<1> QED BY <1>1, SeqEqual

\* A request joins the end of the line.
LEMMA AddToLine ==
    ASSUME NEW list, ListShape(list), NEW new, ListShape(new), NEW e \in Events, NEW t,
           new.items = Append(list.items, <<e, t>>), new.firstValid = list.firstValid
    PROVE  Line(new) = Append(Line(list), e)
<1> DEFINE T == Tags \union {t}
           x == <<e, t>>
           n == Len(list.items)
           q == Append(Line(list), e)
<1>1. /\ Line(list) \in Seq(Events) /\ Len(Line(list)) = n - list.firstValid
      /\ n \in Nat /\ list.firstValid \in 0 .. n
      /\ \A i \in 1 .. Len(Line(list)) : Line(list)[i] = list.items[list.firstValid + i][1]
  BY LineFacts
<1>2. list.items \in Seq(Events \X T) /\ x \in Events \X T
  <2>1. list.items \in Seq(Events \X Tags) /\ Events \X Tags \subseteq Events \X T
    BY DEF ListShape
  <2>2. x \in Events \X T
    OBVIOUS
  <2> HIDE DEF T, x
  <2> QED BY <2>1, <2>2
<1>3. /\ Len(new.items) = n + 1 /\ new.items[n + 1] = x
      /\ \A i \in 1 .. n : new.items[i] = list.items[i]
  <2> DEFINE S == Events \X T
  <2>1. list.items \in Seq(S) /\ x \in S /\ new.items = Append(list.items, x)
    BY <1>2
  <2> HIDE DEF S, x, T
  <2> QED BY <2>1, AppendFacts
<1>4. /\ q \in Seq(Events) /\ Len(q) = Len(Line(list)) + 1 /\ q[Len(Line(list)) + 1] = e
      /\ \A i \in 1 .. Len(Line(list)) : q[i] = Line(list)[i]
  BY <1>1, AppendFacts
<1>5. x[1] = e
  OBVIOUS
<1> HIDE DEF n, q, x, T
<1>6. ASSUME NEW i \in 1 .. Len(q) PROVE q[i] = new.items[new.firstValid + i][1]
  <2>1. CASE i = Len(Line(list)) + 1
    <3>1. new.firstValid + i = n + 1
      BY <1>1, <2>1
    <3> QED BY <1>3, <1>4, <1>5, <2>1, <3>1
  <2>2. CASE i # Len(Line(list)) + 1
    <3>0. /\ i \in 1 .. (Len(Line(list)) + 1) /\ Len(Line(list)) \in Nat
          /\ Len(Line(list)) = n - list.firstValid
      BY <1>1, <1>4
    <3> DEFINE k == Len(Line(list))
               f == list.firstValid
    <3>5. i \in 1 .. (k + 1) /\ k \in Nat /\ i # k + 1 /\ k = n - f /\ n \in Nat /\ f \in Nat
      BY <1>1, <2>2, <3>0
    <3> HIDE DEF k, f
    <3>6. i \in 1 .. k /\ f + i \in 1 .. n
      BY <3>5
    <3>1. i \in 1 .. Len(Line(list)) /\ list.firstValid + i \in 1 .. n
      BY <3>6 DEF k, f
    <3>2. /\ q[i] = Line(list)[i] /\ Line(list)[i] = list.items[list.firstValid + i][1]
          /\ new.items[list.firstValid + i] = list.items[list.firstValid + i]
      BY <1>1, <1>3, <1>4, <3>1, Zenon
    <3> QED BY <3>2
  <2> QED BY <2>1, <2>2
<1>7. Len(q) = Len(new.items) - new.firstValid
  <2>1. Len(q) = (n - list.firstValid) + 1 /\ Len(new.items) = n + 1
    BY <1>1, <1>3, <1>4, Zenon
  <2>2. (n - list.firstValid) + 1 = (n + 1) - list.firstValid
    BY <1>1
  <2> QED BY <2>1, <2>2, Zenon
<1>8. Line(new) = q
  BY <1>4, <1>6, <1>7, SameLine
<1> QED BY <1>8 DEF q

\* The front of the line is answered.
LEMMA ReadFromLine ==
    ASSUME NEW list, ListShape(list), NEW new, ListShape(new),
           new.items = list.items, new.firstValid = list.firstValid + 1
    PROVE  Line(list) # <<>> /\ Line(new) = Tail(Line(list))
<1> DEFINE n == Len(list.items)
           s == Line(list)
           q == Tail(s)
<1>1. /\ s \in Seq(Events) /\ Len(s) = n - list.firstValid
      /\ n \in Nat /\ list.firstValid \in 0 .. n
      /\ \A i \in 1 .. Len(s) : s[i] = list.items[list.firstValid + i][1]
  BY LineFacts
<1>2. new.firstValid \in 0 .. n
  BY DEF ListShape
<1> HIDE DEF n, s
<1>3. Len(s) >= 1 /\ s # <<>>
  BY <1>1, <1>2
<1>4. q \in Seq(Events) /\ Len(q) = Len(s) - 1 /\ \A i \in 1 .. Len(q) : q[i] = s[i + 1]
  BY <1>1, <1>3, HeadTailProperties
<1> HIDE DEF q
<1>5. ASSUME NEW i \in 1 .. Len(q) PROVE q[i] = new.items[new.firstValid + i][1]
  <2>0. i \in 1 .. Len(s) - 1 /\ Len(s) \in Nat /\ list.firstValid \in Nat
    BY <1>1, <1>4
  <2>1. i + 1 \in 1 .. Len(s) /\ list.firstValid + (i + 1) = (list.firstValid + 1) + i
    BY <2>0
  <2> QED BY <1>1, <1>4, <2>1
<1>6. Len(q) = Len(new.items) - new.firstValid
  BY <1>1, <1>4 DEF n
<1>7. Line(new) = q
  BY <1>4, <1>5, <1>6, SameLine
<1> QED BY <1>3, <1>7 DEF s, q

\* Erasing what was answered leaves the line as it is.
LEMMA EraseBeforeLine ==
    ASSUME NEW list, ListShape(list), NEW new, ListShape(new), new.firstValid = 0,
           new.items = SubSeq(list.items, list.firstValid + 1, Len(list.items))
    PROVE  Line(new) = Line(list)
<1> DEFINE n == Len(list.items)
           s == Line(list)
<1>1. /\ s \in Seq(Events) /\ Len(s) = n - list.firstValid
      /\ n \in Nat /\ list.firstValid \in 0 .. n
      /\ \A i \in 1 .. Len(s) : s[i] = list.items[list.firstValid + i][1]
  BY LineFacts
<1>2. /\ Len(new.items) = n - list.firstValid
      /\ \A i \in 1 .. n - list.firstValid : new.items[i] = list.items[list.firstValid + i]
  <2> DEFINE T == Events \X Tags
             all == list.items
             f == list.firstValid
  <2>1. all \in Seq(T) /\ f \in 0 .. Len(all) /\ new.items = SubSeq(all, f + 1, Len(all))
    BY DEF ListShape
  <2> HIDE DEF T, all, f
  <2> DEFINE rest == SubSeq(all, f + 1, Len(all))
  <2>2. Len(rest) = Len(all) - f /\ \A i \in 1 .. Len(all) - f : rest[i] = all[f + i]
    BY <2>1, SuffixFacts
  <2>3. new.items = rest
    BY <2>1
  <2> HIDE DEF rest
  <2>4. /\ Len(new.items) = Len(all) - f
        /\ \A i \in 1 .. Len(all) - f : new.items[i] = all[f + i]
    BY <2>2, <2>3, Zenon
  <2> QED BY <2>4 DEF all, f
<1> HIDE DEF n, s
<1>3. ASSUME NEW i \in 1 .. Len(s) PROVE s[i] = new.items[new.firstValid + i][1]
  <2>1. i \in 1 .. n - list.firstValid /\ new.firstValid + i = i
    BY <1>1
  <2> QED BY <1>1, <1>2, <2>1
<1>4. Len(s) = Len(new.items) - new.firstValid
  BY <1>1, <1>2
<1>5. Line(new) = s
  BY <1>1, <1>3, <1>4, SameLine
<1> QED BY <1>5 DEF s

\* RemoveFirst, of what is in a sequence at one place.
LEMMA RemoveOnly ==
    ASSUME NEW T, NEW s \in Seq(T), NEW k \in 1 .. Len(s), \A j \in 1 .. Len(s) : s[j] = s[k] => j = k
    PROVE  RemoveFirst(s, s[k]) = RemoveAt(s, k)
<1> DEFINE I == {j \in 1 .. Len(s) : s[j] = s[k]}
<1>1. RemoveFirst(s, s[k]) = IF \E j \in 1 .. Len(s) : s[j] = s[k]
                             THEN RemoveAt(s, IF I # {} THEN Min(I) ELSE 0) ELSE s
  BY DEF RemoveFirst, SelectInSeq
<1>2. I = {k} /\ k \in Nat
  OBVIOUS
<1>3. k \in I /\ \A m \in I : k <= m
  BY <1>2
<1> HIDE DEF I
<1>4. Min(I) \in I
  BY <1>3 DEF Min
<1> QED BY <1>1, <1>2, <1>4

\* A request is withdrawn from wherever it is in line.
LEMMA WithdrawFromLine ==
    ASSUME NEW list, ListShape(list), Distinct(list), NEW new, ListShape(new), NEW e,
           NEW pos \in list.firstValid .. Len(list.items) - 1, list.items[pos + 1][1] = e,
           new.items = RemoveAt(list.items, pos + 1), new.firstValid = list.firstValid
    PROVE  Line(new) = RemoveFirst(Line(list), e)
<1> DEFINE n == Len(list.items)
           s == Line(list)
           f == list.firstValid
           k == pos + 1 - f
           q == RemoveAt(s, k)
<1>1. /\ s \in Seq(Events) /\ Len(s) = n - f /\ n \in Nat /\ f \in 0 .. n
      /\ \A i \in 1 .. Len(s) : s[i] = list.items[f + i][1] /\ f + i \in WaitAt(list)
  BY LineFacts
<1>2. pos \in f .. n - 1
  OBVIOUS
<1>3. k \in 1 .. Len(s) /\ f + k = pos + 1 /\ pos + 1 \in 1 .. n
  BY <1>1, <1>2
<1>4. /\ Len(new.items) = n - 1
      /\ \A j \in 1 .. n - 1 : new.items[j] = IF j < pos + 1 THEN list.items[j] ELSE list.items[j + 1]
  <2> DEFINE T == Events \X Tags
             i == pos + 1
  <2>1. list.items \in Seq(T) /\ i \in 1 .. Len(list.items) /\ new.items = RemoveAt(list.items, i)
    BY <1>3 DEF ListShape
  <2> HIDE DEF T, i
  <2>2. /\ Len(new.items) = n - 1
        /\ \A j \in 1 .. n - 1 : new.items[j] = IF j < i THEN list.items[j] ELSE list.items[j + 1]
    BY <2>1, RemoveAtFacts
  <2> QED BY <2>2 DEF i
<1> HIDE DEF n, s, f, k, q
<1>5. s[k] = e
  BY <1>1, <1>3
<1>6. ASSUME NEW j \in 1 .. Len(s), s[j] = s[k] PROVE j = k
  <2>1. /\ f + j \in WaitAt(list) /\ f + k \in WaitAt(list)
        /\ list.items[f + j][1] = list.items[f + k][1]
    BY <1>1, <1>3, <1>6, Zenon
  <2>2. f + j = f + k
    BY <2>1, Zenon DEF Distinct
  <2> QED BY <1>1, <1>3, <2>2
<1>7. RemoveFirst(s, e) = q
  BY <1>1, <1>3, <1>5, <1>6, RemoveOnly DEF q
<1>8. /\ q \in Seq(Events) /\ Len(q) = Len(s) - 1
      /\ \A j \in 1 .. Len(s) - 1 : q[j] = IF j < k THEN s[j] ELSE s[j + 1]
  BY <1>1, <1>3, RemoveAtFacts DEF q
<1>9. ASSUME NEW j \in 1 .. Len(q) PROVE q[j] = new.items[f + j][1]
  <2>1. j \in 1 .. Len(s) - 1 /\ f + j \in 1 .. n - 1 /\ (j < k <=> f + j < pos + 1)
    BY <1>1, <1>3, <1>8
  <2>2. CASE j < k
    <3>1. j \in 1 .. Len(s)
      BY <1>1, <2>1
    <3> QED BY <1>1, <1>4, <1>8, <2>1, <2>2, <3>1
  <2>3. CASE ~ (j < k)
    <3>1. j + 1 \in 1 .. Len(s) /\ f + (j + 1) = (f + j) + 1
      BY <1>1, <2>1
    <3> QED BY <1>1, <1>4, <1>8, <2>1, <2>3, <3>1
  <2> QED BY <2>2, <2>3
<1>10. Len(q) = Len(new.items) - f
  BY <1>1, <1>4, <1>8
<1>11. Line(new) = q
  BY <1>8, <1>9, <1>10, SameLine DEF f
<1> QED BY <1>7, <1>11 DEF s

-----------------------------------------------------------------------------
(* The actions.                                                              *)

LEMMA QueueInvInit == Init => QueueInv
<1> SUFFICES ASSUME Init PROVE QueueInv
  OBVIOUS
<1>1. Scalars
  BY EventsAssumption DEF Init, Scalars
<1>2. ListShape(mPendingEvents) /\ WaitAt(mPendingEvents) = {}
  <2>1. EmptyList.items \in Seq(Events \X Tags) /\ Len(EmptyList.items) = 0
    BY DEF EmptyList
  <2> QED BY <2>1 DEF Init, EmptyList, ListShape, WaitAt
<1>3. Distinct(mPendingEvents) /\ WaitingEvents(mPendingEvents) = {}
  BY <1>2 DEF Distinct, WaitingEvents
<1>4. Agree({}, life, mbDeferredNotifyPending, teardown)
  BY DEF Init, Agree
<1> QED BY <1>1, <1>2, <1>3, <1>4 DEF QueueInv, Ordered, Init

\* Taking back a request; one that does not wait is not found.
LEMMA RemovalFacts ==
    ASSUME QueueInv, NEW e \in Events, RemovePendingEvent(e),
           mPendingEvents.passes = <<>> \/ \A pos \in FoundAt(mPendingEvents, e) : Covered(pos)
    PROVE  /\ Ordered(mPendingEvents')
           /\ WaitingEvents(mPendingEvents') = WaitingEvents(mPendingEvents) \ {e}
           /\ mPendingEvents.passes = <<>> => mPendingEvents'.passes = <<>>
<1>1. Ordered(mPendingEvents) /\ mPendingEvents' = ListRemove(mPendingEvents, e)
  BY DEF QueueInv, RemovePendingEvent
<1>2. CASE e \in WaitingEvents(mPendingEvents)
  <2>1. \A p \in DOMAIN mPendingEvents.passes :
            \A pos \in FoundAt(mPendingEvents, e) : pos < mPendingEvents.passes[p].length
    <3>1. CASE mPendingEvents.passes = <<>>
      <4>1. DOMAIN mPendingEvents.passes = {}
        BY <3>1
      <4> QED BY <4>1
    <3> QED BY <3>1 DEF Covered
  <2> QED BY <1>1, <1>2, <2>1, RemoveKeepsOrder
<1>3. CASE e \notin WaitingEvents(mPendingEvents)
  <2>1. FoundAt(mPendingEvents, e) = {}
    <3>1. ASSUME NEW pos \in FoundAt(mPendingEvents, e) PROVE FALSE
      <4>1. /\ pos \in mPendingEvents.firstValid .. Len(mPendingEvents.items) - 1
            /\ mPendingEvents.items[pos + 1][1] = e
        BY DEF FoundAt
      <4>2. mPendingEvents.firstValid \in Nat /\ Len(mPendingEvents.items) \in Nat
        BY <1>1, WaitingFacts DEF Ordered
      <4>3. pos + 1 \in WaitAt(mPendingEvents)
        BY <4>1, <4>2 DEF WaitAt
      <4> QED BY <1>3, <4>1, <4>3 DEF WaitingEvents
    <3> QED BY <3>1
  <2>2. mPendingEvents' = mPendingEvents
    BY <1>1, <2>1 DEF ListRemove
  <2> QED BY <1>1, <1>3, <2>2
<1> QED BY <1>2, <1>3

LEMMA InitEventStep ==
    ASSUME QueueInv, NEW e \in Events, InitEvent(e)
    PROVE  QueueInv'
<1> DEFINE waiting == WaitingEvents(mPendingEvents)
<1>1. /\ Scalars /\ Ordered(mPendingEvents) /\ teardown = FALSE
      /\ Agree(waiting, life, mbDeferredNotifyPending, teardown)
      /\ e \notin waiting
      /\ life[e] = "new" /\ life' = [life EXCEPT ![e] = "attached"]
      /\ UNCHANGED <<mbDeferredNotifyPending, notifying, teardown>>
  BY DEF QueueInv, InitEvent, Agree, Scalars
<1>2. Scalars'
  BY <1>1 DEF Scalars
<1>3. CASE mbDeferredNotifyPending[e]
  <2>1. /\ Ordered(mPendingEvents') /\ WaitingEvents(mPendingEvents') = waiting \union {e}
    <3>1. mPendingEvents' = ListAdd(mPendingEvents, <<e, FreshTag>>)
      BY <1>3 DEF InitEvent, AddPendingEvent
    <3> QED BY <1>1, <3>1, AddKeepsOrder
  <2> HIDE DEF waiting
  <2>2. Agree(waiting \union {e}, life', mbDeferredNotifyPending', teardown')
    BY <1>1, <1>3, <2>1 DEF Agree, Scalars
  <2> QED BY <1>1, <1>2, <2>1, <2>2 DEF QueueInv
<1>4. CASE ~ mbDeferredNotifyPending[e]
  <2>1. mPendingEvents' = mPendingEvents
    BY <1>4 DEF InitEvent
  <2>2. Ordered(mPendingEvents') /\ WaitingEvents(mPendingEvents') = waiting
    BY <1>1, <2>1
  <2> HIDE DEF waiting
  <2>3. Agree(waiting, life', mbDeferredNotifyPending', teardown')
    BY <1>1, <1>4 DEF Agree, Scalars
  <2> QED BY <1>1, <1>2, <2>2, <2>3 DEF QueueInv
<1> QED BY <1>3, <1>4

LEMMA NotifyDeferredStep ==
    ASSUME QueueInv, NEW e \in Events, NotifyDeferred(e)
    PROVE  QueueInv'
<1> DEFINE waiting == WaitingEvents(mPendingEvents)
<1>1. /\ Scalars /\ Ordered(mPendingEvents)
      /\ Agree(waiting, life, mbDeferredNotifyPending, teardown)
      /\ teardown => mPendingEvents.passes = <<>>
      /\ mbDeferredNotifyPending[e] = FALSE
      /\ mbDeferredNotifyPending' = [mbDeferredNotifyPending EXCEPT ![e] = TRUE]
      /\ UNCHANGED <<life, notifying, teardown>>
  BY DEF QueueInv, NotifyDeferred, Scalars
<1>2. Scalars'
  BY <1>1 DEF Scalars
<1>3. CASE life[e] = "attached"
  <2>1. e \notin waiting
    BY <1>1, <1>3 DEF Agree
  <2>2. /\ Ordered(mPendingEvents') /\ WaitingEvents(mPendingEvents') = waiting \union {e}
        /\ mPendingEvents'.passes = mPendingEvents.passes
    <3>1. mPendingEvents' = ListAdd(mPendingEvents, <<e, FreshTag>>)
      BY <1>3 DEF NotifyDeferred, AddPendingEvent
    <3> QED BY <1>1, <2>1, <3>1, AddKeepsOrder
  <2> HIDE DEF waiting
  <2>3. Agree(waiting \union {e}, life', mbDeferredNotifyPending', teardown')
    BY <1>1, <1>3 DEF Agree, Scalars
  <2> QED BY <1>1, <1>2, <2>2, <2>3 DEF QueueInv
<1>4. CASE life[e] # "attached"
  <2>1. mPendingEvents' = mPendingEvents
    BY <1>4 DEF NotifyDeferred
  <2>2. Ordered(mPendingEvents') /\ WaitingEvents(mPendingEvents') = waiting
    BY <1>1, <2>1
  <2> HIDE DEF waiting
  <2>3. Agree(waiting, life', mbDeferredNotifyPending', teardown')
    BY <1>1, <1>4 DEF Agree, Scalars
  <2> QED BY <1>1, <1>2, <2>1, <2>2, <2>3 DEF QueueInv
<1> QED BY <1>3, <1>4

LEMMA FlushStep ==
    ASSUME QueueInv, NEW e \in Events, Flush(e)
    PROVE  QueueInv'
<1> DEFINE waiting == WaitingEvents(mPendingEvents)
<1>1. /\ Scalars /\ Ordered(mPendingEvents)
      /\ Agree(waiting, life, mbDeferredNotifyPending, teardown)
      /\ mPendingEvents.passes = <<>>
      /\ mbDeferredNotifyPending' = [mbDeferredNotifyPending EXCEPT ![e] = FALSE]
      /\ notifying' = e /\ UNCHANGED <<life, teardown>>
  BY DEF QueueInv, Flush, Idle, Scalars
<1>2. Scalars'
  BY <1>1 DEF Scalars
<1>3. CASE life[e] = "attached"
  <2>1. /\ Ordered(mPendingEvents') /\ WaitingEvents(mPendingEvents') = waiting \ {e}
        /\ mPendingEvents'.passes = <<>>
    <3>1. RemovePendingEvent(e)
      BY <1>3 DEF Flush
    <3> QED BY <1>1, <3>1, RemovalFacts
  <2> HIDE DEF waiting
  <2>2. Agree(waiting \ {e}, life', mbDeferredNotifyPending', teardown')
    BY <1>1, <1>3 DEF Agree, Scalars
  <2> QED BY <1>2, <2>1, <2>2 DEF QueueInv
<1>4. CASE life[e] # "attached"
  <2>1. mPendingEvents' = mPendingEvents
    BY <1>4 DEF Flush
  <2>2. Ordered(mPendingEvents') /\ WaitingEvents(mPendingEvents') = waiting
    BY <1>1, <2>1
  <2> HIDE DEF waiting
  <2>3. Agree(waiting, life', mbDeferredNotifyPending', teardown')
    BY <1>1, <1>4 DEF Agree, Scalars
  <2> QED BY <1>1, <1>2, <2>1, <2>2, <2>3 DEF QueueInv
<1> QED BY <1>3, <1>4

LEMMA ShutdownStep ==
    ASSUME QueueInv, NEW e \in Events, Shutdown(e)
    PROVE  QueueInv'
<1> DEFINE waiting == WaitingEvents(mPendingEvents)
<1>1. /\ Scalars /\ Ordered(mPendingEvents)
      /\ Agree(waiting, life, mbDeferredNotifyPending, teardown)
      /\ mPendingEvents.passes = <<>>
      /\ life' = [life EXCEPT ![e] = "shutdown"] /\ teardown' = TRUE
      /\ UNCHANGED <<mPendingEvents, mbDeferredNotifyPending, notifying>>
  BY DEF QueueInv, Shutdown, Idle
<1>2. Scalars'
  BY <1>1 DEF Scalars
<1>3. Ordered(mPendingEvents') /\ WaitingEvents(mPendingEvents') = waiting
  BY <1>1
<1>4. waiting \subseteq Events
  BY <1>1, WaitingFacts DEF Ordered
<1> HIDE DEF waiting
<1>5. Agree(waiting, life', mbDeferredNotifyPending', teardown')
  BY <1>1, <1>4 DEF Agree, Scalars
<1> QED BY <1>1, <1>2, <1>3, <1>5 DEF QueueInv

LEMMA DestroyStep ==
    ASSUME QueueInv, NEW e \in Events, Destroy(e)
    PROVE  QueueInv'
<1> DEFINE waiting == WaitingEvents(mPendingEvents)
<1>1. /\ Scalars /\ Ordered(mPendingEvents)
      /\ Agree(waiting, life, mbDeferredNotifyPending, teardown)
      /\ teardown => mPendingEvents.passes = <<>>
      /\ life' = [life EXCEPT ![e] = "destroyed"]
      /\ UNCHANGED <<mbDeferredNotifyPending, notifying, teardown>>
      /\ waiting \subseteq Events
  BY WaitingFacts DEF QueueInv, Destroy, Ordered
<1>2. Scalars'
  BY <1>1 DEF Scalars
<1>3. CASE mbDeferredNotifyPending[e] /\ life[e] = "attached"
  <2>1. /\ Ordered(mPendingEvents') /\ WaitingEvents(mPendingEvents') = waiting \ {e}
        /\ mPendingEvents.passes = <<>> => mPendingEvents'.passes = <<>>
    <3>1. RemovePendingEvent(e) /\ \A pos \in FoundAt(mPendingEvents, e) : Covered(pos)
      BY <1>3 DEF Destroy
    <3> QED BY <3>1, RemovalFacts
  <2> HIDE DEF waiting
  <2>2. Agree(waiting \ {e}, life', mbDeferredNotifyPending', teardown')
    BY <1>1 DEF Agree, Scalars
  <2> QED BY <1>1, <1>2, <2>1, <2>2 DEF QueueInv
<1>4. CASE ~ (mbDeferredNotifyPending[e] /\ life[e] = "attached")
  <2>1. mPendingEvents' = mPendingEvents
    BY <1>4 DEF Destroy
  <2>2. Ordered(mPendingEvents') /\ WaitingEvents(mPendingEvents') = waiting
    BY <1>1, <2>1
  <2> HIDE DEF waiting
  <2>3. Agree(waiting, life', mbDeferredNotifyPending', teardown')
    BY <1>1, <1>4 DEF Agree, Scalars
  <2> QED BY <1>1, <1>2, <2>1, <2>2, <2>3 DEF QueueInv
<1> QED BY <1>3, <1>4

LEMMA BeginStep == QueueInv /\ BeginFlushPending => QueueInv'
<1> SUFFICES ASSUME QueueInv, BeginFlushPending PROVE QueueInv'
  OBVIOUS
<1>1. /\ Scalars /\ Ordered(mPendingEvents) /\ mPendingEvents.passes = <<>> /\ ~ teardown
      /\ mPendingEvents' = ListBeginNotifyAndClear(mPendingEvents)
      /\ UNCHANGED <<mbDeferredNotifyPending, life, notifying, teardown>>
  BY DEF QueueInv, BeginFlushPending, Idle
<1>2. Ordered(mPendingEvents') /\ WaitingEvents(mPendingEvents') = WaitingEvents(mPendingEvents)
  BY <1>1, BeginKeepsOrder
<1> QED BY <1>1, <1>2 DEF QueueInv, Scalars

LEMMA NotifyNextStep == QueueInv /\ NotifyNext => QueueInv'
<1> SUFFICES ASSUME QueueInv, NotifyNext PROVE QueueInv'
  OBVIOUS
<1> DEFINE waiting == WaitingEvents(mPendingEvents)
           e == NextEntry(mPendingEvents)[1]
<1>1. /\ Scalars /\ Ordered(mPendingEvents)
      /\ Agree(waiting, life, mbDeferredNotifyPending, teardown)
      /\ AtLoopHead(mPendingEvents) /\ HasNext(mPendingEvents)
      /\ mbDeferredNotifyPending' = [mbDeferredNotifyPending EXCEPT ![e] = FALSE]
      /\ notifying' = e
      /\ mPendingEvents' = ListDeliverAndClear(mPendingEvents)
      /\ UNCHANGED <<life, teardown>>
  BY DEF QueueInv, NotifyNext
<1>2. ~ teardown
  BY <1>1 DEF QueueInv, AtLoopHead
<1>3. /\ Ordered(mPendingEvents') /\ e \in waiting
      /\ WaitingEvents(mPendingEvents') = waiting \ {e}
  BY <1>1, DeliverKeepsOrder
<1>4. waiting \subseteq Events
  BY <1>1, WaitingFacts DEF Ordered
<1> HIDE DEF waiting, e
<1>5. Scalars'
  BY <1>1, <1>3, <1>4 DEF Scalars
<1>6. Agree(waiting \ {e}, life', mbDeferredNotifyPending', teardown')
  BY <1>1, <1>3, <1>4 DEF Agree, Scalars
<1> QED BY <1>1, <1>2, <1>3, <1>5, <1>6 DEF QueueInv

LEMMA ReturnStep == QueueInv /\ ListenersReturn => QueueInv'
<1> SUFFICES ASSUME QueueInv, ListenersReturn PROVE QueueInv'
  OBVIOUS
<1>1. /\ Scalars /\ Ordered(mPendingEvents) /\ notifying' = Null
      /\ UNCHANGED <<mbDeferredNotifyPending, life, teardown>>
  BY DEF QueueInv, ListenersReturn
<1>2. Scalars'
  BY <1>1 DEF Scalars
<1>3. CASE InCallback(mPendingEvents)
  <2>1. Ordered(mPendingEvents') /\ WaitingEvents(mPendingEvents') = WaitingEvents(mPendingEvents)
    BY <1>1, <1>3, ReturnKeepsOrder DEF ListenersReturn
  <2>2. ~ teardown
    BY <1>3 DEF QueueInv, InCallback
  <2> QED BY <1>1, <1>2, <2>1, <2>2 DEF QueueInv
<1>4. CASE ~ InCallback(mPendingEvents)
  <2>1. mPendingEvents' = mPendingEvents
    BY <1>4 DEF ListenersReturn
  <2> QED BY <1>1, <1>2, <2>1 DEF QueueInv
<1> QED BY <1>3, <1>4

LEMMA EndStep == QueueInv /\ EndFlushPending => QueueInv'
<1> SUFFICES ASSUME QueueInv, EndFlushPending PROVE QueueInv'
  OBVIOUS
<1>1. /\ Scalars /\ Ordered(mPendingEvents) /\ AtLoopHead(mPendingEvents)
      /\ mPendingEvents' = ListEndPassAndClear(mPendingEvents)
      /\ UNCHANGED <<mbDeferredNotifyPending, life, notifying, teardown>>
  BY DEF QueueInv, EndFlushPending
<1>2. Ordered(mPendingEvents') /\ WaitingEvents(mPendingEvents') = WaitingEvents(mPendingEvents)
  BY <1>1, EndKeepsOrder
<1>3. ~ teardown
  BY <1>1 DEF QueueInv, AtLoopHead
<1> QED BY <1>1, <1>2, <1>3 DEF QueueInv, Scalars

LEMMA QueueInvNext == QueueInv /\ [Next]_vars => QueueInv'
<1> SUFFICES ASSUME QueueInv, [Next]_vars PROVE QueueInv'
  OBVIOUS
<1>1. CASE UNCHANGED vars
  BY <1>1 DEF vars, QueueInv, Scalars
<1>2. CASE Next
  BY <1>2, InitEventStep, NotifyDeferredStep, FlushStep, ShutdownStep, DestroyStep, BeginStep,
     NotifyNextStep, ReturnStep, EndStep DEF Next
<1> QED BY <1>1, <1>2

-----------------------------------------------------------------------------
(* What the invariant gives.                                                 *)

LEMMA Invariance == Spec => []QueueInv
  BY QueueInvInit, QueueInvNext, PTL DEF Spec

LEMMA TypesFollow == QueueInv => TypeOK
<1> SUFFICES ASSUME QueueInv PROVE TypeOK
  OBVIOUS
<1> DEFINE list == mPendingEvents
<1>1. ListShape(list) /\ Scalars
  BY DEF QueueInv, Ordered
<1>2. /\ list.items \in Seq(Events \X Tags) /\ list.firstValid \in 0 .. Len(list.items)
      /\ list.asserts = TRUE
  BY <1>1 DEF ListShape
<1> DEFINE InRange(p) == p.index \in 0 .. Len(list.items) /\ p.length \in 0 .. Len(list.items)
<1>3. Len(list.passes) <= 1 /\ \A i \in DOMAIN list.passes : InRange(list.passes[i])
  <2>1. CASE list.passes = <<>>
    <3>1. Len(list.passes) = 0 /\ DOMAIN list.passes = {}
      BY <2>1
    <3> QED BY <3>1
  <2>2. ASSUME NEW p, list.passes = <<p>>, PassShape(p, list)
        PROVE  Len(list.passes) <= 1 /\ \A i \in DOMAIN list.passes : InRange(list.passes[i])
    <3>1. Len(list.passes) = 1 /\ DOMAIN list.passes = {1} /\ list.passes[1] = p
      BY <2>2
    <3>2. InRange(p)
      BY <1>2, <2>2 DEF PassShape
    <3> QED BY <3>1, <3>2
  <2> QED BY <1>1, <2>1, <2>2 DEF ListShape
<1> QED BY <1>1, <1>2, <1>3 DEF TypeOK, Scalars

LEMMA CountFollows == QueueInv => QueueMatchesPending
<1> SUFFICES ASSUME QueueInv, NEW e \in Events, life[e] \in {"new", "attached"}
             PROVE  Cardinality({i \in DOMAIN Waiting : Waiting[i] = e}) =
                        IF life[e] = "attached" /\ mbDeferredNotifyPending[e] THEN 1 ELSE 0
  BY DEF QueueMatchesPending
<1> DEFINE list == mPendingEvents
           n == Len(list.items) - list.firstValid
           places == {i \in DOMAIN Waiting : Waiting[i] = e}
<1>1. /\ Distinct(list) /\ Scalars
      /\ Agree(WaitingEvents(list), life, mbDeferredNotifyPending, teardown)
      /\ list.firstValid \in Nat /\ Len(list.items) \in Nat
  BY WaitingFacts DEF QueueInv, Ordered
<1>2. /\ DOMAIN Waiting = 1 .. n
      /\ \A i \in 1 .. n : /\ Waiting[i] = list.items[list.firstValid + i][1]
                           /\ list.firstValid + i \in WaitAt(list)
  BY <1>1 DEF Waiting, WaitAt
<1>3. CASE life[e] = "attached" /\ mbDeferredNotifyPending[e]
  <2>1. PICK at \in WaitAt(list) : list.items[at][1] = e
    BY <1>1, <1>3 DEF Agree, WaitingEvents, Scalars
  <2> DEFINE i == at - list.firstValid
  <2>2. i \in 1 .. n /\ list.firstValid + i = at
    BY <1>1 DEF WaitAt
  <2>3. ASSUME NEW j \in 1 .. n, Waiting[j] = e PROVE j = i
    <3>1. list.firstValid + j = at
      BY <1>1, <1>2, <2>1, <2>3 DEF Distinct
    <3> QED BY <1>1, <3>1
  <2> HIDE DEF i
  <2>4. places = {i}
    BY <1>2, <2>1, <2>2, <2>3
  <2>5. Cardinality({i}) = 1
    BY FS_Singleton
  <2> QED BY <1>3, <2>4, <2>5
<1>4. CASE ~ (life[e] = "attached" /\ mbDeferredNotifyPending[e])
  <2>1. e \notin WaitingEvents(list)
    BY <1>1, <1>4 DEF Agree
  <2>2. places = {}
    BY <1>2, <2>1 DEF WaitingEvents
  <2> QED BY <1>4, <2>2, FS_EmptySet
<1> QED BY <1>3, <1>4

LEMMA CalledFollows == QueueInv => CallsLiveEvents
<1> SUFFICES ASSUME QueueInv, AtLoopHead(mPendingEvents), HasNext(mPendingEvents)
             PROVE  LET e == NextEntry(mPendingEvents)[1]
                    IN  life[e] = "attached" /\ mbDeferredNotifyPending[e]
  BY DEF CallsLiveEvents
<1>1. /\ Ordered(mPendingEvents)
      /\ Agree(WaitingEvents(mPendingEvents), life, mbDeferredNotifyPending, teardown)
  BY DEF QueueInv
<1>2. ~ teardown
  BY DEF QueueInv, AtLoopHead
<1>3. NextEntry(mPendingEvents)[1] \in WaitingEvents(mPendingEvents)
  BY <1>1, DeliverKeepsOrder
<1> QED BY <1>1, <1>2, <1>3 DEF Agree

\* The variables keep their types: no more is queued, dead entries included, than
\* there are tags for, and the asserts of the list hold.
THEOREM TypeCorrectness == Spec => []TypeOK
  BY Invariance, TypesFollow, PTL

\* For any number of events: NotifyDeferred, Flush, destruction and the flush itself
\* keep the queue and mbDeferredNotifyPending in step.
THEOREM QueueSafety == Spec => []QueueMatchesPending
  BY Invariance, CountFollows, PTL

\* For any number of events: FlushPendingEvents finds only events that live and are
\* asked to notify.
THEOREM CallSafety == Spec => []CallsLiveEvents
  BY Invariance, CalledFollows, PTL

\* The steps of the queue of requests.
LEMMA RefinedInit == Init => ImplementsQueue!Init
<1> SUFFICES ASSUME Init PROVE Waiting = <<>>
  BY DEF ImplementsQueue!Init
<1>1. 1 .. Len(mPendingEvents.items) - mPendingEvents.firstValid = {}
  <2>1. Len(EmptyList.items) - EmptyList.firstValid = 0
    BY DEF EmptyList
  <2> QED BY <2>1 DEF Init
<1> QED BY <1>1 DEF Waiting

LEMMA RequestIsAdded ==
    ASSUME QueueInv, QueueInv', NEW e \in Events, e \notin WaitingEvents(mPendingEvents),
           AddPendingEvent(e)
    PROVE  ImplementsQueue!Next
<1> DEFINE new == ListAdd(mPendingEvents, <<e, FreshTag>>)
<1>1. /\ Ordered(mPendingEvents) /\ ListShape(mPendingEvents) /\ ListShape(mPendingEvents')
      /\ mPendingEvents' = new
  BY DEF QueueInv, Ordered, AddPendingEvent
<1>2. /\ new.items = Append(mPendingEvents.items, <<e, FreshTag>>)
      /\ new.firstValid = mPendingEvents.firstValid
  BY <1>1, AddKeepsOrder
<1> HIDE DEF new
<1>3. Line(mPendingEvents') = Append(Line(mPendingEvents), e)
  BY <1>1, <1>2, AddToLine
<1>4. ~ Contains(Line(mPendingEvents), e)
  BY <1>1, LineHoldsWaiting
<1>5. Waiting = Line(mPendingEvents) /\ Waiting' = Line(mPendingEvents')
  BY DEF Waiting, Line
<1>6. ImplementsQueue!Request(e)
  <2>1. ImplementsQueue!Contains(Waiting, e) <=> Contains(Waiting, e)
    BY DEF ImplementsQueue!Contains, Contains
  <2> QED BY <1>3, <1>4, <1>5, <2>1 DEF ImplementsQueue!Request
<1> QED BY <1>6 DEF ImplementsQueue!Next

LEMMA RequestIsWithdrawn ==
    ASSUME QueueInv, QueueInv', NEW e \in Events, RemovePendingEvent(e),
           mPendingEvents.passes = <<>> \/ \A pos \in FoundAt(mPendingEvents, e) : Covered(pos)
    PROVE  ImplementsQueue!Next \/ UNCHANGED Waiting
<1> DEFINE list == mPendingEvents
           new == mPendingEvents'
<1>1. Ordered(list) /\ ListShape(list) /\ Distinct(list) /\ ListShape(new) /\ new = ListRemove(list, e)
  BY DEF QueueInv, Ordered, RemovePendingEvent
<1>2. Waiting = Line(list) /\ Waiting' = Line(new)
  BY DEF Waiting, Line
<1>3. CASE e \in WaitingEvents(list)
  <2>1. \A p \in DOMAIN list.passes : \A pos \in FoundAt(list, e) : pos < list.passes[p].length
    <3>1. CASE list.passes = <<>>
      <4>1. DOMAIN list.passes = {}
        BY <3>1
      <4> QED BY <4>1
    <3> QED BY <3>1 DEF Covered
  <2>2. /\ new.firstValid = list.firstValid
        /\ \E pos \in list.firstValid .. Len(list.items) - 1 :
              list.items[pos + 1][1] = e /\ new.items = RemoveAt(list.items, pos + 1)
    BY <1>1, <1>3, <2>1, RemoveKeepsOrder
  <2> HIDE DEF list, new
  <2>3. Line(new) = RemoveFirst(Line(list), e)
    BY <1>1, <2>2, WithdrawFromLine
  <2>4. Contains(Line(list), e)
    BY <1>1, <1>3, LineHoldsWaiting
  <2>5. ImplementsQueue!Withdraw(e)
    <3>1. ImplementsQueue!Contains(Waiting, e) <=> Contains(Waiting, e)
      BY DEF ImplementsQueue!Contains, Contains
    <3>2. ImplementsQueue!RemoveFirst(Waiting, e) = RemoveFirst(Waiting, e)
      BY DEF ImplementsQueue!RemoveFirst, ImplementsQueue!RemoveAt, ImplementsQueue!SelectInSeq,
         ImplementsQueue!Min, RemoveFirst, RemoveAt, SelectInSeq, Min
    <3> QED BY <1>2, <2>3, <2>4, <3>1, <3>2 DEF ImplementsQueue!Withdraw
  <2> QED BY <2>5 DEF ImplementsQueue!Next
<1>4. CASE e \notin WaitingEvents(list)
  <2>1. FoundAt(list, e) = {}
    <3>1. ASSUME NEW pos \in FoundAt(list, e) PROVE FALSE
      <4>1. pos \in list.firstValid .. Len(list.items) - 1 /\ list.items[pos + 1][1] = e
        BY DEF FoundAt
      <4>2. list.firstValid \in Nat /\ Len(list.items) \in Nat
        BY <1>1, WaitingFacts
      <4>3. pos + 1 \in WaitAt(list)
        BY <4>1, <4>2 DEF WaitAt
      <4> QED BY <1>4, <4>1, <4>3 DEF WaitingEvents
    <3> QED BY <3>1
  <2>2. new = list
    BY <1>1, <2>1 DEF ListRemove
  <2> QED BY <1>2, <2>2
<1> QED BY <1>3, <1>4

LEMMA LineStands ==
    ASSUME mPendingEvents' = mPendingEvents
    PROVE  UNCHANGED Waiting
  BY DEF Waiting

LEMMA RefinedNext == QueueInv /\ QueueInv' /\ [Next]_vars => [ImplementsQueue!Next]_Waiting
<1> SUFFICES ASSUME QueueInv, QueueInv', [Next]_vars
             PROVE  ImplementsQueue!Next \/ UNCHANGED Waiting
  OBVIOUS
<1> DEFINE list == mPendingEvents
           new == mPendingEvents'
<1>1. /\ Ordered(list) /\ ListShape(list) /\ ListShape(new) /\ Scalars
      /\ Agree(WaitingEvents(list), life, mbDeferredNotifyPending, teardown)
  BY DEF QueueInv, Ordered
<1>2. Waiting = Line(list) /\ Waiting' = Line(new)
  BY DEF Waiting, Line
<1>3. ASSUME NEW e \in Events, InitEvent(e) PROVE ImplementsQueue!Next \/ UNCHANGED Waiting
  <2>1. teardown = FALSE /\ life[e] = "new"
    BY <1>1, <1>3 DEF InitEvent, Scalars
  <2>2. e \notin WaitingEvents(list)
    BY <1>1, <2>1 DEF Agree
  <2> QED BY <1>3, <2>2, RequestIsAdded, LineStands DEF InitEvent
<1>4. ASSUME NEW e \in Events, NotifyDeferred(e) PROVE ImplementsQueue!Next \/ UNCHANGED Waiting
  <2>1. CASE life[e] = "attached"
    <3>1. mbDeferredNotifyPending[e] = FALSE /\ AddPendingEvent(e)
      BY <1>1, <1>4, <2>1 DEF NotifyDeferred, Scalars
    <3>2. e \notin WaitingEvents(list)
      BY <1>1, <2>1, <3>1 DEF Agree
    <3> QED BY <3>1, <3>2, RequestIsAdded
  <2>2. CASE life[e] # "attached"
    BY <1>4, <2>2, LineStands DEF NotifyDeferred
  <2> QED BY <2>1, <2>2
<1>5. ASSUME NEW e \in Events, Flush(e) PROVE ImplementsQueue!Next \/ UNCHANGED Waiting
  BY <1>5, RequestIsWithdrawn, LineStands DEF Flush, Idle
<1>6. ASSUME NEW e \in Events, Shutdown(e) PROVE ImplementsQueue!Next \/ UNCHANGED Waiting
  BY <1>6, LineStands DEF Shutdown
<1>7. ASSUME NEW e \in Events, Destroy(e) PROVE ImplementsQueue!Next \/ UNCHANGED Waiting
  BY <1>7, RequestIsWithdrawn, LineStands DEF Destroy
<1>8. CASE BeginFlushPending
  <2>1. new.items = list.items /\ new.firstValid = list.firstValid
    BY <1>1, <1>8, BeginKeepsOrder DEF BeginFlushPending, Idle
  <2> QED BY <1>2, <2>1 DEF Line
<1>9. CASE NotifyNext
  <2>1. new.items = list.items /\ new.firstValid = list.firstValid + 1
    BY <1>1, <1>9, DeliverKeepsOrder DEF NotifyNext
  <2> HIDE DEF list, new
  <2>2. Line(list) # <<>> /\ Line(new) = Tail(Line(list))
    BY <1>1, <2>1, ReadFromLine
  <2>3. ImplementsQueue!Answer
    BY <1>2, <2>2 DEF ImplementsQueue!Answer
  <2> QED BY <2>3 DEF ImplementsQueue!Next
<1>10. CASE ListenersReturn
  <2>1. CASE InCallback(list)
    <3>1. new.items = list.items /\ new.firstValid = list.firstValid
      BY <1>1, <1>10, <2>1, ReturnKeepsOrder DEF ListenersReturn
    <3> QED BY <1>2, <3>1 DEF Line
  <2>2. CASE ~ InCallback(list)
    BY <1>10, <2>2, LineStands DEF ListenersReturn
  <2> QED BY <2>1, <2>2
<1>11. CASE EndFlushPending
  <2>1. /\ new.items = SubSeq(list.items, list.firstValid + 1, Len(list.items))
        /\ new.firstValid = 0
    BY <1>1, <1>11, EndKeepsOrder DEF EndFlushPending
  <2> HIDE DEF list, new
  <2>2. Line(new) = Line(list)
    BY <1>1, <2>1, EraseBeforeLine
  <2> QED BY <1>2, <2>2
<1>12. CASE UNCHANGED vars
  BY <1>12, LineStands DEF vars
<1> QED BY <1>3, <1>4, <1>5, <1>6, <1>7, <1>8, <1>9, <1>10, <1>11, <1>12 DEF Next

\* For any number of events the manager is a first-come first-served queue of requests,
\* DeferredQueue: the dead entries NotifyAndClear leaves at the front of its vector,
\* and when it erases them, cannot be told from outside.
THEOREM QueueRefinement == Spec => InOrder
<1>1. QueueInv /\ [Next]_vars => QueueInv'
  BY QueueInvNext
<1> QED BY RefinedInit, RefinedNext, Invariance, PTL DEF Spec, InOrder, ImplementsQueue!Spec
=============================================================================
