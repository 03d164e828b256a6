-------------------------- MODULE NotifyListProofs --------------------------
(***************************************************************************)
(* That every pass over a listener list sees the entries it owes, however   *)
(* many listeners, entries and passes inside passes there are.              *)
(***************************************************************************)
EXTENDS NotifyList, FiniteSetTheorems, SequenceTheorems, NaturalsInduction,
        WellFoundedInduction, TLAPS

Passes == [index : Nat, length : Int, calling : BOOLEAN, todo : Seq(Entries)]

\* The vector, and a pass over it that reads nothing beyond its end.
IsVector(items) == items \in Seq(Entries)
Distinct(items) == \A i, j \in DOMAIN items : items[i][2] = items[j][2] => i = j
Fits(pass, items) ==
    pass \in Passes /\ pass.index <= Len(items) /\ pass.length <= Len(items)

\* A pass that has not been shortened below its index, and owes what lies between.
OnTrack(pass, items) ==
    /\ pass.index <= pass.length
    /\ pass.todo = SubSeq(items, pass.index + 1, pass.length)

\* The inductive invariant, and the part of it that needs AnyRemoval to be FALSE.
WellFormed(l) ==
    /\ l \in [items : Seq(Entries), firstValid : {0}, passes : Seq(Passes), asserts : BOOLEAN]
    /\ Distinct(l.items)
    /\ \A p \in DOMAIN l.passes : Fits(l.passes[p], l.items)
AllOnTrack(l) ==
    /\ l.asserts
    /\ \A p \in DOMAIN l.passes : OnTrack(l.passes[p], l.items)

\* A list of which the vector, the passes and the assertions are replaced.
Composed(l, items, passes, asserts) ==
    [l EXCEPT !.items = items, !.passes = passes, !.asserts = asserts]

\* From list l to list m: whatever was in order still is.
Keeps(l, m) == WellFormed(m) /\ (AllOnTrack(l) => AllOnTrack(m))

-----------------------------------------------------------------------------
(* Sequences.                                                                *)

\* A set of natural numbers that is not empty has a least one.
LEMMA LeastNatural ==
    ASSUME NEW S, S \subseteq Nat, S # {}
    PROVE  \E n \in S : \A m \in S : n <= m
<1>1. PICK n \in S : \A m \in S : ~ (<<m, n>> \in OpToRel(<, Nat))
  BY NatLessThanWellFounded, WFMin, Zenon
<1>2. ASSUME NEW m \in S PROVE ~ (m < n)
  BY <1>1, Zenon DEF OpToRel
<1>3. \A m \in S : n <= m
  BY <1>2
<1> QED BY <1>3

\* What part of a sequence is made of.
LEMMA SliceFacts ==
    ASSUME NEW T, NEW s \in Seq(T), NEW i \in Nat, NEW n \in Int, i <= n, n <= Len(s)
    PROVE  /\ SubSeq(s, i + 1, n) \in Seq(T) /\ Len(SubSeq(s, i + 1, n)) = n - i
           /\ \A k \in 1 .. n - i : SubSeq(s, i + 1, n)[k] = s[i + k]
<1>1. Len(s) \in Nat /\ \A k \in i + 1 .. n : s[k] \in T
  <2>1. ASSUME NEW k \in i + 1 .. n PROVE s[k] \in T
    <3>1. k \in 1 .. Len(s)
      OBVIOUS
    <3> QED BY <3>1, ElementOfSeq
  <2> QED BY <2>1
<1>2. i + 1 \in Int
  OBVIOUS
<1> DEFINE part == SubSeq(s, i + 1, n)
<1>3. /\ part \in Seq(T) /\ Len(part) = IF i + 1 <= n THEN n - (i + 1) + 1 ELSE 0
      /\ \A k \in 1 .. n - (i + 1) + 1 : part[k] = s[(i + 1) + k - 1]
  BY <1>1, <1>2, SubSeqProperties
<1> HIDE DEF part
<1>4. Len(part) = n - i
  BY <1>3
<1>5. ASSUME NEW k \in 1 .. n - i PROVE part[k] = s[i + k]
  <2>1. k \in 1 .. n - (i + 1) + 1 /\ (i + 1) + k - 1 = i + k
    OBVIOUS
  <2> QED BY <1>3, <2>1
<1> QED BY <1>3, <1>4, <1>5 DEF part

\* A sequence that is made of the same is that part.
LEMMA IsSlice ==
    ASSUME NEW T, NEW s \in Seq(T), NEW i \in Nat, NEW n \in Int, i <= n, n <= Len(s),
           NEW t \in Seq(T), Len(t) = n - i, \A k \in 1 .. n - i : t[k] = s[i + k]
    PROVE  t = SubSeq(s, i + 1, n)
<1> DEFINE part == SubSeq(s, i + 1, n)
<1>1. /\ part \in Seq(T) /\ Len(part) = n - i /\ \A k \in 1 .. n - i : part[k] = s[i + k]
  BY SliceFacts
<1> HIDE DEF part
<1>2. \A k \in 1 .. Len(t) : t[k] = part[k]
  BY <1>1
<1>3. t = part
  BY <1>1, <1>2, SeqEqual
<1> QED BY <1>3 DEF part

LEMMA RemoveAtFacts ==
    ASSUME NEW T, NEW s \in Seq(T), NEW i \in 1 .. Len(s)
    PROVE  /\ RemoveAt(s, i) \in Seq(T) /\ Len(RemoveAt(s, i)) = Len(s) - 1
           /\ \A j \in 1 .. Len(s) - 1 :
                 RemoveAt(s, i)[j] = IF j < i THEN s[j] ELSE s[j + 1]
<1> DEFINE a == SubSeq(s, 1, i - 1)
           b == SubSeq(s, i + 1, Len(s))
<1>1. Len(s) \in Nat /\ i \in Nat /\ 1 <= i /\ i <= Len(s) /\ i - 1 \in Nat
  OBVIOUS
<1>2. a \in Seq(T) /\ Len(a) = i - 1 /\ \A j \in 1 .. i - 1 : a[j] = s[j]
  <2>1. /\ SubSeq(s, 0 + 1, i - 1) \in Seq(T) /\ Len(SubSeq(s, 0 + 1, i - 1)) = (i - 1) - 0
        /\ \A k \in 1 .. (i - 1) - 0 : SubSeq(s, 0 + 1, i - 1)[k] = s[0 + k]
    BY <1>1, SliceFacts
  <2> QED BY <1>1, <2>1
<1>3. b \in Seq(T) /\ Len(b) = Len(s) - i /\ \A j \in 1 .. Len(s) - i : b[j] = s[i + j]
  BY <1>1, SliceFacts
<1> HIDE DEF a, b
<1>4. /\ a \o b \in Seq(T) /\ Len(a \o b) = Len(a) + Len(b)
      /\ \A j \in 1 .. Len(a) + Len(b) : (a \o b)[j] = IF j <= Len(a) THEN a[j] ELSE b[j - Len(a)]
  BY <1>2, <1>3, ConcatProperties
<1>5. Len(a \o b) = Len(s) - 1
  BY <1>1, <1>2, <1>3, <1>4
<1>6. ASSUME NEW j \in 1 .. Len(s) - 1 PROVE (a \o b)[j] = IF j < i THEN s[j] ELSE s[j + 1]
  <2>1. j \in 1 .. Len(a) + Len(b)
    BY <1>1, <1>2, <1>3
  <2>2. CASE j < i
    <3>1. j <= Len(a) /\ j \in 1 .. i - 1
      BY <1>1, <1>2, <2>2
    <3> QED BY <1>2, <1>4, <2>1, <2>2, <3>1
  <2>3. CASE ~ (j < i)
    <3>1. ~ (j <= Len(a)) /\ j - Len(a) \in 1 .. Len(s) - i /\ i + (j - Len(a)) = j + 1
      BY <1>1, <1>2, <2>3
    <3> QED BY <1>3, <1>4, <2>1, <2>3, <3>1
  <2> QED BY <2>2, <2>3
<1>7. RemoveAt(s, i) = a \o b
  BY DEF RemoveAt, a, b
<1> QED BY <1>4, <1>5, <1>6, <1>7

\* RemoveFirst, of what is in the sequence at one place, or nowhere.
LEMMA RemoveFirstFacts ==
    ASSUME NEW T, NEW s \in Seq(T), NEW e
    PROVE  /\ RemoveFirst(s, e) \in Seq(T)
           /\ (\A j \in 1 .. Len(s) : s[j] # e) => RemoveFirst(s, e) = s
           /\ \A i \in 1 .. Len(s) :
                 s[i] = e /\ (\A j \in 1 .. Len(s) : s[j] = e => j = i)
                     => RemoveFirst(s, e) = RemoveAt(s, i)
<1> DEFINE I == {j \in 1 .. Len(s) : s[j] = e}
<1>1. RemoveFirst(s, e) = IF \E j \in 1 .. Len(s) : s[j] = e
                          THEN RemoveAt(s, IF I # {} THEN Min(I) ELSE 0) ELSE s
  BY DEF RemoveFirst, SelectInSeq
<1>2. Len(s) \in Nat /\ I \subseteq Nat
  OBVIOUS
<1>3. CASE I = {}
  BY <1>1, <1>3
<1>4. CASE I # {}
  <2>1. PICK i \in I : \A m \in I : i <= m
    BY <1>2, <1>4, LeastNatural
  <2>2. Min(I) \in I
    BY <2>1 DEF Min
  <2>3. RemoveFirst(s, e) = RemoveAt(s, Min(I)) /\ Min(I) \in 1 .. Len(s) /\ s[Min(I)] = e
    BY <1>1, <1>4, <2>2
  <2>4. RemoveFirst(s, e) \in Seq(T)
    BY <2>3, RemoveAtFacts
  <2> QED BY <2>3, <2>4
<1> QED BY <1>3, <1>4

-----------------------------------------------------------------------------
(* One pass.                                                                 *)

\* A pass when the entry at pos is removed from the vector.
LEMMA RemovalKeepsPass ==
    ASSUME NEW items \in Seq(Entries), Distinct(items), NEW pos \in 0 .. Len(items) - 1,
           NEW pass, Fits(pass, items)
    PROVE  LET new  == PassWithout(pass, pos, items[pos + 1])
               left == RemoveAt(items, pos + 1)
           IN  /\ Fits(new, left)
               /\ OnTrack(pass, items) /\ pos < pass.length => OnTrack(new, left)
<1> DEFINE e == items[pos + 1]
           new == PassWithout(pass, pos, e)
           left == RemoveAt(items, pos + 1)
           n == Len(items)
<1>1. /\ n \in Nat /\ pos \in Nat /\ pos + 1 \in 1 .. n
      /\ pass \in Passes /\ pass.index \in Nat /\ pass.length \in Int
      /\ pass.index <= n /\ pass.length <= n /\ pass.todo \in Seq(Entries)
  BY DEF Fits, Passes
<1>2. /\ left \in Seq(Entries) /\ Len(left) = n - 1
      /\ \A j \in 1 .. n - 1 : left[j] = IF j < pos + 1 THEN items[j] ELSE items[j + 1]
  BY <1>1, RemoveAtFacts
<1> DEFINE todo == RemoveFirst(pass.todo, e)
           index == IF pass.index > pos THEN pass.index - 1 ELSE pass.index
<1>3. todo \in Seq(Entries)
  BY <1>1, RemoveFirstFacts
<1>4. index \in Nat /\ index <= n - 1
  BY <1>1
<1>5. /\ new = [pass EXCEPT !.length = @ - 1, !.index = index, !.todo = todo]
      /\ new.length = pass.length - 1 /\ new.index = index /\ new.todo = todo
      /\ new.calling = pass.calling
  BY <1>1 DEF PassWithout, Passes
<1> HIDE DEF new, left, todo, index, e, n
<1>6. new \in Passes
  <2> DEFINE shorter == pass.length - 1
  <2>1. shorter \in Int
    BY <1>1
  <2> HIDE DEF shorter
  <2>2. new = [pass EXCEPT !.length = shorter, !.index = index, !.todo = todo]
    BY <1>5 DEF shorter
  <2> QED BY <1>1, <1>3, <1>4, <2>1, <2>2 DEF Passes
<1>7. Fits(new, left)
  BY <1>1, <1>2, <1>4, <1>5, <1>6 DEF Fits
<1>8. ASSUME OnTrack(pass, items), pos < pass.length PROVE OnTrack(new, left)
  <2> DEFINE i == pass.index
             m == pass.length
  <2>1. i <= m /\ pass.todo = SubSeq(items, i + 1, m)
    BY <1>8 DEF OnTrack
  <2>2. Len(pass.todo) = m - i /\ \A k \in 1 .. m - i : pass.todo[k] = items[i + k]
    BY <1>1, <2>1, SliceFacts DEF n
  <2>3. \A k \in 1 .. n : items[k] = e => k = pos + 1
    <3>1. DOMAIN items = 1 .. n
      BY DEF n
    <3> QED BY <1>1, <3>1 DEF Distinct, e
  <2> HIDE DEF i, m
  <2>4. i \in Nat /\ m \in Int /\ i <= n /\ m <= n /\ pos < m
    BY <1>1, <1>8 DEF i, m
  <2>5. index <= m - 1
    BY <1>1, <2>1, <2>4 DEF index, i
  <2>6. Len(todo) = (m - 1) - index /\ \A k \in 1 .. (m - 1) - index : todo[k] = left[index + k]
    <3>1. CASE i > pos
      <4>1. index = i - 1
        BY <3>1 DEF index, i
      <4>2. \A k \in 1 .. Len(pass.todo) : pass.todo[k] # e
        <5>1. ASSUME NEW k \in 1 .. m - i PROVE items[i + k] # e
          <6>1. i + k \in 1 .. n /\ i + k # pos + 1
            BY <1>1, <2>4, <3>1
          <6> QED BY <2>3, <6>1
        <5> QED BY <2>2, <5>1
      <4>3. todo = pass.todo
        BY <1>1, <4>2, RemoveFirstFacts DEF todo
      <4>4. ASSUME NEW k \in 1 .. m - i PROVE left[index + k] = items[i + k]
        <5>1. index + k \in 1 .. n - 1 /\ ~ (index + k < pos + 1) /\ index + k + 1 = i + k
          BY <1>1, <2>4, <3>1, <4>1
        <5> QED BY <1>2, <5>1
      <4>5. (m - 1) - index = m - i
        BY <2>4, <4>1
      <4> QED BY <2>2, <4>3, <4>4, <4>5
    <3>2. CASE i <= pos
      <4>1. index = i
        BY <1>1, <3>2, <2>4 DEF index, i
      <4> DEFINE q == pos + 1 - i
      <4>2. q \in 1 .. Len(pass.todo) /\ i + q = pos + 1 /\ q \in 1 .. m - i
        BY <1>1, <2>2, <2>4, <3>2
      <4>3. pass.todo[q] = e /\ \A k \in 1 .. Len(pass.todo) : pass.todo[k] = e => k = q
        <5>1. pass.todo[q] = items[i + q]
          BY <2>2, <4>2
        <5>2. ASSUME NEW k \in 1 .. m - i, pass.todo[k] = e PROVE k = q
          <6>0. i + k \in 1 .. n
            BY <1>1, <2>4
          <6>1. items[i + k] = e
            BY <2>2, <5>2
          <6>2. i + k = pos + 1
            BY <2>3, <6>0, <6>1
          <6> QED BY <1>1, <2>4, <6>2
        <5> QED BY <2>2, <4>2, <5>1, <5>2 DEF e
      <4>4. todo = RemoveAt(pass.todo, q)
        BY <1>1, <4>2, <4>3, RemoveFirstFacts DEF todo
      <4> HIDE DEF q
      <4>5. /\ Len(todo) = Len(pass.todo) - 1
            /\ \A k \in 1 .. Len(pass.todo) - 1 :
                  todo[k] = IF k < q THEN pass.todo[k] ELSE pass.todo[k + 1]
        BY <1>1, <4>2, <4>4, RemoveAtFacts
      <4>6. ASSUME NEW k \in 1 .. (m - 1) - i PROVE todo[k] = left[i + k]
        <5>0. k \in 1 .. Len(pass.todo) - 1 /\ k \in 1 .. m - i /\ k + 1 \in 1 .. m - i
          BY <2>2, <2>4
        <5>1. CASE k < q
          <6>1. todo[k] = items[i + k]
            BY <2>2, <4>5, <5>0, <5>1
          <6>2. i + k \in 1 .. n - 1 /\ i + k < pos + 1
            BY <1>1, <2>4, <4>2, <5>1
          <6> QED BY <1>2, <6>1, <6>2
        <5>2. CASE ~ (k < q)
          <6>1. todo[k] = items[i + (k + 1)]
            BY <2>2, <4>5, <5>0, <5>2
          <6>2. i + k \in 1 .. n - 1 /\ ~ (i + k < pos + 1) /\ i + (k + 1) = i + k + 1
            BY <1>1, <2>4, <4>2, <5>2
          <6> QED BY <1>2, <6>1, <6>2
        <5> QED BY <5>1, <5>2
      <4>7. Len(todo) = (m - 1) - i
        BY <2>2, <2>4, <4>5
      <4> QED BY <4>1, <4>6, <4>7
    <3> QED BY <1>1, <2>4, <3>1, <3>2
  <2>7. index \in Nat /\ m - 1 \in Int /\ m - 1 <= Len(left) /\ todo \in Seq(Entries)
    <3>1. Len(left) = n - 1
      BY <1>2
    <3> QED BY <1>1, <1>3, <1>4, <2>4, <3>1
  <2>8. todo = SubSeq(left, index + 1, m - 1)
    BY <1>2, <2>5, <2>6, <2>7, IsSlice
  <2> QED BY <1>5, <2>5, <2>8 DEF OnTrack, m
<1> QED BY <1>7, <1>8 DEF new, left, e

\* A pass when an entry is added at the end of the vector.
LEMMA AdditionKeepsPass ==
    ASSUME NEW items \in Seq(Entries), NEW entry \in Entries, NEW pass, Fits(pass, items)
    PROVE  /\ Fits(pass, Append(items, entry))
           /\ OnTrack(pass, items) => OnTrack(pass, Append(items, entry))
<1> DEFINE more == Append(items, entry)
<1>1. /\ more \in Seq(Entries) /\ Len(more) = Len(items) + 1
      /\ \A k \in 1 .. Len(items) : more[k] = items[k]
  BY AppendProperties
<1> HIDE DEF more
<1>2. /\ Len(items) \in Nat /\ pass.index \in Nat /\ pass.length \in Int /\ pass.todo \in Seq(Entries)
      /\ pass.index <= Len(items) /\ pass.length <= Len(items)
  BY DEF Fits, Passes
<1>3. Fits(pass, more)
  BY <1>1, <1>2 DEF Fits
<1>4. ASSUME OnTrack(pass, items) PROVE OnTrack(pass, more)
  <2> DEFINE i == pass.index
             m == pass.length
  <2>1. i <= m /\ Len(pass.todo) = m - i /\ \A k \in 1 .. m - i : pass.todo[k] = items[i + k]
    BY <1>2, <1>4, SliceFacts DEF OnTrack
  <2> HIDE DEF i, m
  <2>2. i \in Nat /\ m \in Int /\ m <= Len(more) /\ m <= Len(items)
    BY <1>1, <1>2 DEF i, m
  <2>3. \A k \in 1 .. m - i : pass.todo[k] = more[i + k]
    <3>1. ASSUME NEW k \in 1 .. m - i PROVE more[i + k] = items[i + k]
      <4>1. i + k \in 1 .. Len(items)
        BY <1>2, <2>2
      <4> QED BY <1>1, <4>1
    <3> QED BY <2>1, <3>1
  <2>4. pass.todo = SubSeq(more, i + 1, m)
    BY <1>1, <1>2, <2>1, <2>2, <2>3, IsSlice
  <2> QED BY <2>1, <2>4 DEF OnTrack, i, m
<1> QED BY <1>3, <1>4 DEF more

\* A pass that delivers the entry at its index.
LEMMA DeliveryKeepsPass ==
    ASSUME NEW items \in Seq(Entries), Distinct(items), NEW pass, Fits(pass, items),
           pass.index < pass.length
    PROVE  LET new == PassDelivered(pass, items[pass.index + 1])
           IN  Fits(new, items) /\ (OnTrack(pass, items) => OnTrack(new, items))
<1> DEFINE e == items[pass.index + 1]
           new == PassDelivered(pass, e)
           n == Len(items)
           i == pass.index
           m == pass.length
           todo == RemoveFirst(pass.todo, e)
<1>1. /\ n \in Nat /\ i \in Nat /\ m \in Int /\ i < m /\ m <= n
      /\ pass \in Passes /\ pass.todo \in Seq(Entries)
  BY DEF Fits, Passes
<1>2. todo \in Seq(Entries)
  BY <1>1, RemoveFirstFacts
<1>3. new = [pass EXCEPT !.index = i + 1, !.calling = TRUE, !.todo = todo]
  BY DEF PassDelivered
<1> HIDE DEF new, todo
<1>4. /\ new \in Passes /\ new.index = i + 1 /\ new.length = m /\ new.todo = todo
  <2> DEFINE next == i + 1
  <2>1. next \in Nat
    BY <1>1
  <2> HIDE DEF next
  <2>2. new = [pass EXCEPT !.index = next, !.calling = TRUE, !.todo = todo]
    BY <1>3 DEF next
  <2>3. new \in Passes
    BY <1>1, <1>2, <2>1, <2>2 DEF Passes
  <2>4. new.index = next /\ new.length = pass.length /\ new.todo = todo
    BY <1>1, <2>2 DEF Passes
  <2> QED BY <2>3, <2>4 DEF next
<1>5. Fits(new, items)
  BY <1>1, <1>4 DEF Fits
<1>6. ASSUME OnTrack(pass, items) PROVE OnTrack(new, items)
  <2>0. pass.todo = SubSeq(items, i + 1, m) /\ i <= m
    BY <1>6 DEF OnTrack
  <2>1. Len(pass.todo) = m - i /\ \A k \in 1 .. m - i : pass.todo[k] = items[i + k]
    BY <1>1, <2>0, SliceFacts
  <2>2. \A k \in 1 .. n : items[k] = e => k = i + 1
    <3>1. DOMAIN items = 1 .. n /\ i + 1 \in 1 .. n
      BY <1>1
    <3> QED BY <3>1 DEF Distinct
  <2> HIDE DEF i, m, e, n
  <2>3. 1 \in 1 .. Len(pass.todo) /\ pass.todo[1] = e /\ \A k \in 1 .. Len(pass.todo) : pass.todo[k] = e => k = 1
    <3>1. 1 \in 1 .. m - i
      BY <1>1
    <3>2. pass.todo[1] = e
      BY <2>1, <3>1 DEF e, i
    <3>3. ASSUME NEW k \in 1 .. m - i, pass.todo[k] = e PROVE k = 1
      <4>0. i + k \in 1 .. n
        BY <1>1
      <4>1. items[i + k] = e
        BY <2>1, <3>3
      <4>2. i + k = i + 1
        BY <2>2, <4>0, <4>1
      <4> QED BY <1>1, <4>2
    <3> QED BY <2>1, <3>1, <3>2, <3>3
  <2>4. todo = RemoveAt(pass.todo, 1)
    BY <1>1, <2>3, RemoveFirstFacts DEF todo
  <2>5. /\ Len(todo) = Len(pass.todo) - 1
        /\ \A k \in 1 .. Len(pass.todo) - 1 :
              todo[k] = IF k < 1 THEN pass.todo[k] ELSE pass.todo[k + 1]
    <3> DEFINE s == pass.todo
               one == 1
    <3>1. s \in Seq(Entries) /\ one \in 1 .. Len(s)
      BY <1>1, <2>3
    <3> HIDE DEF s, one
    <3>2. /\ Len(RemoveAt(s, one)) = Len(s) - 1
          /\ \A k \in 1 .. Len(s) - 1 : RemoveAt(s, one)[k] = IF k < one THEN s[k] ELSE s[k + 1]
      BY <3>1, RemoveAtFacts
    <3> QED BY <2>4, <3>2 DEF s, one
  <2>6. Len(todo) = m - (i + 1) /\ i + 1 \in Nat /\ i + 1 <= m
    BY <1>1, <2>1, <2>5
  <2>7. ASSUME NEW k \in 1 .. m - (i + 1) PROVE todo[k] = items[(i + 1) + k]
    <3>1. /\ k \in 1 .. Len(pass.todo) - 1 /\ ~ (k < 1)
          /\ k + 1 \in 1 .. m - i /\ (i + 1) + k = i + (k + 1)
      BY <1>1, <2>1
    <3> QED BY <2>1, <2>5, <3>1
  <2>8. todo = SubSeq(items, (i + 1) + 1, m)
    BY <1>1, <1>2, <2>6, <2>7, IsSlice DEF n
  <2> QED BY <1>4, <2>6, <2>8 DEF OnTrack
<1> QED BY <1>5, <1>6 DEF new, e

\* A pass that is begun, over the whole vector.
LEMMA BeginningIsOnTrack ==
    ASSUME NEW l, WellFormed(l)
    PROVE  LET new == Pass(l, l.firstValid) IN Fits(new, l.items) /\ OnTrack(new, l.items)
<1>1. /\ l.items \in Seq(Entries) /\ l.firstValid = 0 /\ Len(l.items) \in Nat
  BY DEF WellFormed
<1> DEFINE todo == SubSeq(l.items, 0 + 1, Len(l.items))
           new == [index |-> 0, length |-> Len(l.items), calling |-> FALSE, todo |-> todo]
<1>2. todo \in Seq(Entries)
  BY <1>1, SliceFacts
<1>3. Pass(l, l.firstValid) = new
  BY <1>1 DEF Pass
<1> HIDE DEF todo
<1>4. new \in Passes
  BY <1>1, <1>2 DEF Passes
<1>5. Fits(new, l.items)
  BY <1>1, <1>4 DEF Fits
<1>6. OnTrack(new, l.items)
  BY <1>1 DEF OnTrack, todo
<1> QED BY <1>3, <1>5, <1>6

-----------------------------------------------------------------------------
(* The operations on the list.                                               *)

LEMMA IsSequence ==
    ASSUME NEW T, NEW n \in Nat, NEW q, q = [p \in 1 .. n |-> q[p]], \A p \in 1 .. n : q[p] \in T
    PROVE  q \in Seq(T) /\ Len(q) = n /\ DOMAIN q = 1 .. n
<1>1. q \in [1 .. n -> T]
  OBVIOUS
<1>2. q \in Seq(T)
  BY <1>1, SeqDef
<1>3. DOMAIN q = 1 .. n /\ DOMAIN q = 1 .. Len(q) /\ Len(q) \in Nat
  BY <1>1, <1>2
<1>4. Len(q) = n
  BY <1>3
<1> QED BY <1>2, <1>3, <1>4

\* What a well-formed list is made of.
LEMMA ListParts ==
    ASSUME NEW l, WellFormed(l)
    PROVE  /\ l.items \in Seq(Entries) /\ DOMAIN l.items = 1 .. Len(l.items) /\ Len(l.items) \in Nat
           /\ l.passes \in Seq(Passes) /\ DOMAIN l.passes = 1 .. Len(l.passes)
           /\ Len(l.passes) \in Nat
           /\ l.firstValid = 0 /\ l.asserts \in BOOLEAN
           /\ \A p \in 1 .. Len(l.passes) : l.passes[p] \in Passes /\ Fits(l.passes[p], l.items)
  BY DEF WellFormed

LEMMA ComposedFacts ==
    ASSUME NEW l, WellFormed(l), NEW items \in Seq(Entries), NEW passes \in Seq(Passes),
           NEW asserts \in BOOLEAN, Distinct(items),
           \A p \in DOMAIN passes : Fits(passes[p], items)
    PROVE  /\ WellFormed(Composed(l, items, passes, asserts))
           /\ Composed(l, items, passes, asserts).items = items
           /\ Composed(l, items, passes, asserts).passes = passes
           /\ Composed(l, items, passes, asserts).asserts = asserts
  BY DEF WellFormed, Composed

LEMMA AdditionKeeps ==
    ASSUME NEW l, WellFormed(l), NEW entry \in Entries,
           \A i \in DOMAIN l.items : l.items[i][2] # entry[2]
    PROVE  Keeps(l, ListAdd(l, entry))
<1> DEFINE items == Append(l.items, entry)
           m == Composed(l, items, l.passes, l.asserts)
<1>1. ListAdd(l, entry) = m
  BY DEF ListAdd, WellFormed, Composed
<1>2. /\ items \in Seq(Entries) /\ Len(items) = Len(l.items) + 1 /\ items[Len(l.items) + 1] = entry
      /\ \A i \in 1 .. Len(l.items) : items[i] = l.items[i]
  BY ListParts, AppendProperties
<1>3. Distinct(items)
  <2>1. Distinct(l.items)
    BY DEF WellFormed
  <2>2. DOMAIN items = DOMAIN l.items \union {Len(l.items) + 1}
    BY <1>2, ListParts
  <2> QED BY <1>2, <2>1, <2>2, ListParts DEF Distinct
<1>4. \A p \in DOMAIN l.passes : /\ Fits(l.passes[p], items)
                                 /\ OnTrack(l.passes[p], l.items) => OnTrack(l.passes[p], items)
  BY ListParts, AdditionKeepsPass
<1> HIDE DEF items
<1>5. WellFormed(m) /\ m.items = items /\ m.passes = l.passes /\ m.asserts = l.asserts
  BY <1>2, <1>3, <1>4, ListParts, ComposedFacts
<1> QED BY <1>1, <1>4, <1>5 DEF Keeps, AllOnTrack

LEMMA RemovalKeeps ==
    ASSUME NEW l, WellFormed(l), NEW v
    PROVE  /\ WellFormed(ListRemove(l, v))
           /\ Len(ListRemove(l, v).passes) = Len(l.passes)
           /\ /\ AllOnTrack(l)
              /\ \A pos \in FoundAt(l, v) : \A p \in DOMAIN l.passes : pos < l.passes[p].length
              => AllOnTrack(ListRemove(l, v))
<1> DEFINE n == Len(l.items)
           k == Len(l.passes)
<1>0. n \in Nat /\ k \in Nat /\ DOMAIN l.passes = 1 .. k /\ DOMAIN l.items = 1 .. n
  BY ListParts
<1>1. CASE FoundAt(l, v) = {}
  BY <1>1 DEF ListRemove
<1>2. CASE FoundAt(l, v) # {}
  <2> DEFINE pos == CHOOSE pos \in FoundAt(l, v) : TRUE
             e == l.items[pos + 1]
             items == RemoveAt(l.items, pos + 1)
             passes == [p \in DOMAIN l.passes |-> PassWithout(l.passes[p], pos, e)]
             asserts == l.asserts /\ \A p \in DOMAIN l.passes : l.passes[p].length > 0
             m == Composed(l, items, passes, asserts)
  <2>1. pos \in FoundAt(l, v)
    BY <1>2
  <2>2. pos \in 0 .. n - 1 /\ pos + 1 \in 1 .. n
    BY <1>0, <2>1, ListParts DEF FoundAt
  <2>3. ListRemove(l, v) = m
    BY <1>2 DEF ListRemove, AdjustForRemove, WellFormed, Composed
  <2> HIDE DEF pos, m
  <2>4. /\ items \in Seq(Entries) /\ Len(items) = n - 1
        /\ \A j \in 1 .. n - 1 : items[j] = IF j < pos + 1 THEN l.items[j] ELSE l.items[j + 1]
    BY <2>2, ListParts, RemoveAtFacts
  <2>5. Distinct(l.items)
    BY DEF WellFormed
  <2> HIDE DEF items
  <2>6. Distinct(items)
    <3> DEFINE Old(j) == IF j < pos + 1 THEN j ELSE j + 1
    <3>1. DOMAIN items = 1 .. n - 1
      BY <1>0, <2>4
    <3>2. \A j \in 1 .. n - 1 : Old(j) \in DOMAIN l.items /\ items[j] = l.items[Old(j)]
      BY <1>0, <2>2, <2>4
    <3>3. \A i, j \in 1 .. n - 1 : Old(i) = Old(j) => i = j
      BY <1>0, <2>2
    <3> HIDE DEF Old
    <3> QED BY <2>5, <3>1, <3>2, <3>3 DEF Distinct
  <2>7. ASSUME NEW p \in 1 .. k
        PROVE  /\ Fits(passes[p], items) /\ passes[p] \in Passes
               /\ OnTrack(l.passes[p], l.items) /\ pos < l.passes[p].length
                    => OnTrack(passes[p], items)
    <3>1. passes[p] = PassWithout(l.passes[p], pos, e) /\ Fits(l.passes[p], l.items)
      BY <1>0, ListParts
    <3> DEFINE new == PassWithout(l.passes[p], pos, e)
    <3>2. /\ Fits(new, items)
          /\ OnTrack(l.passes[p], l.items) /\ pos < l.passes[p].length => OnTrack(new, items)
      BY <2>2, <2>5, <3>1, ListParts, RemovalKeepsPass DEF items
    <3> QED BY <3>1, <3>2 DEF Fits
  <2>8. passes \in Seq(Passes) /\ DOMAIN passes = 1 .. k /\ Len(passes) = k
    <3>1. passes = [p \in 1 .. k |-> passes[p]]
      BY <1>0
    <3> HIDE DEF passes
    <3> QED BY <1>0, <2>7, <3>1, IsSequence
  <2>9. asserts \in BOOLEAN
    BY ListParts
  <2> HIDE DEF passes, asserts
  <2>10. WellFormed(m) /\ m.items = items /\ m.passes = passes /\ m.asserts = asserts
    BY <2>4, <2>6, <2>7, <2>8, <2>9, ComposedFacts DEF m
  <2>11. ASSUME AllOnTrack(l), \A p \in DOMAIN l.passes : pos < l.passes[p].length
         PROVE  AllOnTrack(m)
    <3>1. \A p \in DOMAIN passes : OnTrack(passes[p], items)
      BY <1>0, <2>7, <2>8, <2>11 DEF AllOnTrack
    <3>2. asserts
      <4>1. ASSUME NEW p \in DOMAIN l.passes PROVE l.passes[p].length > 0
        <5>1. l.passes[p].length \in Int /\ pos \in Nat /\ pos < l.passes[p].length
          BY <1>0, <2>2, <2>11, ListParts DEF Passes
        <5> QED BY <5>1
      <4> QED BY <2>11, <4>1 DEF asserts, AllOnTrack
    <3> QED BY <2>10, <3>1, <3>2 DEF AllOnTrack
  <2> QED BY <2>1, <2>3, <2>8, <2>10, <2>11
<1> QED BY <1>1, <1>2

LEMMA ClearingKeeps ==
    ASSUME NEW l, WellFormed(l)
    PROVE  Keeps(l, ListClear(l)) /\ Len(ListClear(l).passes) = Len(l.passes)
<1> DEFINE k == Len(l.passes)
           Cleared(pass) == [pass EXCEPT !.index = 0, !.length = 0, !.todo = <<>>]
           passes == [p \in DOMAIN l.passes |-> Cleared(l.passes[p])]
           items == <<>>
           m == Composed(l, items, passes, l.asserts)
<1>0. k \in Nat /\ DOMAIN l.passes = 1 .. k
  BY ListParts
<1>1. ListClear(l) = m
  BY DEF ListClear, WellFormed, Composed
<1>2. items \in Seq(Entries) /\ Len(items) = 0 /\ Distinct(items)
  BY DEF Distinct
<1>3. ASSUME NEW p \in 1 .. k
      PROVE  passes[p] \in Passes /\ Fits(passes[p], items) /\ OnTrack(passes[p], items)
  <2>1. passes[p] = Cleared(l.passes[p]) /\ l.passes[p] \in Passes
    BY <1>0, ListParts
  <2> HIDE DEF passes, items
  <2>2. passes[p] \in Passes /\ passes[p].index = 0 /\ passes[p].length = 0 /\ passes[p].todo = <<>>
    <3>1. <<>> \in Seq(Entries)
      OBVIOUS
    <3> DEFINE none == <<>>
               old == l.passes[p]
               zero == 0
               new == [old EXCEPT !.index = zero, !.length = zero, !.todo = none]
    <3>2. /\ none \in Seq(Entries) /\ old \in Passes /\ passes[p] = new
          /\ zero \in Nat /\ zero \in Int
      BY <2>1, <3>1
    <3> HIDE DEF none, old, zero
    <3>3. new \in Passes /\ new.index = zero /\ new.length = zero /\ new.todo = none
      BY <3>2 DEF Passes
    <3> QED BY <3>2, <3>3 DEF none, zero
  <2>3. Fits(passes[p], items)
    BY <1>2, <2>2 DEF Fits
  <2>4. SubSeq(items, 0 + 1, 0) = <<>>
    BY SubSeqEmpty
  <2> QED BY <2>2, <2>3, <2>4 DEF OnTrack
<1>4. passes \in Seq(Passes) /\ DOMAIN passes = 1 .. k /\ Len(passes) = k
  <2>1. passes = [p \in 1 .. k |-> passes[p]]
    BY <1>0
  <2> HIDE DEF passes, items
  <2> QED BY <1>0, <1>3, <2>1, IsSequence
<1> HIDE DEF passes, items
<1>5. WellFormed(m) /\ m.items = items /\ m.passes = passes /\ m.asserts = l.asserts
  <2>1. \A p \in DOMAIN passes : Fits(passes[p], items)
    BY <1>3, <1>4
  <2>2. items \in Seq(Entries) /\ Distinct(items)
    BY <1>2
  <2>3. passes \in Seq(Passes)
    BY <1>4
  <2>4. l.asserts \in BOOLEAN
    BY ListParts
  <2> QED BY <2>1, <2>2, <2>3, <2>4, ComposedFacts
<1> HIDE DEF m
<1>6. AllOnTrack(l) => AllOnTrack(m)
  BY <1>3, <1>4, <1>5 DEF AllOnTrack
<1> QED BY <1>1, <1>4, <1>5, <1>6 DEF Keeps

\* The passes are replaced by ones that fit the vector.
LEMMA PassesReplaced ==
    ASSUME NEW l, WellFormed(l), NEW passes \in Seq(Passes),
           \A p \in DOMAIN passes : Fits(passes[p], l.items),
           AllOnTrack(l) => \A p \in DOMAIN passes : OnTrack(passes[p], l.items)
    PROVE  Keeps(l, [l EXCEPT !.passes = passes]) /\ [l EXCEPT !.passes = passes].passes = passes
<1> DEFINE m == [l EXCEPT !.passes = passes]
<1>1. m = Composed(l, l.items, passes, l.asserts)
  BY DEF WellFormed, Composed
<1>2. Distinct(l.items)
  BY DEF WellFormed
<1>3. WellFormed(m) /\ m.items = l.items /\ m.passes = passes /\ m.asserts = l.asserts
  BY <1>1, <1>2, ListParts, ComposedFacts
<1> HIDE DEF m
<1>4. Keeps(l, m)
  BY <1>3 DEF Keeps, AllOnTrack
<1> QED BY <1>3, <1>4 DEF m

LEMMA BeginningKeeps ==
    ASSUME NEW l, WellFormed(l)
    PROVE  Keeps(l, ListBeginNotify(l)) /\ Len(ListBeginNotify(l).passes) = Len(l.passes) + 1
<1> DEFINE new == Pass(l, l.firstValid)
           passes == <<new>> \o l.passes
           k == Len(l.passes)
<1>1. Fits(new, l.items) /\ OnTrack(new, l.items) /\ new \in Passes
  <2>1. Fits(new, l.items) /\ OnTrack(new, l.items)
    BY BeginningIsOnTrack
  <2> QED BY <2>1, Zenon DEF Fits
<1> HIDE DEF new
<1>2. <<new>> \in Seq(Passes) /\ Len(<<new>>) = 1 /\ <<new>>[1] = new
  BY <1>1
<1>3. /\ passes \in Seq(Passes) /\ Len(passes) = k + 1
      /\ \A p \in 1 .. k + 1 : passes[p] = IF p <= 1 THEN new ELSE l.passes[p - 1]
  <2> DEFINE one == <<new>>
  <2>1. one \in Seq(Passes) /\ Len(one) = 1 /\ one[1] = new
    BY <1>2
  <2> HIDE DEF one
  <2>2. /\ one \o l.passes \in Seq(Passes) /\ Len(one \o l.passes) = Len(one) + Len(l.passes)
        /\ \A p \in 1 .. Len(one) + Len(l.passes) : (one \o l.passes)[p] =
                IF p <= Len(one) THEN one[p] ELSE l.passes[p - Len(one)]
    <3> DEFINE rest == l.passes
    <3>1. rest \in Seq(Passes)
      BY ListParts
    <3> HIDE DEF rest
    <3>2. /\ one \o rest \in Seq(Passes) /\ Len(one \o rest) = Len(one) + Len(rest)
          /\ \A p \in 1 .. Len(one) + Len(rest) : (one \o rest)[p] =
                IF p <= Len(one) THEN one[p] ELSE rest[p - Len(one)]
      BY <2>1, <3>1, ConcatProperties
    <3> QED BY <3>2 DEF rest
  <2>3. k \in Nat
    BY ListParts
  <2>4. Len(one \o l.passes) = k + 1
    BY <2>1, <2>2, <2>3
  <2>5. ASSUME NEW p \in 1 .. k + 1
        PROVE  (one \o l.passes)[p] = IF p <= 1 THEN new ELSE l.passes[p - 1]
    <3>1. p \in 1 .. Len(one) + Len(l.passes) /\ (p <= 1 => p = 1)
      BY <2>1, <2>3
    <3> QED BY <2>1, <2>2, <3>1
  <2> QED BY <2>2, <2>4, <2>5 DEF one
<1>4. DOMAIN passes = 1 .. k + 1 /\ k \in Nat
  BY <1>3, ListParts
<1> HIDE DEF passes
<1>5. ASSUME NEW p \in 1 .. k + 1
      PROVE  /\ Fits(passes[p], l.items)
             /\ AllOnTrack(l) => OnTrack(passes[p], l.items)
  <2>1. CASE p <= 1
    BY <1>1, <1>3, <2>1
  <2>2. CASE ~ (p <= 1)
    <3>1. p - 1 \in 1 .. k /\ passes[p] = l.passes[p - 1]
      BY <1>3, <1>4, <2>2
    <3> QED BY <3>1, ListParts DEF AllOnTrack
  <2> QED BY <2>1, <2>2
<1>6. ListBeginNotify(l) = [l EXCEPT !.passes = passes]
  BY DEF ListBeginNotify, passes, new
<1>7. Keeps(l, [l EXCEPT !.passes = passes]) /\ [l EXCEPT !.passes = passes].passes = passes
  BY <1>3, <1>4, <1>5, PassesReplaced
<1> QED BY <1>3, <1>6, <1>7

\* The innermost pass is replaced.
LEMMA InnermostReplaced ==
    ASSUME NEW l, WellFormed(l), l.passes # <<>>, NEW new,
           Fits(new, l.items), OnTrack(l.passes[1], l.items) => OnTrack(new, l.items)
    PROVE  /\ Keeps(l, [l EXCEPT !.passes[1] = new])
           /\ Len([l EXCEPT !.passes[1] = new].passes) = Len(l.passes)
<1> DEFINE passes == [l.passes EXCEPT ![1] = new]
           k == Len(l.passes)
<1>1. k \in Nat /\ DOMAIN l.passes = 1 .. k /\ 1 \in 1 .. k /\ new \in Passes
  BY ListParts DEF Fits
<1>2. /\ passes \in Seq(Passes) /\ Len(passes) = k
      /\ \A p \in 1 .. k : passes[p] = IF p = 1 THEN new ELSE l.passes[p]
  BY <1>1, ListParts, ExceptSeq
<1>3. DOMAIN passes = 1 .. k
  BY <1>1
<1>4. [l EXCEPT !.passes[1] = new] = [l EXCEPT !.passes = passes]
  OBVIOUS
<1> HIDE DEF passes
<1>5. \A p \in 1 .. k : /\ Fits(passes[p], l.items)
                        /\ AllOnTrack(l) => OnTrack(passes[p], l.items)
  BY <1>1, <1>2, ListParts DEF AllOnTrack
<1>6. Keeps(l, [l EXCEPT !.passes = passes]) /\ [l EXCEPT !.passes = passes].passes = passes
  BY <1>2, <1>3, <1>5, PassesReplaced
<1> QED BY <1>2, <1>4, <1>6

LEMMA DeliveryKeeps ==
    ASSUME NEW l, WellFormed(l), l.passes # <<>>, HasNext(l)
    PROVE  Keeps(l, ListDeliver(l)) /\ Len(ListDeliver(l).passes) = Len(l.passes)
<1> DEFINE pass == l.passes[1]
           new == PassDelivered(pass, NextEntry(l))
<1>1. 1 \in 1 .. Len(l.passes) /\ Fits(pass, l.items) /\ pass.index < pass.length
  BY ListParts DEF HasNext
<1>2. Fits(new, l.items) /\ (OnTrack(pass, l.items) => OnTrack(new, l.items))
  <2>1. Distinct(l.items)
    BY DEF WellFormed
  <2>2. NextEntry(l) = l.items[pass.index + 1]
    BY DEF NextEntry
  <2> QED BY <1>1, <2>1, <2>2, ListParts, DeliveryKeepsPass
<1>3. ListDeliver(l) = [l EXCEPT !.passes[1] = new]
  BY DEF ListDeliver
<1> HIDE DEF new
<1> QED BY <1>2, <1>3, InnermostReplaced

LEMMA ReturningKeeps ==
    ASSUME NEW l, WellFormed(l), l.passes # <<>>
    PROVE  /\ Keeps(l, ListCallbackReturns(l))
           /\ Len(ListCallbackReturns(l).passes) = Len(l.passes)
<1> DEFINE pass == l.passes[1]
           new == [pass EXCEPT !.calling = FALSE]
<1>1. 1 \in 1 .. Len(l.passes) /\ Fits(pass, l.items) /\ pass \in Passes
  BY ListParts
<1>2. new \in Passes /\ new.index = pass.index /\ new.length = pass.length /\ new.todo = pass.todo
  BY <1>1 DEF Passes
<1>3. Fits(new, l.items) /\ (OnTrack(pass, l.items) => OnTrack(new, l.items))
  BY <1>1, <1>2 DEF Fits, OnTrack
<1>4. ListCallbackReturns(l) = [l EXCEPT !.passes[1] = new]
  BY DEF ListCallbackReturns
<1> HIDE DEF new
<1> QED BY <1>3, <1>4, InnermostReplaced

LEMMA EndingKeeps ==
    ASSUME NEW l, WellFormed(l), l.passes # <<>>
    PROVE  Keeps(l, ListEndPass(l)) /\ Len(ListEndPass(l).passes) = Len(l.passes) - 1
<1> DEFINE passes == Tail(l.passes)
           k == Len(l.passes)
<1>1. k \in Nat /\ k # 0 /\ DOMAIN l.passes = 1 .. k
  BY ListParts
<1>2. /\ passes \in Seq(Passes) /\ Len(passes) = k - 1
      /\ \A p \in 1 .. k - 1 : passes[p] = l.passes[p + 1]
  BY ListParts, HeadTailProperties
<1>3. DOMAIN passes = 1 .. k - 1
  BY <1>1, <1>2
<1>4. ListEndPass(l) = [l EXCEPT !.passes = passes]
  BY DEF ListEndPass
<1> HIDE DEF passes
<1>5. ASSUME NEW p \in 1 .. k - 1
      PROVE  /\ Fits(passes[p], l.items)
             /\ AllOnTrack(l) => OnTrack(passes[p], l.items)
  <2>1. p + 1 \in 1 .. k
    BY <1>1
  <2> QED BY <1>1, <1>2, <2>1, ListParts DEF AllOnTrack
<1>6. Keeps(l, [l EXCEPT !.passes = passes]) /\ [l EXCEPT !.passes = passes].passes = passes
  BY <1>2, <1>3, <1>5, PassesReplaced
<1> QED BY <1>2, <1>4, <1>6

-----------------------------------------------------------------------------
(* The list as its owner and its listeners use it.                           *)

\* The inductive invariant: well-formed always, and on track unless entries are
\* removed that some pass was not started with.
Steady ==
    /\ WellFormed(list) /\ Len(list.passes) <= MaxDepth
    /\ ~ AnyRemoval => AllOnTrack(list)

LEMMA InitIsSteady == Init => Steady
<1> SUFFICES ASSUME Init PROVE Steady
  OBVIOUS
<1>1. <<>> \in Seq(Entries) /\ <<>> \in Seq(Passes) /\ Len(<<>>) = 0
  OBVIOUS
<1>2. DOMAIN list.items = {} /\ DOMAIN list.passes = {}
  BY DEF Init, EmptyList
<1>3. /\ list \in [items : Seq(Entries), firstValid : {0}, passes : Seq(Passes), asserts : BOOLEAN]
      /\ list.asserts /\ list.passes = <<>>
  BY <1>1 DEF Init, EmptyList
<1>4. WellFormed(list) /\ AllOnTrack(list)
  BY <1>2, <1>3 DEF WellFormed, AllOnTrack, Distinct
<1>5. Len(list.passes) <= MaxDepth
  BY <1>1, <1>3, NotifyListAssumption
<1> QED BY <1>4, <1>5 DEF Steady

\* There is a tag for a new entry, and no entry has it.
LEMMA FreshTagFacts ==
    ASSUME WellFormed(list), UsedTags # Tags
    PROVE  FreshTag \in Tags /\ \A i \in DOMAIN list.items : list.items[i][2] # FreshTag
<1>1. UsedTags \subseteq Tags
  <2>1. ASSUME NEW i \in DOMAIN list.items PROVE list.items[i][2] \in Tags
    <3>1. list.items[i] \in Entries
      BY ListParts
    <3> QED BY <3>1 DEF Entries
  <2> QED BY <2>1 DEF UsedTags
<1>2. PICK t \in Tags \ UsedTags : \A u \in Tags \ UsedTags : t <= u
  <2>1. Tags \ UsedTags # {} /\ Tags \ UsedTags \subseteq Nat
    BY <1>1, NotifyListAssumption
  <2> QED BY <2>1, LeastNatural
<1>3. FreshTag \in Tags \ UsedTags
  BY <1>2 DEF FreshTag
<1> QED BY <1>3 DEF UsedTags

LEMMA SteadyStep == Steady /\ [Next]_list => Steady'
<1> SUFFICES ASSUME Steady, [Next]_list PROVE Steady'
  OBVIOUS
<1> USE NotifyListAssumption
<1>0. /\ WellFormed(list) /\ Len(list.passes) <= MaxDepth /\ (~ AnyRemoval => AllOnTrack(list))
      /\ Len(list.passes) \in Nat
  BY ListParts DEF Steady
<1>1. ASSUME Keeps(list, list'), Len(list'.passes) <= Len(list.passes) PROVE Steady'
  <2>1. WellFormed(list') /\ (~ AnyRemoval => AllOnTrack(list'))
    BY <1>0, <1>1 DEF Keeps
  <2>2. Len(list'.passes) \in Nat
    BY <2>1, ListParts
  <2>3. Len(list'.passes) <= MaxDepth
    BY <1>0, <1>1, <2>2
  <2> QED BY <2>1, <2>3 DEF Steady
<1>2. ASSUME NEW v \in Listeners, AddListener(v) PROVE Steady'
  <2>1. <<v, FreshTag>> \in Entries /\ \A i \in DOMAIN list.items : list.items[i][2] # <<v, FreshTag>>[2]
    BY <1>0, <1>2, FreshTagFacts DEF AddListener, Entries
  <2>2. Keeps(list, ListAdd(list, <<v, FreshTag>>))
    BY <1>0, <2>1, AdditionKeeps
  <2>3. ListAdd(list, <<v, FreshTag>>).passes = list.passes
    BY <1>0 DEF ListAdd, WellFormed
  <2>4. list' = list \/ list' = ListAdd(list, <<v, FreshTag>>)
    BY <1>2 DEF AddListener, ListAddUnique
  <2>5. CASE list' = list
    BY <1>0, <2>5 DEF Steady
  <2>6. CASE list' = ListAdd(list, <<v, FreshTag>>)
    BY <1>0, <1>1, <2>2, <2>3, <2>6
  <2> QED BY <2>4, <2>5, <2>6
<1>3. ASSUME NEW v \in Listeners, RemoveListener(v) PROVE Steady'
  <2>1. /\ list' = ListRemove(list, v)
        /\ ~ AnyRemoval => \A pos \in FoundAt(list, v) :
                               \A p \in DOMAIN list.passes : pos < list.passes[p].length
    BY <1>3 DEF RemoveListener, Covered
  <2>2. /\ WellFormed(list') /\ Len(list'.passes) = Len(list.passes)
        /\ ~ AnyRemoval => AllOnTrack(list')
    BY <1>0, <2>1, RemovalKeeps
  <2> QED BY <1>0, <2>2 DEF Steady
<1>4. CASE ClearListeners
  BY <1>0, <1>1, <1>4, ClearingKeeps DEF ClearListeners
<1>5. CASE BeginNotify
  <2>1. Keeps(list, list') /\ Len(list'.passes) = Len(list.passes) + 1
    BY <1>0, <1>5, BeginningKeeps DEF BeginNotify
  <2>2. Len(list.passes) < MaxDepth
    BY <1>5 DEF BeginNotify
  <2>3. Len(list'.passes) <= MaxDepth
    BY <1>0, <2>1, <2>2
  <2> QED BY <1>0, <2>1, <2>3 DEF Steady, Keeps
<1>6. CASE Deliver
  BY <1>0, <1>1, <1>6, DeliveryKeeps DEF Deliver, AtLoopHead
<1>7. CASE CallbackReturns
  BY <1>0, <1>1, <1>7, ReturningKeeps DEF CallbackReturns, InCallback
<1>8. ASSUME list.passes # <<>>, list' = ListEndPass(list) PROVE Steady'
  <2>1. Keeps(list, list') /\ Len(list'.passes) = Len(list.passes) - 1
    BY <1>0, <1>8, EndingKeeps
  <2>2. Len(list'.passes) <= Len(list.passes)
    BY <1>0, <2>1
  <2> QED BY <1>1, <2>1, <2>2
<1>9. CASE CallbackInterrupts
  BY <1>8, <1>9 DEF CallbackInterrupts, InCallback
<1>10. CASE FinishPass
  BY <1>8, <1>10 DEF FinishPass, AtLoopHead
<1>11. CASE UNCHANGED list
  BY <1>0, <1>11 DEF Steady
<1> QED
  BY <1>2, <1>3, <1>4, <1>5, <1>6, <1>7, <1>9, <1>10, <1>11 DEF Next

LEMMA AlwaysSteady == Spec => []Steady
<1> QED BY InitIsSteady, SteadyStep, PTL DEF Spec

-----------------------------------------------------------------------------
(* The theorems.                                                             *)

\* The list has its type, and holds no more entries than there are tags.
THEOREM TypeCorrect == Spec => []TypeOK
<1>1. Steady => TypeOK
  <2> SUFFICES ASSUME Steady PROVE TypeOK
    OBVIOUS
  <2>1. WellFormed(list) /\ Len(list.passes) <= MaxDepth
    BY DEF Steady
  <2> DEFINE n == Len(list.items)
             tag == [i \in 1 .. n |-> list.items[i][2]]
  <2>2. n \in Nat /\ DOMAIN list.items = 1 .. n /\ \A i \in 1 .. n : list.items[i] \in Entries
    BY <2>1, ListParts
  <2>3. tag \in Injection(1 .. n, Tags)
    <3>1. \A i \in 1 .. n : list.items[i][2] \in Tags
      BY <2>2 DEF Entries
    <3>2. Distinct(list.items)
      BY <2>1 DEF WellFormed
    <3> QED BY <2>2, <3>1, <3>2 DEF Injection, IsInjective, Distinct
  <2>4. Cardinality(1 .. n) <= Cardinality(Tags)
    BY <2>3, FS_Injection, NotifyListAssumption
  <2>5. Cardinality(1 .. n) = n
    <3>1. Cardinality(1 .. n) = IF 1 > n THEN 0 ELSE n - 1 + 1
      BY <2>2, FS_Interval
    <3> QED BY <2>2, <3>1
  <2>6. /\ list.passes \in Seq([index : Nat, length : Int, calling : BOOLEAN, todo : Seq(Entries)])
        /\ list.items \in Seq(Entries) /\ list.firstValid = 0 /\ list.asserts \in BOOLEAN
    BY <2>1, ListParts DEF Passes
  <2> QED BY <2>1, <2>4, <2>5, <2>6 DEF TypeOK
<1> QED BY <1>1, AlwaysSteady, PTL

\* What lies ahead of a pass is what it owes its callbacks, as long as entries are
\* removed only that all passes under way were started with.
THEOREM PassesDeliverInOrder == ~ AnyRemoval /\ Spec => []PassesSeeTheirEntries
<1> SUFFICES ASSUME ~ AnyRemoval PROVE Spec => []PassesSeeTheirEntries
  OBVIOUS
<1>1. Steady => PassesSeeTheirEntries
  BY DEF Steady, AllOnTrack, OnTrack, PassesSeeTheirEntries
<1> QED BY <1>1, AlwaysSteady, PTL

\* And then no VDASSERT of AdjustIteratorsForRemove fails.
THEOREM RemovalsKeepLengths == ~ AnyRemoval /\ Spec => []AssertionsHold
<1> SUFFICES ASSUME ~ AnyRemoval PROVE Spec => []AssertionsHold
  OBVIOUS
<1>1. Steady => AssertionsHold
  BY DEF Steady, AllOnTrack, AssertionsHold
<1> QED BY <1>1, AlwaysSteady, PTL
=============================================================================
