------------------------ MODULE AsyncDispatcherProofs ------------------------
(***************************************************************************)
(* Safety of ATAsyncDispatcher for any number of clients and threads and    *)
(* any number of requests.  Two invariants are proved by induction, each    *)
(* with what it needs to be inductive: that tokens lead to their requests   *)
(* needs the number of requests made so far (Budget), and that no wake-up   *)
(* is lost needs what the flag outside the lock stands for (FlagIsPromise). *)
(* That tokens lead to nobody else's request (TokensAreOwn) is proved of the *)
(* queue without its cancelled entries, and makes it a CancelableQueue.      *)
(***************************************************************************)
EXTENDS AsyncDispatcher, SequenceTheorems, NaturalsInduction, WellFoundedInduction, TLAPS

Entries == Clients \union {Null}

\* Callbacks run and callbacks waiting are all the requests made so far, so
\* that tokens stay below MaxToken.
Budget == (mHeadToken \div 2) + Len(mCallbacks) <= MaxRequests

TokenInv == TypeOK /\ Budget /\ TokensReachRequests

\* The flag is only set while a wake-up message is posted or about to be.
FlagIsPromise ==
    mAsyncWakePending => message \/ \E t \in Threads : wake[t] = "post"

WakeInv == TypeOK /\ NoLostWakeup /\ FlagIsPromise

-----------------------------------------------------------------------------
\* What InternalCancel does to the queue: it keeps its length, changes entries
\* to Null at most, and does so to the one the token stands for.
LEMMA CancelFacts ==
    ASSUME mCallbacks \in Seq(Entries), mHeadToken \in Nat, mHeadToken % 2 = 1,
           NEW tok \in Nat
    PROVE  /\ InternalCancel(tok) \in Seq(Entries)
           /\ Len(InternalCancel(tok)) = Len(mCallbacks)
           /\ \A i \in 1 .. Len(mCallbacks) :
                /\ InternalCancel(tok)[i] \in {mCallbacks[i], Null}
                /\ tok = mHeadToken + 2 * (i - 1) => InternalCancel(tok)[i] = Null
<1> DEFINE offset == (tok - mHeadToken) \div 2
           hit == tok % 2 = 1 /\ tok >= mHeadToken /\ offset < Len(mCallbacks)
<1>1. CASE ~ hit
  <2>1. InternalCancel(tok) = mCallbacks
    BY <1>1 DEF InternalCancel
  <2>2. \A i \in 1 .. Len(mCallbacks) : tok # mHeadToken + 2 * (i - 1)
    <3> SUFFICES ASSUME NEW i \in 1 .. Len(mCallbacks), tok = mHeadToken + 2 * (i - 1)
                 PROVE  hit
      BY <1>1
    <3>1. i \in Int /\ i >= 1 /\ i <= Len(mCallbacks) /\ Len(mCallbacks) \in Nat
      OBVIOUS
    <3>2. tok % 2 = 1 /\ tok >= mHeadToken /\ offset = i - 1
      BY <3>1
    <3> QED BY <3>1, <3>2
  <2> QED BY <2>1, <2>2
<1>2. CASE hit
  <2>1. InternalCancel(tok) = [mCallbacks EXCEPT ![offset + 1] = Null]
    BY <1>2 DEF InternalCancel
  <2>2. offset \in Nat /\ offset + 1 \in 1 .. Len(mCallbacks)
    BY <1>2
  <2>3. \A i \in 1 .. Len(mCallbacks) : tok = mHeadToken + 2 * (i - 1) => i = offset + 1
    <3> TAKE i \in 1 .. Len(mCallbacks)
    <3>1. i \in Int /\ i >= 1
      OBVIOUS
    <3> QED BY <3>1
  <2> HIDE DEF offset
  <2> QED BY <2>1, <2>2, <2>3 DEF Entries
<1> QED BY <1>1, <1>2

\* Every thread a client calls from is one of the threads of the model.
LEMMA ThreadOfClient == ASSUME NEW c \in Clients PROVE ThreadOf(c) \in Threads
  BY DEF ThreadOf, Threads

\* The step case of TokenInv.
LEMMA TokenInvStep == TokenInv /\ [Next]_vars => TokenInv'
<1> SUFFICES ASSUME TokenInv, [Next]_vars PROVE TokenInv'
  OBVIOUS
<1> USE DispatcherAssumption DEF TokenInv, TypeOK, Budget, TokensReachRequests, Entries, MaxToken
<1>0. /\ mCallbacks \in Seq(Entries) /\ Len(mCallbacks) \in Nat
      /\ mHeadToken \in Nat /\ mHeadToken % 2 = 1
      /\ \A c \in Clients : token[c] \in Nat
  OBVIOUS
<1>1. ASSUME NEW c \in Clients, Queue(c)
      PROVE  TokenInv'
  <2>1. /\ ThreadOf(c) \in Threads
        /\ mHeadToken' = mHeadToken /\ main' = main
        /\ mAsyncWakePending' = mAsyncWakePending /\ message' = message
        /\ wake' \in [Threads -> {"none", "check", "set", "post"}]
        /\ mHeadToken \div 2 + Len(mCallbacks) < MaxRequests
    BY <1>1, ThreadOfClient DEF Queue, IsFirst
  <2>2. CASE c \in Tokenless
    <3>1. mCallbacks' = Append(mCallbacks, c) /\ token' = token
      BY <1>1, <2>2 DEF Queue, IsFirst
    <3>2. mCallbacks' \in Seq(Entries) /\ Len(mCallbacks') = Len(mCallbacks) + 1
      BY <1>0, <3>1
    <3>3. TokensReachRequests'
      BY <1>0, <2>1, <2>2, <3>1
    <3> QED BY <1>0, <2>1, <3>1, <3>2, <3>3
  <2>3. CASE c \notin Tokenless
    <3> DEFINE rest == InternalCancel(token[c])
               tok == mHeadToken + 2 * Len(mCallbacks)
    <3>1. mCallbacks' = Append(rest, c) /\ token' = [token EXCEPT ![c] = tok]
      BY <1>1, <2>3 DEF Queue, IsFirst
    <3>2. /\ rest \in Seq(Entries) /\ Len(rest) = Len(mCallbacks)
          /\ \A i \in 1 .. Len(mCallbacks) :
                /\ rest[i] \in {mCallbacks[i], Null}
                /\ token[c] = mHeadToken + 2 * (i - 1) => rest[i] = Null
      BY <1>0, CancelFacts
    <3> HIDE DEF rest
    <3>3. mCallbacks' \in Seq(Entries) /\ Len(mCallbacks') = Len(mCallbacks) + 1
      BY <3>1, <3>2
    <3>4. tok \in 0 .. MaxToken
      BY <1>0, <2>1
    <3>5. TokensReachRequests'
      <4> SUFFICES ASSUME NEW i \in DOMAIN mCallbacks', mCallbacks'[i] \in Clients \ Tokenless
                   PROVE  token'[mCallbacks'[i]] = mHeadToken' + 2 * (i - 1)
        OBVIOUS
      <4>1. CASE i = Len(mCallbacks) + 1
        <5>1. mCallbacks'[i] = c
          <6>1. rest \in Seq(Entries) /\ c \in Entries /\ i = Len(rest) + 1
            BY <3>2, <4>1
          <6> QED BY <3>1, <6>1, AppendProperties
        <5>2. token'[c] = tok
          BY <3>1
        <5>3. tok = mHeadToken' + 2 * (i - 1)
          BY <1>0, <2>1, <4>1
        <5> QED BY <5>1, <5>2, <5>3
      <4>2. CASE i # Len(mCallbacks) + 1
        <5>1. /\ i \in 1 .. Len(mCallbacks) /\ i \in DOMAIN mCallbacks
              /\ mCallbacks'[i] = rest[i]
          BY <1>0, <3>1, <3>2, <3>3, <4>2
        <5>2. mCallbacks[i] = rest[i] /\ rest[i] \in Clients \ Tokenless
          BY <3>2, <5>1
        <5>3. token[rest[i]] = mHeadToken + 2 * (i - 1)
          BY <5>1, <5>2, Zenon
        <5>4. rest[i] # c
          BY <3>2, <5>1, <5>2, <5>3
        <5> QED BY <2>1, <3>1, <5>1, <5>2, <5>3, <5>4
      <4> QED BY <4>1, <4>2
    <3>6. token' \in [Clients -> 0 .. MaxToken]
      BY <3>1, <3>4
    <3>7. Budget'
      BY <1>0, <2>1, <3>3
    <3> QED BY <2>1, <3>3, <3>5, <3>6, <3>7
  <2> QED BY <2>2, <2>3
<1>2. ASSUME NEW c \in Clients, Cancel(c)
      PROVE  TokenInv'
  <2> DEFINE rest == InternalCancel(token[c])
  <2>1. /\ mCallbacks' = rest /\ token' = [token EXCEPT ![c] = 0] /\ c \notin Tokenless
        /\ UNCHANGED <<mHeadToken, main, wake, mAsyncWakePending, message>>
    BY <1>2 DEF Cancel
  <2>2. /\ rest \in Seq(Entries) /\ Len(rest) = Len(mCallbacks)
        /\ \A i \in 1 .. Len(mCallbacks) :
              /\ rest[i] \in {mCallbacks[i], Null}
              /\ token[c] = mHeadToken + 2 * (i - 1) => rest[i] = Null
    BY <1>0, CancelFacts
  <2> HIDE DEF rest
  <2>3. TokensReachRequests'
    <3> SUFFICES ASSUME NEW i \in DOMAIN rest, rest[i] \in Clients \ Tokenless
                 PROVE  token'[rest[i]] = mHeadToken + 2 * (i - 1)
      BY <2>1
    <3>1. i \in 1 .. Len(mCallbacks) /\ mCallbacks[i] = rest[i]
      BY <2>2
    <3>2. token[rest[i]] = mHeadToken + 2 * (i - 1)
      BY <3>1
    <3>3. rest[i] # c
      BY <2>2, <3>1, <3>2
    <3> QED BY <2>1, <3>2, <3>3
  <2> QED BY <1>0, <2>1, <2>2, <2>3
<1>3. CASE RunNext
  <2>1. /\ mCallbacks # <<>> /\ mCallbacks' = Tail(mCallbacks) /\ mHeadToken' = mHeadToken + 2
        /\ main' \in {"run", "callback"}
        /\ UNCHANGED <<token, wake, mAsyncWakePending, message>>
    BY <1>3 DEF RunNext, NextHeadToken
  <2>2. /\ mCallbacks' \in Seq(Entries) /\ Len(mCallbacks') = Len(mCallbacks) - 1
        /\ \A i \in 1 .. Len(mCallbacks) - 1 : mCallbacks'[i] = mCallbacks[i + 1]
    BY <1>0, <2>1
  <2>3. Len(mCallbacks) >= 1
    BY <1>0, <2>1
  <2>4. Budget' /\ mHeadToken' \in 1 .. MaxToken /\ mHeadToken' % 2 = 1
    BY <1>0, <2>1, <2>2, <2>3
  <2>5. TokensReachRequests'
    <3> SUFFICES ASSUME NEW i \in DOMAIN mCallbacks', mCallbacks'[i] \in Clients \ Tokenless
                 PROVE  token'[mCallbacks'[i]] = mHeadToken' + 2 * (i - 1)
      OBVIOUS
    <3>1. i \in 1 .. Len(mCallbacks) - 1
      BY <2>2
    <3>2. mCallbacks'[i] = mCallbacks[i + 1] /\ i + 1 \in DOMAIN mCallbacks
      BY <1>0, <2>2, <3>1
    <3>3. token[mCallbacks[i + 1]] = mHeadToken + 2 * ((i + 1) - 1)
      BY <3>2
    <3>4. mHeadToken + 2 * ((i + 1) - 1) = (mHeadToken + 2) + 2 * (i - 1)
      <4>1. i \in Int /\ mHeadToken \in Int
        BY <1>0, <3>1
      <4> QED BY ONLY <4>1
    <3>5. token' = token /\ mHeadToken' = mHeadToken + 2
      BY <2>1
    <3> QED BY ONLY <3>2, <3>3, <3>4, <3>5
  <2> QED BY <2>1, <2>2, <2>4, <2>5
<1>4. ASSUME NEW t \in Threads, WakeStep(t)
      PROVE  TokenInv'
  BY <1>0, <1>4 DEF WakeStep, CheckWakePending, SetWakePending, PostWake, requests
<1>5. CASE OnWake \/ EndScanline \/ CallbackReturns \/ FinishRun
  BY <1>0, <1>5 DEF OnWake, EndScanline, CallbackReturns, FinishRun, requests
<1>6. CASE UNCHANGED vars
  BY <1>0, <1>6 DEF vars
<1> QED BY <1>1, <1>2, <1>3, <1>4, <1>5, <1>6 DEF Next

LEMMA TokenInvInit == Init => TokenInv
<1> SUFFICES ASSUME Init PROVE TokenInv
  OBVIOUS
<1> USE DispatcherAssumption
<1>1. 1 % 2 = 1 /\ 1 \div 2 = 0
  OBVIOUS
<1>2. TypeOK
  <2>1. mHeadToken \in 1 .. MaxToken /\ mHeadToken % 2 = 1
    BY <1>1 DEF Init, MaxToken
  <2>2. token \in [Clients -> 0 .. MaxToken]
    BY DEF Init, MaxToken
  <2>3. mCallbacks \in Seq(Clients \union {Null}) /\ main \in {"idle", "run", "callback"}
    BY DEF Init
  <2>4. wake \in [Threads -> {"none", "check", "set", "post"}]
    BY DEF Init
  <2>5. mAsyncWakePending \in BOOLEAN /\ message \in BOOLEAN
    BY DEF Init
  <2> QED BY <2>1, <2>2, <2>3, <2>4, <2>5 DEF TypeOK
<1>3. Budget
  BY <1>1 DEF Init, Budget
<1>4. TokensReachRequests
  BY DEF Init, TokensReachRequests
<1> QED BY <1>2, <1>3, <1>4 DEF TokenInv

-----------------------------------------------------------------------------
\* The step case of WakeInv, whose parts are read off the step one by one.
LEMMA WakeInvStep == TypeOK /\ TypeOK' /\ WakeInv /\ [Next]_vars => WakeInv'
<1> SUFFICES ASSUME TypeOK, TypeOK', WakeInv, [Next]_vars
             PROVE  NoLostWakeup' /\ FlagIsPromise'
  BY DEF WakeInv
<1> USE DEF WakeInv, NoLostWakeup, FlagIsPromise
<1>0. wake \in [Threads -> {"none", "check", "set", "post"}]
  BY DEF TypeOK
<1>1. ASSUME NEW c \in Clients, Queue(c)
      PROVE  NoLostWakeup' /\ FlagIsPromise'
  <2> DEFINE t == ThreadOf(c)
  <2>1. t \in Threads /\ wake[t] = "none"
    BY <1>1, ThreadOfClient DEF Queue, IsFirst, MayCall
  <2>2. wake' = [wake EXCEPT ![t] = IF mCallbacks = <<>> THEN "check" ELSE "none"]
    BY <1>1 DEF Queue, IsFirst
  <2>3. UNCHANGED <<main, mAsyncWakePending, message>>
    BY <1>1 DEF Queue, IsFirst
  <2> HIDE DEF t
  <2>4. \A u \in Threads : wake[u] # "none" => wake'[u] = wake[u]
    BY <1>0, <2>1, <2>2
  <2>5. CASE mCallbacks = <<>>
    <3>1. wake'[t] = "check"
      BY <1>0, <2>1, <2>2, <2>5
    <3> QED BY <2>1, <2>3, <2>4, <3>1
  <2>6. CASE mCallbacks # <<>>
    BY <2>3, <2>4, <2>6
  <2> QED BY <2>5, <2>6
<1>2. ASSUME NEW c \in Clients, Cancel(c)
      PROVE  NoLostWakeup' /\ FlagIsPromise'
  <2>1. mCallbacks = <<>> => InternalCancel(token[c]) = <<>>
    <3> SUFFICES ASSUME mCallbacks = <<>> PROVE InternalCancel(token[c]) = <<>>
      OBVIOUS
    <3>1. [mCallbacks EXCEPT ![(token[c] - mHeadToken) \div 2 + 1] = Null] = <<>>
      OBVIOUS
    <3> QED BY <3>1 DEF InternalCancel
  <2> QED BY <1>2, <2>1 DEF Cancel
<1>3. ASSUME NEW t \in Threads, CheckWakePending(t)
      PROVE  NoLostWakeup' /\ FlagIsPromise'
  <2>1. /\ wake[t] = "check" /\ UNCHANGED <<mCallbacks, main, mAsyncWakePending, message>>
        /\ wake' = [wake EXCEPT ![t] = IF mAsyncWakePending THEN "none" ELSE "set"]
    BY <1>3 DEF CheckWakePending, requests
  <2>2. \A u \in Threads : u # t => wake'[u] = wake[u]
    BY <1>0, <2>1
  <2>3. CASE mAsyncWakePending
    <3>1. message \/ \E u \in Threads : u # t /\ wake[u] = "post"
      BY <2>1, <2>3
    <3> QED BY <2>1, <2>2, <3>1
  <2>4. CASE ~ mAsyncWakePending
    <3>1. wake'[t] = "set"
      BY <1>0, <2>1, <2>4
    <3> QED BY <2>1, <2>4, <3>1
  <2> QED BY <2>3, <2>4
<1>4. ASSUME NEW t \in Threads, SetWakePending(t)
      PROVE  NoLostWakeup' /\ FlagIsPromise'
  <2>1. wake'[t] = "post"
    BY <1>0, <1>4 DEF SetWakePending
  <2> QED BY <2>1
<1>5. ASSUME NEW t \in Threads, PostWake(t)
      PROVE  NoLostWakeup' /\ FlagIsPromise'
  BY <1>5 DEF PostWake
<1>6. CASE OnWake \/ EndScanline
  BY <1>6 DEF OnWake, EndScanline, requests
<1>7. CASE RunNext \/ CallbackReturns
  BY <1>7 DEF RunNext, NextHeadToken, CallbackReturns
<1>8. CASE FinishRun
  BY <1>8 DEF FinishRun, requests
<1>9. CASE UNCHANGED vars
  BY <1>9 DEF vars
<1> QED
  BY <1>1, <1>2, <1>3, <1>4, <1>5, <1>6, <1>7, <1>8, <1>9 DEF Next, WakeStep

-----------------------------------------------------------------------------
(* The queue without its cancelled entries.                                  *)

LEMMA LeastNatural ==
    ASSUME NEW S, S \subseteq Nat, S # {}
    PROVE  \E n \in S : \A m \in S : n <= m
<1>1. PICK n \in S : \A m \in S : ~ (<<m, n>> \in OpToRel(<, Nat))
  BY NatLessThanWellFounded, WFMin, Zenon
<1>2. ASSUME NEW m \in S PROVE ~ (m < n)
  BY <1>1, Zenon DEF OpToRel
<1>3. \A m \in S : n <= m
  BY <1>2
<1> QED BY <1>3

\* What Packed makes of the first entries of a list, for each number up to m.
PackedUpTo(f, list, m) ==
    f = [n \in 0 .. m |-> IF n = 0 THEN <<>>
                          ELSE IF list[n] = Null THEN f[n - 1] ELSE Append(f[n - 1], list[n])]

LEMMA PackedSteps ==
    ASSUME NEW list, NEW m \in Nat, NEW f, PackedUpTo(f, list, m)
    PROVE  /\ f[0] = <<>>
           /\ \A n \in 1 .. m :
                 f[n] = IF list[n] = Null THEN f[n - 1] ELSE Append(f[n - 1], list[n])
<1> DEFINE More(n) == IF list[n] = Null THEN f[n - 1] ELSE Append(f[n - 1], list[n])
<1>1. f = [n \in 0 .. m |-> IF n = 0 THEN <<>> ELSE More(n)]
  BY DEF PackedUpTo
<1> HIDE DEF More
<1>2. \A n \in 0 .. m : f[n] = IF n = 0 THEN <<>> ELSE More(n)
  BY <1>1
<1>3. 0 \in 0 .. m /\ \A n \in 1 .. m : n \in 0 .. m /\ n # 0
  OBVIOUS
<1> QED BY <1>2, <1>3 DEF More

LEMMA HavePacked ==
    ASSUME NEW list, NEW m \in Nat
    PROVE  \E f : PackedUpTo(f, list, m)
<1> DEFINE Good(k) == \E f : PackedUpTo(f, list, k)
           Bad == {k \in Nat : ~ Good(k)}
<1>1. Good(0)
  <2> DEFINE f == [n \in 0 .. 0 |-> <<>>]
  <2>1. PackedUpTo(f, list, 0)
    <3>1. \A n \in 0 .. 0 : n = 0
      OBVIOUS
    <3> QED BY <3>1 DEF PackedUpTo
  <2> HIDE DEF f
  <2> QED BY <2>1
<1>2. ASSUME NEW k \in Nat, Good(k) PROVE Good(k + 1)
  <2>1. PICK f : PackedUpTo(f, list, k)
    BY <1>2
  <2> DEFINE More(h, n) == IF list[n] = Null THEN h[n - 1] ELSE Append(h[n - 1], list[n])
             g == [n \in 0 .. k + 1 |-> IF n = 0 THEN <<>> ELSE More(f, n)]
  <2>2. f[0] = <<>> /\ \A n \in 1 .. k : f[n] = More(f, n)
    BY <2>1, PackedSteps
  <2>3. \A n \in 0 .. k : g[n] = f[n]
    <3> HIDE DEF More
    <3>1. \A n \in 0 .. k : n \in 0 .. k + 1 /\ (n = 0 \/ n \in 1 .. k)
      OBVIOUS
    <3> QED BY <2>2, <3>1
  <2>4. \A n \in 0 .. k + 1 : n # 0 => n - 1 \in 0 .. k
    OBVIOUS
  <2>5. \A n \in 0 .. k + 1 : n # 0 => More(f, n) = More(g, n)
    <3> HIDE DEF g
    <3> QED BY <2>3, <2>4
  <2>6. g = [n \in 0 .. k + 1 |-> IF n = 0 THEN <<>> ELSE More(g, n)]
    <3> HIDE DEF More
    <3> QED BY <2>5
  <2>7. PackedUpTo(g, list, k + 1)
    <3> HIDE DEF g
    <3> QED BY <2>6 DEF PackedUpTo
  <2> QED BY <2>7
<1> HIDE DEF Good
<1>3. Bad = {}
  <2>1. SUFFICES ASSUME Bad # {} PROVE FALSE
    OBVIOUS
  <2>2. PICK k \in Bad : \A j \in Bad : k <= j
    BY <2>1, LeastNatural
  <2>3. k \in Nat /\ ~ Good(k) /\ k # 0
    BY <1>1, <2>2
  <2>4. k - 1 \in Nat /\ (k - 1) + 1 = k /\ ~ (k <= k - 1)
    BY <2>3
  <2>5. Good(k - 1)
    BY <2>2, <2>4
  <2>6. Good((k - 1) + 1)
    BY <1>2, <2>4, <2>5
  <2> QED BY <2>3, <2>4, <2>6
<1>4. Good(m)
  BY <1>3
<1> QED BY <1>4 DEF Good

BeginAlike(a, b, j, S) == \A n \in 1 .. j : a[n] = b[n] /\ a[n] \in S \union {Null}

\* Lists that begin alike have the same prefixes so far, sequences without Null.
LEMMA SamePacked ==
    ASSUME NEW S, NEW a, NEW b, NEW m \in Nat, NEW k \in Nat, NEW f, NEW g,
           PackedUpTo(f, a, m), PackedUpTo(g, b, k), NEW j \in Nat, j <= m, j <= k,
           BeginAlike(a, b, j, S)
    PROVE  f[j] = g[j] /\ f[j] \in Seq(S)
<1> DEFINE Good(n) == f[n] = g[n] /\ f[n] \in Seq(S)
           Bad == {n \in 0 .. j : ~ Good(n)}
<1>0. /\ f[0] = <<>> /\ \A n \in 1 .. m : f[n] = IF a[n] = Null THEN f[n - 1] ELSE Append(f[n - 1], a[n])
      /\ g[0] = <<>> /\ \A n \in 1 .. k : g[n] = IF b[n] = Null THEN g[n - 1] ELSE Append(g[n - 1], b[n])
  BY PackedSteps
<1>1. Good(0)
  BY <1>0
<1>2. ASSUME NEW n \in 1 .. j, Good(n - 1) PROVE Good(n)
  <2>1. n \in 1 .. m /\ n \in 1 .. k
    OBVIOUS
  <2> DEFINE s == f[n - 1]
             x == a[n]
  <2>2. s \in Seq(S) /\ g[n - 1] = s /\ b[n] = x /\ x \in S \union {Null}
    BY <1>2 DEF BeginAlike
  <2>3. /\ f[n] = IF x = Null THEN s ELSE Append(s, x)
        /\ g[n] = IF x = Null THEN s ELSE Append(s, x)
    BY <1>0, <2>1, <2>2
  <2> HIDE DEF s, x
  <2>4. x # Null => Append(s, x) \in Seq(S)
    BY <2>2
  <2> QED BY <2>2, <2>3, <2>4
<1> HIDE DEF Good
<1>3. Bad = {}
  <2>1. SUFFICES ASSUME Bad # {} PROVE FALSE
    OBVIOUS
  <2>2. PICK n \in Bad : \A i \in Bad : n <= i
    <3>1. Bad \subseteq Nat
      OBVIOUS
    <3> QED BY <2>1, <3>1, LeastNatural
  <2>3. n \in 1 .. j /\ ~ Good(n)
    BY <1>1, <2>2
  <2>4. n - 1 \in 0 .. j /\ ~ (n <= n - 1)
    BY <2>3
  <2>5. Good(n - 1)
    BY <2>2, <2>4
  <2> QED BY <1>2, <2>3, <2>5
<1>4. Good(j)
  BY <1>3
<1> QED BY <1>4 DEF Good

LEMMA PackedFacts ==
    ASSUME NEW S, NEW list \in Seq(S \union {Null}), NEW f, PackedUpTo(f, list, Len(list))
    PROVE  Packed(list) = f[Len(list)] /\ Packed(list) \in Seq(S)
<1> DEFINE m == Len(list)
           E(h) == h = [n \in 0 .. m |-> IF n = 0 THEN <<>>
                        ELSE IF list[n] = Null THEN h[n - 1] ELSE Append(h[n - 1], list[n])]
           upTo == CHOOSE h : E(h)
<1>1. Packed(list) = upTo[m]
  BY DEF Packed
<1>2. E(upTo)
  <2>1. E(f)
    BY DEF PackedUpTo
  <2> QED BY <2>1
<1> HIDE DEF upTo
<1>3. PackedUpTo(upTo, list, m)
  BY <1>2 DEF PackedUpTo
<1>4. m \in Nat /\ \A n \in 1 .. m : list[n] \in S \union {Null}
  OBVIOUS
<1> HIDE DEF m
<1>5. PackedUpTo(f, list, m) /\ m <= m
  BY <1>4 DEF m
<1>6. upTo[m] = f[m] /\ upTo[m] \in Seq(S)
  <2>1. BeginAlike(list, list, m, S)
    BY <1>4 DEF BeginAlike
  <2> QED BY <1>3, <1>4, <1>5, <2>1, SamePacked
<1> QED BY <1>1, <1>6 DEF m

LEMMA PackedType ==
    ASSUME NEW S, NEW list \in Seq(S \union {Null})
    PROVE  Packed(list) \in Seq(S)
<1>1. Len(list) \in Nat
  OBVIOUS
<1>2. PICK f : PackedUpTo(f, list, Len(list))
  BY <1>1, HavePacked
<1> QED BY <1>2, PackedFacts

LEMMA PackedEmpty == Packed(<<>>) = <<>>
<1>1. <<>> \in Seq({} \union {Null}) /\ Len(<<>>) = 0
  OBVIOUS
<1>2. PICK f : PackedUpTo(f, <<>>, 0)
  BY HavePacked
<1>3. f[0] = <<>>
  BY <1>2, PackedSteps
<1>4. Packed(<<>>) = f[0]
  BY <1>1, <1>2, PackedFacts
<1> QED BY <1>3, <1>4

LEMMA PackedAppend ==
    ASSUME NEW S, NEW list \in Seq(S \union {Null}), NEW x \in S \union {Null}
    PROVE  Packed(Append(list, x)) = IF x = Null THEN Packed(list) ELSE Append(Packed(list), x)
<1> DEFINE m == Len(list)
           more == Append(list, x)
<1>1. /\ m \in Nat /\ m + 1 \in Nat /\ more \in Seq(S \union {Null}) /\ Len(more) = m + 1
      /\ more[m + 1] = x /\ \A n \in 1 .. m : more[n] = list[n] /\ list[n] \in S \union {Null}
  OBVIOUS
<1>m. Len(list) = m
  OBVIOUS
<1> HIDE DEF m, more
<1>2. PICK f : PackedUpTo(f, list, m)
  BY <1>1, HavePacked
<1>3. PICK g : PackedUpTo(g, more, m + 1)
  BY <1>1, HavePacked
<1>4. Packed(list) = f[m] /\ Packed(more) = g[m + 1]
  BY <1>1, <1>m, <1>2, <1>3, PackedFacts
<1>5. f[m] = g[m]
  <2>1. m <= m /\ m <= m + 1
    BY <1>1
  <2>2. BeginAlike(list, more, m, S)
    BY <1>1 DEF BeginAlike
  <2>3. f[m] = g[m] /\ f[m] \in Seq(S)
    BY <1>1, <1>2, <1>3, <2>1, <2>2, SamePacked
  <2> QED BY <2>3
<1>6. g[m + 1] = IF x = Null THEN g[m] ELSE Append(g[m], x)
  <2>1. m + 1 \in 1 .. m + 1 /\ (m + 1) - 1 = m
    BY <1>1
  <2>2. \A n \in 1 .. m + 1 :
            g[n] = IF more[n] = Null THEN g[n - 1] ELSE Append(g[n - 1], more[n])
    BY <1>1, <1>3, PackedSteps
  <2>3. g[m + 1] = IF more[m + 1] = Null THEN g[(m + 1) - 1] ELSE Append(g[(m + 1) - 1], more[m + 1])
    BY <2>1, <2>2
  <2> QED BY <1>1, <2>1, <2>3
<1> QED BY <1>4, <1>5, <1>6 DEF more

LEMMA ConcatOne ==
    ASSUME NEW T, NEW s \in Seq(T), NEW t \in Seq(T), NEW x \in T
    PROVE  s \o Append(t, x) = Append(s \o t, x)
<1>1. <<x>> \in Seq(T) /\ s \o t \in Seq(T)
  BY ConcatProperties
<1>2. Append(t, x) = t \o <<x>> /\ Append(s \o t, x) = (s \o t) \o <<x>>
  BY <1>1, AppendIsConcat
<1>3. (s \o t) \o <<x>> = s \o (t \o <<x>>)
  BY <1>1, ConcatAssociative
<1> QED BY <1>2, <1>3

\* Packing a list in two halves.
LEMMA PackedConcat ==
    ASSUME NEW S, NEW s \in Seq(S \union {Null}), NEW t \in Seq(S \union {Null})
    PROVE  Packed(s \o t) = Packed(s) \o Packed(t)
<1> DEFINE T == S \union {Null}
           First(n) == SubSeq(t, 1, n)
           Good(n) == Packed(s \o First(n)) = Packed(s) \o Packed(First(n))
           Bad == {n \in 0 .. Len(t) : ~ Good(n)}
<1>0. Len(t) \in Nat /\ Packed(s) \in Seq(S) /\ s \in Seq(T) /\ t \in Seq(T)
  <2>1. Packed(s) \in Seq(S)
    BY PackedType
  <2> QED BY <2>1
<1>a. \A n \in 0 .. Len(t) : First(n) \in Seq(T)
  OBVIOUS
<1>b. First(0) = <<>> /\ First(Len(t)) = t
  BY <1>0, SubSeqEmpty, SubSeqFull
<1>c. ASSUME NEW n \in 1 .. Len(t) PROVE First(n) = Append(First(n - 1), t[n]) /\ t[n] \in T
  <2>1. SubSeq(t, 1, n) = SubSeq(t, 1, n - 1) \o <<t[n]>>
    <3>1. 1 \in 1 .. Len(t) /\ n \in 1 .. Len(t)
      OBVIOUS
    <3> QED BY <1>0, <3>1, SubSeqRecursiveSecond
  <2>2. First(n - 1) \in Seq(T) /\ t[n] \in T
    <3>1. n - 1 \in 0 .. Len(t)
      OBVIOUS
    <3>2. First(n - 1) \in Seq(T)
      BY <1>a, <3>1
    <3> QED BY <3>2
  <2> QED BY <2>1, <2>2, AppendIsConcat
<1> HIDE DEF First
<1>1. Good(0)
  <2>1. s \o <<>> = s /\ Packed(s) \o <<>> = Packed(s)
    BY <1>0, ConcatEmptySeq
  <2> QED BY <1>b, <2>1, PackedEmpty
<1>2. ASSUME NEW n \in 1 .. Len(t), Good(n - 1) PROVE Good(n)
  <2> DEFINE u == First(n - 1)
             x == t[n]
  <2>1. u \in Seq(T) /\ x \in T /\ First(n) = Append(u, x) /\ s \o u \in Seq(T)
    <3>1. n - 1 \in 0 .. Len(t)
      OBVIOUS
    <3>2. u \in Seq(T)
      BY <1>a, <3>1
    <3>3. s \o u \in Seq(T)
      BY <1>0, <3>2, ConcatProperties
    <3> QED BY <1>c, <3>2, <3>3
  <2>2. Packed(s \o u) = Packed(s) \o Packed(u)
    BY <1>2
  <2> HIDE DEF u, x
  <2>3. s \o First(n) = Append(s \o u, x)
    BY <1>0, <2>1, ConcatOne
  <2>4. /\ Packed(s \o First(n)) = IF x = Null THEN Packed(s \o u) ELSE Append(Packed(s \o u), x)
        /\ Packed(First(n)) = IF x = Null THEN Packed(u) ELSE Append(Packed(u), x)
    BY <2>1, <2>3, PackedAppend
  <2>5. CASE x = Null
    BY <2>2, <2>4, <2>5
  <2>6. CASE x # Null
    <3>1. x \in S /\ Packed(u) \in Seq(S)
      BY <2>1, <2>6, PackedType
    <3>2. Packed(s) \o Append(Packed(u), x) = Append(Packed(s) \o Packed(u), x)
      BY <1>0, <3>1, ConcatOne
    <3> QED BY <2>2, <2>4, <2>6, <3>2
  <2> QED BY <2>5, <2>6
<1> HIDE DEF Good
<1>3. Bad = {}
  <2>1. SUFFICES ASSUME Bad # {} PROVE FALSE
    OBVIOUS
  <2>2. PICK n \in Bad : \A i \in Bad : n <= i
    <3>1. Bad \subseteq Nat
      OBVIOUS
    <3> QED BY <2>1, <3>1, LeastNatural
  <2>3. n \in 1 .. Len(t) /\ ~ Good(n)
    BY <1>1, <2>2
  <2>4. n - 1 \in 0 .. Len(t) /\ ~ (n <= n - 1)
    BY <2>3
  <2>5. Good(n - 1)
    BY <2>2, <2>4
  <2> QED BY <1>2, <2>3, <2>5
<1>4. Good(Len(t))
  BY <1>0, <1>3
<1> QED BY <1>4, <1>b DEF Good

LEMMA PackedOne ==
    ASSUME NEW S, NEW x \in S \union {Null}
    PROVE  Packed(<<x>>) = IF x = Null THEN <<>> ELSE <<x>>
<1>1. <<>> \in Seq(S \union {Null}) /\ Append(<<>>, x) = <<x>>
  OBVIOUS
<1> QED BY <1>1, PackedAppend, PackedEmpty

\* Removing an entry from between others that are not like it on the left.
LEMMA RemoveBetween ==
    ASSUME NEW T, NEW a \in Seq(T), NEW b \in Seq(T), NEW x \in T, \A i \in 1 .. Len(a) : a[i] # x
    PROVE  RemoveFirst((a \o <<x>>) \o b, x) = a \o b
<1> DEFINE s == (a \o <<x>>) \o b
           k == Len(a) + 1
           n == Len(s)
           I == {j \in 1 .. n : s[j] = x}
<1>1. <<x>> \in Seq(T) /\ Len(<<x>>) = 1
  OBVIOUS
<1>2. /\ a \o <<x>> \in Seq(T) /\ Len(a \o <<x>>) = k
      /\ \A i \in 1 .. k : (a \o <<x>>)[i] = IF i <= Len(a) THEN a[i] ELSE <<x>>[i - Len(a)]
  BY <1>1, ConcatProperties
<1>3. /\ s \in Seq(T) /\ n = k + Len(b)
      /\ \A i \in 1 .. k + Len(b) :
            s[i] = IF i <= k THEN (a \o <<x>>)[i] ELSE b[i - k]
  BY <1>2, ConcatProperties
<1>4. Len(a) \in Nat /\ Len(b) \in Nat /\ k \in Nat /\ k >= 1 /\ k - Len(a) = 1
  OBVIOUS
<1> HIDE DEF s, k, n
<1>5. k \in 1 .. n /\ s[k] = x
  <2>1. k \in 1 .. k /\ k \in 1 .. k + Len(b) /\ k <= k /\ ~ (k <= Len(a))
    BY <1>4 DEF k
  <2>2. s[k] = (a \o <<x>>)[k] /\ (a \o <<x>>)[k] = <<x>>[k - Len(a)]
    BY <1>2, <1>3, <2>1
  <2> QED BY <1>3, <1>4, <2>1, <2>2
<1>6. ASSUME NEW j \in 1 .. n, j < k PROVE s[j] = a[j] /\ j \in 1 .. Len(a)
  <2>1. j \in 1 .. k /\ j \in 1 .. k + Len(b) /\ j <= k /\ j <= Len(a) /\ j \in 1 .. Len(a)
    BY <1>3, <1>4, <1>6 DEF k
  <2> QED BY <1>2, <1>3, <2>1
<1>7. RemoveFirst(s, x) = IF \E j \in 1 .. n : s[j] = x
                          THEN RemoveAt(s, IF I # {} THEN Min(I) ELSE 0) ELSE s
  BY DEF RemoveFirst, SelectInSeq, n
<1>8. k \in I /\ \A j \in I : k <= j
  <2>1. k \in I
    BY <1>5
  <2>2. ASSUME NEW j \in I PROVE ~ (j < k)
    BY <1>6, <2>2
  <2>3. \A j \in I : j \in Nat
    OBVIOUS
  <2> QED BY <1>4, <2>1, <2>2, <2>3
<1>9. I \subseteq Nat
  OBVIOUS
<1> HIDE DEF I
<1>10. Min(I) = k
  <2>1. \E i \in I : \A j \in I : i <= j
    BY <1>8
  <2>2. Min(I) \in I /\ \A j \in I : Min(I) <= j
    BY <2>1 DEF Min
  <2>3. Min(I) \in Nat /\ k <= Min(I) /\ Min(I) <= k
    BY <1>8, <1>9, <2>2
  <2> QED BY <1>4, <2>3
<1>11. RemoveFirst(s, x) = SubSeq(s, 1, k - 1) \o SubSeq(s, k + 1, n)
  <2>1. I # {} /\ \E j \in 1 .. n : s[j] = x
    BY <1>5, <1>8
  <2> QED BY <1>7, <1>10, <2>1 DEF RemoveAt, n
<1>12. SubSeq(s, 1, k - 1) = a
  <2> DEFINE u == SubSeq(s, 1, k - 1)
  <2>1. \A i \in 1 .. k - 1 : s[i] \in T /\ i \in 1 .. n /\ i < k
    BY <1>3, <1>4, ElementOfSeq DEF n
  <2>2. u \in Seq(T) /\ Len(u) = Len(a) /\ \A i \in 1 .. Len(a) : u[i] = s[i]
    <3>1. k - 1 = Len(a) /\ 1 \in Int /\ k - 1 \in Int
      BY <1>4
    <3>2. /\ u \in Seq(T) /\ Len(u) = IF 1 <= k - 1 THEN (k - 1) - 1 + 1 ELSE 0
          /\ \A i \in 1 .. (k - 1) - 1 + 1 : u[i] = s[1 + i - 1]
      BY <2>1, <3>1, SubSeqProperties
    <3> HIDE DEF u
    <3> QED BY <1>4, <3>1, <3>2
  <2> HIDE DEF u
  <2>3. \A i \in 1 .. Len(a) : u[i] = a[i]
    <3>1. \A i \in 1 .. Len(a) : i \in 1 .. n /\ i < k
      BY <1>3, <1>4 DEF k
    <3> QED BY <1>6, <2>2, <3>1
  <2>4. u = a
    BY <2>2, <2>3, SeqEqual
  <2> QED BY <2>4 DEF u
<1>13. SubSeq(s, k + 1, n) = b
  <2> DEFINE u == SubSeq(s, k + 1, n)
  <2>1. \A i \in k + 1 .. n : s[i] \in T /\ i \in 1 .. k + Len(b) /\ ~ (i <= k)
    BY <1>3, <1>4, ElementOfSeq DEF n
  <2>2. u \in Seq(T) /\ Len(u) = Len(b) /\ \A i \in 1 .. Len(b) : u[i] = s[k + i]
    <3>1. n - (k + 1) + 1 = Len(b) /\ k + 1 \in Int /\ n \in Int
      BY <1>3, <1>4
    <3>2. /\ u \in Seq(T) /\ Len(u) = IF k + 1 <= n THEN n - (k + 1) + 1 ELSE 0
          /\ \A i \in 1 .. n - (k + 1) + 1 : u[i] = s[(k + 1) + i - 1]
      BY <2>1, <3>1, SubSeqProperties
    <3> HIDE DEF u
    <3>3. \A i \in 1 .. Len(b) : (k + 1) + i - 1 = k + i
      BY <1>4
    <3>4. Len(u) = Len(b)
      BY <1>3, <1>4, <3>1, <3>2
    <3> QED BY <3>1, <3>2, <3>3, <3>4
  <2> HIDE DEF u
  <2>3. \A i \in 1 .. Len(b) : u[i] = b[i]
    <3>1. \A i \in 1 .. Len(b) : k + i \in 1 .. k + Len(b) /\ ~ (k + i <= k) /\ (k + i) - k = i
      BY <1>4
    <3> QED BY <1>3, <2>2, <3>1
  <2>4. u = b
    BY <2>2, <2>3, SeqEqual
  <2> QED BY <2>4 DEF u
<1> QED BY <1>11, <1>12, <1>13 DEF s

-----------------------------------------------------------------------------
(* Queueing and cancelling on the queue without its cancelled entries.       *)

QueueShape ==
    /\ mCallbacks \in Seq(Entries) /\ mHeadToken \in Nat /\ mHeadToken % 2 = 1
    /\ token \in [Clients -> Nat]

\* What InternalCancel does to the queue, in full.
LEMMA CancelExact ==
    ASSUME QueueShape, NEW tok \in Nat
    PROVE  \/ InternalCancel(tok) = mCallbacks
           \/ \E i \in 1 .. Len(mCallbacks) :
                 /\ tok = mHeadToken + 2 * (i - 1)
                 /\ InternalCancel(tok) = [mCallbacks EXCEPT ![i] = Null]
<1> DEFINE offset == (tok - mHeadToken) \div 2
           hit == tok % 2 = 1 /\ tok >= mHeadToken /\ offset < Len(mCallbacks)
<1>0. mHeadToken \in Nat /\ mHeadToken % 2 = 1 /\ Len(mCallbacks) \in Nat
  BY DEF QueueShape
<1>1. CASE ~ hit
  BY <1>1 DEF InternalCancel
<1>2. CASE hit
  <2>1. InternalCancel(tok) = [mCallbacks EXCEPT ![offset + 1] = Null]
    BY <1>2 DEF InternalCancel
  <2>2. offset + 1 \in 1 .. Len(mCallbacks) /\ tok = mHeadToken + 2 * ((offset + 1) - 1)
    BY <1>0, <1>2
  <2> HIDE DEF offset
  <2> QED BY <2>1, <2>2
<1> QED BY <1>1, <1>2

CutAt(list, new, i, y, a, b) ==
    /\ list = (a \o <<list[i]>>) \o b
    /\ new = (a \o <<y>>) \o b
    /\ Len(a) = i - 1 /\ \A j \in 1 .. Len(a) : a[j] = list[j]

\* A queue is what is before an entry, the entry and what is behind.
LEMMA Parts ==
    ASSUME NEW T, NEW list \in Seq(T), NEW i \in 1 .. Len(list), NEW y \in T
    PROVE  \E a, b \in Seq(T) : CutAt(list, [list EXCEPT ![i] = y], i, y, a, b)
<1> DEFINE n == Len(list)
           a == SubSeq(list, 1, i - 1)
           b == SubSeq(list, i + 1, n)
           x == list[i]
           new == [list EXCEPT ![i] = y]
           s == (a \o <<x>>) \o b
           t == (a \o <<y>>) \o b
<1>1. n \in Nat /\ i \in 1 .. n /\ x \in T
  OBVIOUS
<1>2. a \in Seq(T) /\ Len(a) = i - 1 /\ \A j \in 1 .. i - 1 : a[j] = list[j]
  <2>1. \A j \in 1 .. i - 1 : list[j] \in T
    OBVIOUS
  <2>2. 1 \in Int /\ i - 1 \in Int
    OBVIOUS
  <2>3. /\ a \in Seq(T) /\ Len(a) = IF 1 <= i - 1 THEN (i - 1) - 1 + 1 ELSE 0
        /\ \A j \in 1 .. (i - 1) - 1 + 1 : a[j] = list[1 + j - 1]
    BY <2>1, <2>2, SubSeqProperties
  <2> HIDE DEF a
  <2> QED BY <1>1, <2>3
<1>3. b \in Seq(T) /\ Len(b) = n - i /\ \A j \in 1 .. n - i : b[j] = list[i + j]
  <2>1. \A j \in i + 1 .. n : list[j] \in T
    OBVIOUS
  <2>2. i + 1 \in Int /\ n \in Int
    OBVIOUS
  <2>3. /\ b \in Seq(T) /\ Len(b) = IF i + 1 <= n THEN n - (i + 1) + 1 ELSE 0
        /\ \A j \in 1 .. n - (i + 1) + 1 : b[j] = list[(i + 1) + j - 1]
    BY <2>1, <2>2, SubSeqProperties
  <2> HIDE DEF b, n
  <2>4. n - (i + 1) + 1 = n - i /\ \A j \in 1 .. n - i : (i + 1) + j - 1 = i + j
    BY <1>1
  <2> QED BY <1>1, <2>3, <2>4
<1>4. new \in Seq(T) /\ Len(new) = n /\ \A j \in 1 .. n : new[j] = IF j = i THEN y ELSE list[j]
  BY ExceptSeq
<1>l. list \in Seq(T) /\ Len(list) = n
  OBVIOUS
<1> HIDE DEF n, a, b, x, new
<1>5. ASSUME NEW z \in T
      PROVE  /\ (a \o <<z>>) \o b \in Seq(T) /\ Len((a \o <<z>>) \o b) = n
             /\ \A j \in 1 .. n : ((a \o <<z>>) \o b)[j] = IF j = i THEN z ELSE list[j]
  <2> DEFINE az == a \o <<z>>
             all == az \o b
  <2>1. <<z>> \in Seq(T) /\ Len(<<z>>) = 1 /\ <<z>>[1] = z
    OBVIOUS
  <2>2. /\ az \in Seq(T) /\ Len(az) = Len(a) + 1
        /\ \A j \in 1 .. Len(a) + 1 : az[j] = IF j <= Len(a) THEN a[j] ELSE <<z>>[j - Len(a)]
    BY <1>2, <2>1, ConcatProperties
  <2> HIDE DEF az
  <2>3. /\ all \in Seq(T) /\ Len(all) = Len(az) + Len(b)
        /\ \A j \in 1 .. Len(az) + Len(b) :
              all[j] = IF j <= Len(az) THEN az[j] ELSE b[j - Len(az)]
    BY <1>3, <2>2, ConcatProperties
  <2>4. Len(az) = i /\ Len(az) + Len(b) = n
    BY <1>1, <1>2, <1>3, <2>2
  <2> HIDE DEF all
  <2>5. ASSUME NEW j \in 1 .. n PROVE all[j] = IF j = i THEN z ELSE list[j]
    <3>1. CASE j < i
      <4>1. j <= Len(az) /\ j \in 1 .. Len(a) + 1 /\ j <= Len(a) /\ j \in 1 .. i - 1 /\ j # i
        BY <1>1, <1>2, <2>4, <3>1
      <4> QED BY <1>2, <2>2, <2>3, <2>4, <4>1
    <3>2. CASE j = i
      <4>1. j <= Len(az) /\ j \in 1 .. Len(a) + 1 /\ ~ (j <= Len(a)) /\ j - Len(a) = 1
        BY <1>1, <1>2, <2>4, <3>2
      <4> QED BY <2>1, <2>2, <2>3, <2>4, <3>2, <4>1
    <3>3. CASE j > i
      <4>1. ~ (j <= Len(az)) /\ j - i \in 1 .. n - i /\ i + (j - i) = j /\ j # i
        BY <1>1, <2>4, <3>3
      <4>2. all[j] = b[j - i] /\ b[j - i] = list[j]
        BY <1>3, <2>3, <2>4, <4>1
      <4> QED BY <4>1, <4>2
    <3>4. j < i \/ j = i \/ j > i
      BY <1>1
    <3> QED BY <3>1, <3>2, <3>3, <3>4
  <2> QED BY <2>3, <2>4, <2>5 DEF all, az
<1>6. s \in Seq(T) /\ Len(s) = n /\ \A j \in 1 .. n : s[j] = IF j = i THEN x ELSE list[j]
  BY <1>1, <1>5
<1>7. t \in Seq(T) /\ Len(t) = n /\ \A j \in 1 .. n : t[j] = IF j = i THEN y ELSE list[j]
  BY <1>5
<1> HIDE DEF s, t
<1>8. list = s
  <2>1. \A j \in 1 .. n : list[j] = s[j]
    BY <1>6 DEF x
  <2> QED BY <1>l, <1>6, <2>1, SeqEqual
<1>9. new = t
  <2>1. \A j \in 1 .. n : new[j] = t[j]
    BY <1>4, <1>7
  <2> QED BY <1>4, <1>7, <2>1, SeqEqual
<1>10. CutAt(list, new, i, y, a, b)
  BY <1>2, <1>8, <1>9 DEF s, t, x, CutAt
<1> QED BY <1>2, <1>3, <1>10 DEF new

\* Cancelling by token takes the client's request out of line, and no other.
LEMMA CancelPacks ==
    ASSUME QueueShape, TokensReachRequests, TokensAreOwn, NEW c \in Clients \ Tokenless
    PROVE  Packed(InternalCancel(token[c])) = RemoveFirst(Waiting, c)
<1> DEFINE rest == InternalCancel(token[c])
           S == Clients \ {c}
<1>0. /\ Null \notin Clients /\ mCallbacks \in Seq(Entries) /\ Len(mCallbacks) \in Nat
      /\ DOMAIN mCallbacks = 1 .. Len(mCallbacks) /\ token[c] \in Nat /\ c \in Clients
  BY DispatcherAssumption DEF QueueShape
<1>1. CASE \E i \in 1 .. Len(mCallbacks) : mCallbacks[i] = c
  <2>1. PICK i \in 1 .. Len(mCallbacks) : mCallbacks[i] = c
    BY <1>1
  <2>2. token[c] = mHeadToken + 2 * (i - 1)
    BY <1>0, <2>1 DEF TokensReachRequests
  <2>3. rest = [mCallbacks EXCEPT ![i] = Null]
    <3>1. \A k \in 1 .. Len(mCallbacks) : token[c] = mHeadToken + 2 * (k - 1) => k = i
      BY <2>2 DEF QueueShape
    <3>2. /\ rest \in Seq(Entries) /\ Len(rest) = Len(mCallbacks) /\ rest[i] = Null
      BY <1>0, <2>1, <2>2, CancelFacts DEF QueueShape
    <3>3. rest # mCallbacks
      BY <1>0, <2>1, <3>2
    <3> HIDE DEF rest
    <3>4. \/ rest = mCallbacks
          \/ \E k \in 1 .. Len(mCallbacks) :
                 /\ token[c] = mHeadToken + 2 * (k - 1)
                 /\ rest = [mCallbacks EXCEPT ![k] = Null]
      BY <1>0, CancelExact DEF rest
    <3> QED BY <3>1, <3>3, <3>4
  <2>4. PICK a \in Seq(Entries), b \in Seq(Entries) :
            /\ mCallbacks = (a \o <<c>>) \o b
            /\ [mCallbacks EXCEPT ![i] = Null] = (a \o <<Null>>) \o b
            /\ Len(a) = i - 1 /\ \A j \in 1 .. Len(a) : a[j] = mCallbacks[j]
    <3>1. Null \in Entries
      BY DEF Entries
    <3>2. \E a, b \in Seq(Entries) :
              CutAt(mCallbacks, [mCallbacks EXCEPT ![i] = Null], i, Null, a, b)
      BY <1>0, <2>1, <3>1, Parts
    <3> QED BY <2>1, <3>2 DEF CutAt
  <2>5. a \in Seq(S \union {Null})
    <3>1. ASSUME NEW j \in 1 .. Len(a) PROVE a[j] \in S \union {Null}
      <4>1. j \in 1 .. Len(mCallbacks) /\ j # i /\ a[j] = mCallbacks[j] /\ a[j] \in Entries
        BY <1>0, <2>1, <2>4
      <4>2. mCallbacks[j] # c
        <5>1. ASSUME mCallbacks[j] = c PROVE FALSE
          <6>1. token[c] = mHeadToken + 2 * (j - 1)
            BY <1>0, <4>1, <5>1 DEF TokensReachRequests
          <6>2. mHeadToken \in Nat /\ i \in Nat /\ j \in Nat
            BY DEF QueueShape
          <6> QED BY <2>2, <4>1, <6>1, <6>2
        <5> QED BY <5>1
      <4> QED BY <4>1, <4>2 DEF Entries
    <3>2. Len(a) \in Nat /\ a \in [1 .. Len(a) -> Entries]
      BY <2>4
    <3>3. a \in [1 .. Len(a) -> S \union {Null}]
      BY <3>1, <3>2
    <3> HIDE DEF S
    <3> QED BY <3>2, <3>3, SeqDef
  <2> DEFINE pa == Packed(a)
             pb == Packed(b)
  <2>6. Null \notin S /\ Entries = Clients \union {Null}
    BY <1>0 DEF Entries
  <2>7. pa \in Seq(S)
    BY <2>5, <2>6, PackedType
  <2>8. pb \in Seq(Clients)
    BY <2>4, <2>6, PackedType
  <2> HIDE DEF pa, pb
  <2>9. pa \in Seq(Clients) /\ \A j \in 1 .. Len(pa) : pa[j] # c
    <3>1. S \subseteq Clients
      OBVIOUS
    <3>2. pa \in Seq(Clients)
      BY <2>7, <3>1, SeqMonotonic
    <3>3. \A j \in 1 .. Len(pa) : pa[j] \in S
      BY <2>7, ElementOfSeq
    <3> QED BY <3>2, <3>3
  <2>10. Packed((a \o <<c>>) \o b) = (pa \o <<c>>) \o pb
    <3>1. <<c>> \in Seq(Entries) /\ c # Null /\ c \in Entries
      BY <1>0 DEF Entries
    <3>2. a \o <<c>> \in Seq(Entries)
      BY <2>4, <3>1, ConcatProperties
    <3> DEFINE ac == a \o <<c>>
               one == <<c>>
    <3>t. /\ ac \in Seq(Clients \union {Null}) /\ a \in Seq(Clients \union {Null})
          /\ b \in Seq(Clients \union {Null}) /\ one \in Seq(Clients \union {Null})
      BY <2>4, <3>1, <3>2 DEF Entries
    <3>3. Packed(ac \o b) = Packed(ac) \o Packed(b)
      <4> HIDE DEF ac
      <4> QED BY <3>t, PackedConcat
    <3>4. Packed(a \o one) = Packed(a) \o Packed(one)
      <4> HIDE DEF one
      <4> QED BY <3>t, PackedConcat
    <3>5. Packed(<<c>>) = <<c>>
      BY <2>6, <3>1, PackedOne
    <3> QED BY <3>3, <3>4, <3>5 DEF pa, pb
  <2>11. Packed((a \o <<Null>>) \o b) = pa \o pb
    <3>1. <<Null>> \in Seq(Entries) /\ Null \in Entries
      BY DEF Entries
    <3>2. a \o <<Null>> \in Seq(Entries)
      BY <2>4, <3>1, ConcatProperties
    <3> DEFINE an == a \o <<Null>>
               one == <<Null>>
    <3>t. /\ an \in Seq(Clients \union {Null}) /\ a \in Seq(Clients \union {Null})
          /\ b \in Seq(Clients \union {Null}) /\ one \in Seq(Clients \union {Null})
      BY <2>4, <3>1, <3>2 DEF Entries
    <3>3. Packed(an \o b) = Packed(an) \o Packed(b)
      <4> HIDE DEF an
      <4> QED BY <3>t, PackedConcat
    <3>4. Packed(a \o one) = Packed(a) \o Packed(one)
      <4> HIDE DEF one
      <4> QED BY <3>t, PackedConcat
    <3>5. Packed(<<Null>>) = <<>>
      BY <2>6, <3>1, PackedOne
    <3>6. Packed(a) \o <<>> = Packed(a)
      BY <2>7, ConcatEmptySeq DEF pa
    <3> QED BY <3>3, <3>4, <3>5, <3>6 DEF pa, pb
  <2>12. RemoveFirst((pa \o <<c>>) \o pb, c) = pa \o pb
    BY <1>0, <2>8, <2>9, RemoveBetween
  <2> QED BY <2>3, <2>4, <2>10, <2>11, <2>12 DEF Waiting
<1>2. CASE \A i \in 1 .. Len(mCallbacks) : mCallbacks[i] # c
  <2>1. rest = mCallbacks
    <3> HIDE DEF rest
    <3>1. \/ rest = mCallbacks
          \/ \E k \in 1 .. Len(mCallbacks) :
                 /\ token[c] = mHeadToken + 2 * (k - 1)
                 /\ rest = [mCallbacks EXCEPT ![k] = Null]
      BY <1>0, CancelExact DEF rest
    <3>2. ASSUME NEW k \in 1 .. Len(mCallbacks), token[c] = mHeadToken + 2 * (k - 1)
          PROVE  [mCallbacks EXCEPT ![k] = Null] = mCallbacks
      <4>1. mCallbacks[k] = Null
        BY <1>2, <3>2 DEF TokensAreOwn
      <4> QED BY <1>0, <4>1
    <3> QED BY <3>1, <3>2
  <2>2. mCallbacks \in Seq(S \union {Null})
    <3>1. \A j \in 1 .. Len(mCallbacks) : mCallbacks[j] \in S \union {Null}
      BY <1>0, <1>2 DEF Entries
    <3>2. mCallbacks \in [1 .. Len(mCallbacks) -> S \union {Null}]
      BY <1>0, <3>1
    <3> HIDE DEF S
    <3> QED BY <1>0, <3>2, SeqDef
  <2>3. Waiting \in Seq(S)
    BY <1>0, <2>2, PackedType DEF Waiting
  <2>4. ~ \E j \in 1 .. Len(Waiting) : Waiting[j] = c
    <3>1. \A j \in 1 .. Len(Waiting) : Waiting[j] \in S
      BY <2>3, ElementOfSeq
    <3> QED BY <3>1
  <2>5. RemoveFirst(Waiting, c) = Waiting
    BY <2>4 DEF RemoveFirst
  <2> QED BY <2>1, <2>5 DEF Waiting
<1> QED BY <1>1, <1>2

LEMMA TokensOwnStep == TokenInv /\ TokensAreOwn /\ [Next]_vars => TokensAreOwn'
<1> SUFFICES ASSUME TokenInv, TokensAreOwn, [Next]_vars PROVE TokensAreOwn'
  OBVIOUS
<1>0. /\ mCallbacks \in Seq(Entries) /\ Len(mCallbacks) \in Nat
      /\ mHeadToken \in Nat /\ mHeadToken % 2 = 1 /\ mHeadToken >= 1
      /\ token \in [Clients -> Nat] /\ \A c \in Clients : token[c] \in Nat
      /\ Null \notin Clients
  BY DispatcherAssumption DEF TokenInv, TypeOK, Entries
<1> DEFINE n == Len(mCallbacks)
<1>1. ASSUME NEW c \in Clients, Queue(c)
      PROVE  TokensAreOwn'
  <2> DEFINE rest == IF c \in Tokenless THEN mCallbacks ELSE InternalCancel(token[c])
             tok == mHeadToken + 2 * n
  <2>1. /\ mHeadToken' = mHeadToken /\ mCallbacks' = Append(rest, c)
        /\ token' = IF c \in Tokenless THEN token ELSE [token EXCEPT ![c] = tok]
    BY <1>1 DEF Queue, IsFirst
  <2>2. /\ rest \in Seq(Entries) /\ Len(rest) = n
        /\ \A i \in 1 .. n : rest[i] \in {mCallbacks[i], Null}
    BY <1>0, CancelFacts
  <2> HIDE DEF rest
  <2>3. /\ Len(mCallbacks') = n + 1 /\ mCallbacks'[n + 1] = c
        /\ \A i \in 1 .. n : mCallbacks'[i] = rest[i]
    BY <1>0, <2>1, <2>2 DEF Entries
  <2> SUFFICES ASSUME NEW d \in Clients \ Tokenless
               PROVE  /\ token'[d] < mHeadToken + 2 * (n + 1)
                      /\ \A i \in 1 .. n + 1 :
                            token'[d] = mHeadToken + 2 * (i - 1) => mCallbacks'[i] \in {d, Null}
    BY <2>1, <2>3 DEF TokensAreOwn
  <2>4. CASE d # c
    <3>1. token'[d] = token[d]
      BY <1>0, <2>1, <2>4
    <3>2. token[d] < mHeadToken + 2 * n
      BY DEF TokensAreOwn
    <3>3. ASSUME NEW i \in 1 .. n + 1, token[d] = mHeadToken + 2 * (i - 1)
          PROVE  mCallbacks'[i] \in {d, Null}
      <4>1. i \in 1 .. n
        <5>1. i # n + 1
          BY <1>0, <3>2, <3>3
        <5> QED BY <1>0, <5>1
      <4>2. mCallbacks[i] \in {d, Null}
        BY <3>3, <4>1 DEF TokensAreOwn
      <4> QED BY <2>2, <2>3, <4>1, <4>2
    <3>4. token[d] < mHeadToken + 2 * (n + 1)
      BY <1>0, <3>2
    <3> QED BY <3>1, <3>3, <3>4
  <2>5. CASE d = c
    <3>1. token'[d] = tok
      BY <1>0, <2>1, <2>5
    <3>2. tok < mHeadToken + 2 * (n + 1)
      BY <1>0
    <3>3. ASSUME NEW i \in 1 .. n + 1, tok = mHeadToken + 2 * (i - 1)
          PROVE  mCallbacks'[i] \in {d, Null}
      <4>1. i = n + 1
        BY <1>0, <3>3
      <4> QED BY <2>3, <2>5, <4>1
    <3> HIDE DEF tok, n
    <3> QED BY <3>1, <3>2, <3>3
  <2> QED BY <2>4, <2>5
<1>2. ASSUME NEW c \in Clients, Cancel(c)
      PROVE  TokensAreOwn'
  <2> DEFINE rest == InternalCancel(token[c])
  <2>1. /\ mCallbacks' = rest /\ token' = [token EXCEPT ![c] = 0] /\ mHeadToken' = mHeadToken
    BY <1>2 DEF Cancel
  <2>2. /\ rest \in Seq(Entries) /\ Len(rest) = n
        /\ \A i \in 1 .. n : rest[i] \in {mCallbacks[i], Null}
    BY <1>0, CancelFacts
  <2> HIDE DEF rest
  <2> SUFFICES ASSUME NEW d \in Clients \ Tokenless
               PROVE  /\ token'[d] < mHeadToken + 2 * n
                      /\ \A i \in 1 .. n :
                            token'[d] = mHeadToken + 2 * (i - 1) => rest[i] \in {d, Null}
    BY <2>1, <2>2 DEF TokensAreOwn
  <2>3. CASE d # c
    <3>1. token'[d] = token[d]
      BY <1>0, <2>1, <2>3
    <3>2. /\ token[d] < mHeadToken + 2 * n
          /\ \A i \in 1 .. n : token[d] = mHeadToken + 2 * (i - 1) => mCallbacks[i] \in {d, Null}
      BY DEF TokensAreOwn
    <3> HIDE DEF n
    <3> QED BY <2>2, <3>1, <3>2
  <2>4. CASE d = c
    <3>1. token'[d] = 0
      BY <1>0, <2>1, <2>4
    <3>2. 0 < mHeadToken + 2 * n /\ \A i \in 1 .. n : 0 # mHeadToken + 2 * (i - 1)
      BY <1>0
    <3> QED BY <3>1, <3>2
  <2> QED BY <2>3, <2>4
<1>3. CASE RunNext
  <2>1. mCallbacks # <<>> /\ mCallbacks' = Tail(mCallbacks) /\ mHeadToken' = mHeadToken + 2 /\ token' = token
    BY <1>3 DEF RunNext, NextHeadToken
  <2>2. /\ Len(mCallbacks') = n - 1 /\ \A i \in 1 .. n - 1 : mCallbacks'[i] = mCallbacks[i + 1]
    BY <1>0, <2>1
  <2> SUFFICES ASSUME NEW d \in Clients \ Tokenless
               PROVE  /\ token[d] < (mHeadToken + 2) + 2 * (n - 1)
                      /\ \A i \in 1 .. n - 1 :
                            token[d] = (mHeadToken + 2) + 2 * (i - 1) => mCallbacks[i + 1] \in {d, Null}
    BY <2>1, <2>2 DEF TokensAreOwn
  <2>3. /\ token[d] < mHeadToken + 2 * n
        /\ \A i \in 1 .. n : token[d] = mHeadToken + 2 * (i - 1) => mCallbacks[i] \in {d, Null}
    BY DEF TokensAreOwn
  <2>4. (mHeadToken + 2) + 2 * (n - 1) = mHeadToken + 2 * n
    BY <1>0
  <2>5. \A i \in 1 .. n - 1 :
            i + 1 \in 1 .. n /\ (mHeadToken + 2) + 2 * (i - 1) = mHeadToken + 2 * ((i + 1) - 1)
    BY <1>0
  <2> HIDE DEF n
  <2> QED BY <2>3, <2>4, <2>5
<1>4. CASE UNCHANGED requests
  BY <1>4 DEF requests, TokensAreOwn
<1>5. ASSUME NEW t \in Threads, WakeStep(t)
      PROVE  UNCHANGED requests
  BY <1>5 DEF WakeStep, CheckWakePending, SetWakePending, PostWake
<1>6. OnWake \/ EndScanline \/ CallbackReturns \/ FinishRun => UNCHANGED requests
  BY DEF OnWake, EndScanline, CallbackReturns, FinishRun
<1>7. UNCHANGED vars => UNCHANGED requests
  BY DEF vars, requests
<1> QED BY <1>1, <1>2, <1>3, <1>4, <1>5, <1>6, <1>7 DEF Next

LEMMA TokensOwnInit == Init => TokensAreOwn
<1> SUFFICES ASSUME Init PROVE TokensAreOwn
  OBVIOUS
<1>1. mCallbacks = <<>> /\ mHeadToken = 1 /\ \A c \in Clients : token[c] = 0
  BY DEF Init
<1> QED BY <1>1 DEF TokensAreOwn

\* Every step is one of the plain queue, or leaves that as it is.
LEMMA QueueSteps == TokenInv /\ TokensAreOwn /\ [Next]_vars => [Abstract!Next]_Waiting
<1> SUFFICES ASSUME TokenInv, TokensAreOwn, [Next]_vars, Waiting' # Waiting PROVE Abstract!Next
  OBVIOUS
<1>0. /\ mCallbacks \in Seq(Entries) /\ Entries = Clients \union {Null}
      /\ Null \notin Clients /\ QueueShape /\ TokensReachRequests
      /\ \A c \in Clients : token[c] \in Nat
  BY DispatcherAssumption DEF TokenInv, TypeOK, Entries, QueueShape
<1>r. \A c : Abstract!RemoveFirst(Waiting, c) = RemoveFirst(Waiting, c)
  BY DEF Abstract!RemoveFirst, Abstract!RemoveAt, Abstract!SelectInSeq, Abstract!Min,
     RemoveFirst, RemoveAt, SelectInSeq, Min
<1>1. ASSUME NEW c \in Clients, Queue(c)
      PROVE  Abstract!Request(c)
  <2> DEFINE rest == IF c \in Tokenless THEN mCallbacks ELSE InternalCancel(token[c])
  <2>1. mCallbacks' = Append(rest, c)
    BY <1>1 DEF Queue, IsFirst
  <2>2. rest \in Seq(Entries)
    BY <1>0, CancelFacts DEF QueueShape
  <2>3. Packed(rest) = Abstract!Without(c)
    <3>1. CASE c \in Tokenless
      BY <3>1 DEF Abstract!Without, Waiting
    <3>2. CASE c \notin Tokenless
      <4>1. Packed(InternalCancel(token[c])) = RemoveFirst(Waiting, c)
        BY <1>0, <3>2, CancelPacks
      <4> QED BY <1>r, <3>2, <4>1 DEF Abstract!Without
    <3> QED BY <3>1, <3>2
  <2> HIDE DEF rest
  <2>4. Packed(Append(rest, c)) = Append(Packed(rest), c)
    <3>1. rest \in Seq(Clients \union {Null}) /\ c \in Clients \union {Null} /\ c # Null
      BY <1>0, <2>2
    <3>2. Packed(Append(rest, c)) = IF c = Null THEN Packed(rest) ELSE Append(Packed(rest), c)
      BY <3>1, PackedAppend
    <3> QED BY <3>1, <3>2
  <2>5. Waiting' = Packed(mCallbacks')
    BY DEF Waiting
  <2> QED BY <2>1, <2>3, <2>4, <2>5 DEF Abstract!Request
<1>2. ASSUME NEW c \in Clients, Cancel(c)
      PROVE  Abstract!Withdraw(c)
  <2>1. c \notin Tokenless /\ mCallbacks' = InternalCancel(token[c])
    BY <1>2 DEF Cancel
  <2>2. Packed(InternalCancel(token[c])) = RemoveFirst(Waiting, c)
    BY <1>0, <2>1, CancelPacks
  <2>3. Waiting' = Packed(mCallbacks')
    BY DEF Waiting
  <2> QED BY <1>r, <2>1, <2>2, <2>3 DEF Abstract!Withdraw, Abstract!Without
<1>3. CASE RunNext
  <2> DEFINE x == Head(mCallbacks)
             t == Tail(mCallbacks)
             one == <<x>>
  <2>1. mCallbacks # <<>> /\ mCallbacks' = t
    BY <1>3 DEF RunNext
  <2>2. x \in Entries /\ t \in Seq(Entries) /\ one \in Seq(Entries)
    BY <1>0, <2>1, HeadTailProperties
  <2>3. mCallbacks = one \o t
    <3>1. Len(mCallbacks) \in Nat /\ 1 \in 1 .. Len(mCallbacks) /\ Len(mCallbacks) \in 1 .. Len(mCallbacks)
      BY <1>0, <2>1
    <3>2. mCallbacks = SubSeq(mCallbacks, 1, Len(mCallbacks)) /\ t = SubSeq(mCallbacks, 2, Len(mCallbacks))
      BY <1>0, <2>1, SubSeqFull, TailIsSubSeq
    <3>3. SubSeq(mCallbacks, 1, Len(mCallbacks))
              = <<mCallbacks[1]>> \o SubSeq(mCallbacks, 1 + 1, Len(mCallbacks))
      BY <1>0, <3>1, SubSeqRecursiveFirst
    <3>4. x = mCallbacks[1]
      BY <1>0, <2>1
    <3> QED BY <3>2, <3>3, <3>4
  <2> HIDE DEF x, t, one
  <2>4. Waiting = Packed(one) \o Packed(t) /\ Packed(t) \in Seq(Clients)
    <3>1. one \in Seq(Clients \union {Null}) /\ t \in Seq(Clients \union {Null})
      BY <1>0, <2>2
    <3>2. Packed(one \o t) = Packed(one) \o Packed(t)
      BY <3>1, PackedConcat
    <3>3. Packed(t) \in Seq(Clients)
      BY <3>1, PackedType
    <3> QED BY <2>3, <3>2, <3>3 DEF Waiting
  <2>5. Waiting' = Packed(t)
    BY <2>1 DEF Waiting
  <2>6. Packed(one) = IF x = Null THEN <<>> ELSE <<x>>
    <3>1. x \in Clients \union {Null}
      BY <1>0, <2>2
    <3> QED BY <3>1, PackedOne DEF one
  <2>7. x # Null
    <3>1. <<>> \o Packed(t) = Packed(t)
      BY <2>4, ConcatEmptySeq
    <3> QED BY <2>4, <2>5, <2>6, <3>1
  <2>8. Waiting = <<x>> \o Packed(t) /\ x \in Clients
    BY <1>0, <2>2, <2>4, <2>6, <2>7
  <2> DEFINE p == Packed(t)
  <2>9. p \in Seq(Clients) /\ <<x>> \in Seq(Clients)
    BY <2>4, <2>8
  <2> HIDE DEF p
  <2>10. <<x>> \o p # <<>> /\ Tail(<<x>> \o p) = p
    <3> DEFINE w == <<x>> \o p
    <3>1. /\ w \in Seq(Clients) /\ Len(w) = 1 + Len(p)
          /\ \A i \in 1 .. 1 + Len(p) : w[i] = IF i <= 1 THEN <<x>>[i] ELSE p[i - 1]
      BY <2>9, ConcatProperties
    <3>2. Len(p) \in Nat
      BY <2>9
    <3> HIDE DEF w
    <3>3. w # <<>>
      BY <3>1, <3>2
    <3>4. Tail(w) \in Seq(Clients) /\ Len(Tail(w)) = Len(p) /\ \A i \in 1 .. Len(p) : Tail(w)[i] = w[i + 1]
      BY <3>1, <3>2, <3>3, HeadTailProperties
    <3>5. \A i \in 1 .. Len(p) : i + 1 \in 1 .. 1 + Len(p) /\ ~ (i + 1 <= 1) /\ (i + 1) - 1 = i
      BY <3>2
    <3>6. \A i \in 1 .. Len(Tail(w)) : Tail(w)[i] = p[i]
      BY <3>1, <3>4, <3>5
    <3>7. Tail(w) = p
      BY <2>9, <3>4, <3>6, SeqEqual
    <3> QED BY <3>3, <3>7 DEF w
  <2>11. Abstract!Run
    BY <2>5, <2>8, <2>10 DEF Abstract!Run, p
  <2> QED BY <2>11 DEF Abstract!Next
<1>4. ~ UNCHANGED requests
  BY DEF requests, Waiting
<1>5. ASSUME NEW t \in Threads, WakeStep(t)
      PROVE  UNCHANGED requests
  BY <1>5 DEF WakeStep, CheckWakePending, SetWakePending, PostWake
<1>6. OnWake \/ EndScanline \/ CallbackReturns \/ FinishRun => UNCHANGED requests
  BY DEF OnWake, EndScanline, CallbackReturns, FinishRun
<1>7. UNCHANGED vars => UNCHANGED requests
  BY DEF vars, requests
<1> QED BY <1>1, <1>2, <1>3, <1>4, <1>5, <1>6, <1>7 DEF Next, Abstract!Next

-----------------------------------------------------------------------------
\* Every variable keeps its type; in particular the head token stays odd.
THEOREM TypeCorrectness == Spec => []TypeOK
<1>1. TokenInv => TypeOK
  BY DEF TokenInv
<1> QED BY TokenInvInit, TokenInvStep, <1>1, PTL DEF Spec

\* For any number of clients and requests a token leads to the request made on it as
\* long as that waits, so that cancelling on the dispatching thread always stops a
\* request that has not been taken, and never to the request of another client,
\* however long it has been kept.
THEOREM TokenSafety == Spec => []TokensLeadToRequests
<1>1. Init => TokenInv /\ TokensAreOwn
  BY TokenInvInit, TokensOwnInit
<1>2. TokenInv /\ TokensAreOwn /\ [Next]_vars => (TokenInv /\ TokensAreOwn)'
  BY TokenInvStep, TokensOwnStep
<1>3. TokenInv /\ TokensAreOwn => TokensLeadToRequests
  BY DEF TokenInv, TokensLeadToRequests
<1> QED BY <1>1, <1>2, <1>3, PTL DEF Spec

\* No interleaving of the threads that queue, of the wake-up flag they share
\* without a lock, and of the dispatching thread strands a request.
THEOREM WakeupSafety == Spec => []NoLostWakeup
<1>1. Init => WakeInv
  <2>1. Init => NoLostWakeup /\ FlagIsPromise
    BY DEF Init, NoLostWakeup, FlagIsPromise
  <2>2. TokenInv => TypeOK
    BY DEF TokenInv
  <2> QED BY TokenInvInit, <2>1, <2>2 DEF WakeInv
<1>2. WakeInv => NoLostWakeup
  BY DEF WakeInv
<1> QED BY TypeCorrectness, WakeInvStep, <1>1, <1>2, PTL DEF Spec

\* Every behaviour of the dispatcher, its cancelled entries left out, is one of a plain
\* queue in which a client replaces or withdraws its own request and touches no other:
\* cancelling by the distance of two tokens is cancelling by name.
THEOREM QueueRefinement == Spec => ImplementsQueue
<1>1. Init => Abstract!Init
  BY PackedEmpty DEF Init, Abstract!Init, Waiting
<1> QED
  BY TokenInvInit, TokenInvStep, TokensOwnInit, TokensOwnStep, QueueSteps, <1>1, PTL
  DEF Spec, ImplementsQueue, Abstract!Spec
=============================================================================
